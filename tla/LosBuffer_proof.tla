-------------------------- MODULE LosBuffer_proof --------------------------
(***************************************************************************)
(* LOSd's buffer, for any number of items and directories, any sizes that  *)
(* fit into it and any deaths.  Every packet put into losBuffer fits,      *)
(* although the tests for room are made in other places than the packets   *)
(* are put; and no file goes before its packets are in the buffer, or SIPd *)
(* has sent it, however often the buffer is written, a write fails or the  *)
(* program ends in between.  The packets go on the wire in order and no    *)
(* item twice, but for housekeeping that both readers have touched.        *)
(***************************************************************************)
EXTENDS LosBuffer, FiniteSetTheorems, SequenceTheorems, TLAPS

\* What LOSd is doing, also while it writes the buffer in between.
Stage == IF pc \in {"poll", "write"} THEN after ELSE pc

\* The packets that have got into the buffer at some time.  None of the three
\* loses one but to the others.
Delivered == Pending \cup OnWire \cup lost

\* The positions at which cur is an item.
AtItem == {"hkTouch", "hkRead", "hkUnlink", "evCheck", "evTouch", "evLink", "header", "body", "parts"}

\* A list holds the links of its own directory, and what is read as
\* housekeeping is of the directory read.
Sorted ==
    /\ \A d \in Kinds : \A i \in list[d] : kind[i] = d
    /\ pc \in {"hkTouch", "hkRead", "hkUnlink"} => kind[cur] = hkInd

\* The current item and directory are defined where they are used, and SIPd's
\* item where SIPd has one.
Places ==
    /\ Stage \in AtItem => cur \in 1 .. made
    /\ pc \in {"hk", "hkTouch", "hkRead", "hkUnlink"} => hkInd \in Dirs
    /\ spc # "idle" => scur \in 1 .. made

\* Where a packet of housekeeping or a header is about to be put, it fits: the
\* test was made before, for a directory when it was begun (LOSd.c:849) or after
\* the packet before (756), for a header with the unlinking of the link (1009).
Room ==
    /\ pc \in {"hk", "hkTouch", "hkRead"} => Fits(MaxSize[hkInd])
    /\ pc = "header" => Fits(HeaderSize)

\* What has got into the buffer when LOSd is about to unlink: the packet of
\* housekeeping, or the header and the parts up to the current one.  SIPd unlinks
\* what it has sent, or what was gone before.
Sent ==
    /\ pc = "hkUnlink" => <<cur, 0>> \in Delivered
    /\ Stage # "parts" => part = 1
    /\ Stage \in {"body", "parts"} => \A k \in 0 .. part - 1 : <<cur, k>> \in Delivered
    /\ spc = "remove" => scur \in sipSent \/ scur \notin file

\* The inductive invariant.
Inv == TypeOK /\ Sorted /\ Places /\ Room /\ Sent /\ Accounted

-----------------------------------------------------------------------------
(* Lists and the end of LOSd *)

\* A rescan fills the lists with items.
LEMMA LinkedType ==
    ASSUME TypeOK PROVE [d \in Kinds |-> Linked(d)] \in [Kinds -> SUBSET (1 .. made)]
  BY DEF TypeOK, ItemsType, Linked

\* The link taken is one of the directory's, and no list grows.
LEMMA Taken ==
    ASSUME TypeOK, NEW d \in Kinds, NEW i \in Items, GetLastLink(d, i)
    PROVE  /\ i \in 1 .. made /\ i \in list[d]
           /\ list' \in [Kinds -> SUBSET (1 .. made)]
           /\ \A k \in Kinds : list'[k] \subseteq list[k]
  BY DEF TypeOK, ItemsType, GetLastLink, IsNewest

\* A list has at most as many links as there are items.
LEMMA ListSize ==
    ASSUME TypeOK, NEW d \in Kinds
    PROVE  Cardinality(list[d]) \in 0 .. MaxItems
<1>1. list[d] \subseteq 1 .. made /\ made \in 0 .. MaxItems
  BY DEF TypeOK, ItemsType
<1>2. IsFiniteSet(1 .. made) /\ Cardinality(1 .. made) = made
  <2>1. made \in Nat
    BY <1>1
  <2> QED
    BY <2>1, FS_Interval
<1>3. /\ Cardinality(list[d]) \in Nat
      /\ Cardinality(list[d]) <= made
  BY <1>1, <1>2, FS_Subset, FS_CardinalityType
<1> QED
  BY <1>1, <1>3, LosAssumption

\* Housekeeping directories and the events' are all the directories.
LEMMA DirsAreKinds == Dirs \subseteq Kinds /\ Event \in Kinds /\ Event \notin Dirs
  BY LosAssumption DEF Dirs, Kinds, Event

\* When LOSd ends, the items' types stay.
LEMMA ExitItems == ASSUME TypeOK, Exit PROVE ItemsType'
<1>1. list' \in [Kinds -> SUBSET (1 .. made)]
  BY LinkedType DEF Exit, Restarted
<1>2. made' = made /\ told' = made /\ cur' = 0
  BY DEF Exit, Restarted, ramdisk
<1>3. UNCHANGED <<kind, file, link, losd, sipd, scur, sipSent, contested>>
  BY DEF Exit, ramdisk, sip
<1> QED
  BY <1>1, <1>2, <1>3 DEF TypeOK, ItemsType

\* When LOSd ends, the new buffer holds the wake-up packet.
LEMMA ExitBuffer == ASSUME TypeOK, Exit PROVE BufferType'
<1>1. buf' = <<>> /\ buf' \in Seq(Packets) /\ numBytesInBuffer' = WakeUpSize
  BY DEF Exit, Restarted
<1>2. Pending \subseteq Packets
  BY DEF TypeOK, BufferType, Pending
<1>3. wire \o buf \in Seq(Packets)
  BY ConcatProperties DEF TypeOK, BufferType
<1>4. wire' \in Seq(Packets) /\ lost' \subseteq Packets
  BY <1>2, <1>3 DEF Exit, TypeOK, BufferType
<1> QED
  BY <1>1, <1>4, LosAssumption DEF BufferType

-----------------------------------------------------------------------------
(* What has got into the buffer *)

\* What a sequence holds when something is put behind it.
LEMMA AppendHolds ==
    ASSUME NEW S, NEW s \in Seq(S), NEW p \in S
    PROVE  { Append(s, p)[n] : n \in DOMAIN Append(s, p) } = { s[n] : n \in DOMAIN s } \cup {p}
<1> DEFINE t == Append(s, p)
<1>1. /\ t \in Seq(S) /\ Len(t) = Len(s) + 1
      /\ \A n \in 1 .. Len(s) : t[n] = s[n]
      /\ t[Len(s) + 1] = p
  BY AppendProperties
<1>2. /\ DOMAIN t = 1 .. Len(t) /\ DOMAIN s = 1 .. Len(s) /\ Len(s) \in Nat
  BY <1>1, LenProperties
<1> HIDE DEF t
<1>3. \A n \in DOMAIN t : t[n] \in { s[m] : m \in DOMAIN s } \cup {p}
  BY <1>1, <1>2
<1>4. \A n \in DOMAIN s : n \in DOMAIN t /\ s[n] = t[n]
  BY <1>1, <1>2
<1>5. Len(s) + 1 \in DOMAIN t
  BY <1>1, <1>2
<1>6. { t[n] : n \in DOMAIN t } = { s[n] : n \in DOMAIN s } \cup {p}
  BY <1>1, <1>3, <1>4, <1>5
<1> QED
  BY <1>6 DEF t

\* What has been on the wire when the buffer goes behind it.
LEMMA ConcatHolds ==
    ASSUME TypeOK, wire' = wire \o buf PROVE OnWire' = OnWire \cup Pending
<1>1. /\ Len(wire') = Len(wire) + Len(buf)
      /\ \A n \in 1 .. Len(wire) + Len(buf) :
            wire'[n] = IF n <= Len(wire) THEN wire[n] ELSE buf[n - Len(wire)]
      /\ wire \in Seq(Packets) /\ buf \in Seq(Packets) /\ wire' \in Seq(Packets)
  BY ConcatProperties DEF TypeOK, BufferType
<1>2. /\ DOMAIN wire' = 1 .. Len(wire')
      /\ DOMAIN wire = 1 .. Len(wire) /\ DOMAIN buf = 1 .. Len(buf)
      /\ Len(wire) \in Nat /\ Len(buf) \in Nat
  BY <1>1, LenProperties
<1>3. \A n \in DOMAIN wire' : wire'[n] \in OnWire \cup Pending
  <2> TAKE n \in DOMAIN wire'
  <2>1. CASE n <= Len(wire)
    BY <1>1, <1>2, <2>1 DEF OnWire
  <2>2. CASE n > Len(wire)
    <3>1. n - Len(wire) \in DOMAIN buf /\ wire'[n] = buf[n - Len(wire)]
      BY <1>1, <1>2, <2>2
    <3> QED
      BY <3>1 DEF Pending
  <2> QED
    BY <1>1, <1>2, <2>1, <2>2
<1>4. \A n \in DOMAIN wire : n \in DOMAIN wire' /\ wire[n] = wire'[n]
  BY <1>1, <1>2
<1>5. \A n \in DOMAIN buf : n + Len(wire) \in DOMAIN wire' /\ buf[n] = wire'[n + Len(wire)]
  BY <1>1, <1>2
<1>6. OnWire' = { wire'[n] : n \in DOMAIN wire' }
  BY DEF OnWire
<1>7. OnWire' \subseteq OnWire \cup Pending
  BY <1>3, <1>6
<1>8. OnWire \subseteq OnWire'
  BY <1>4, <1>6 DEF OnWire
<1>9. Pending \subseteq OnWire'
  BY <1>5, <1>6 DEF Pending
<1> QED
  BY <1>7, <1>8, <1>9

\* A step that leaves buffer, wire and losses alone.
LEMMA Kept == ASSUME UNCHANGED <<buf, wire, lost>> PROVE Delivered' = Delivered
  BY DEF Delivered, Pending, OnWire

\* A packet put into the buffer is delivered.
LEMMA PutDelivers ==
    ASSUME TypeOK, NEW p \in Packets, NEW n \in Nat, Put(p, n), UNCHANGED <<wire, lost>>
    PROVE  Delivered' = Delivered \cup {p}
<1>1. buf \in Seq(Packets) /\ buf' = Append(buf, p)
  BY DEF Put, TypeOK, BufferType
<1>2. Pending' = Pending \cup {p}
  BY <1>1, AppendHolds DEF Pending
<1> QED
  BY <1>2 DEF Delivered, OnWire

\* A write moves packets from the buffer to the wire, whether it fails or not.
LEMMA EmptiedDelivers ==
    ASSUME TypeOK, Emptied, UNCHANGED lost PROVE Delivered' = Delivered
<1>1. OnWire' = OnWire \cup Pending
  BY ConcatHolds DEF Emptied
<1>2. Pending' = {}
  BY DEF Emptied, Pending
<1> QED
  BY <1>1, <1>2 DEF Delivered

\* The end of LOSd moves packets from the buffer to the losses or the wire.
LEMMA ExitDelivers ==
    ASSUME TypeOK, Exit PROVE Delivered' = Delivered
<1>1. Pending' = {}
  BY DEF Exit, Restarted, Pending
<1>2. CASE lost' = lost \cup Pending /\ UNCHANGED wire
  BY <1>1, <1>2 DEF Delivered, OnWire
<1>3. CASE wire' = wire \o buf /\ UNCHANGED lost
  BY <1>1, <1>3, ConcatHolds DEF Delivered
<1> QED
  BY <1>2, <1>3 DEF Exit

\* Reading housekeeping delivers its packet.
LEMMA ReadHkDelivers ==
    ASSUME TypeOK, Places, ReadHk PROVE Delivered' = Delivered \cup {<<cur, 0>>}
<1>1. hkInd \in Dirs /\ cur \in 1 .. made
  BY DEF ReadHk, Places, Stage, AtItem
<1>2. PICK n \in Sizes(hkInd) : Put(<<cur, 0>>, n)
  BY DEF ReadHk
<1>3. n \in Nat /\ <<cur, 0>> \in Packets
  BY <1>1, <1>2, LosAssumption DEF Sizes, TypeOK, ItemsType, Packets, Items, Stale
<1> QED
  BY <1>2, <1>3, PutDelivers DEF ReadHk, hkKeeps

\* Reading a header delivers it.
LEMMA ReadHeaderDelivers ==
    ASSUME TypeOK, Places, ReadHeader PROVE Delivered' = Delivered \cup {<<cur, 0>>}
<1>1. <<cur, 0>> \in Packets /\ HeaderSize \in Nat
  BY LosAssumption DEF ReadHeader, TypeOK, ItemsType, Packets, Items, Stale
<1> QED
  BY <1>1, PutDelivers DEF ReadHeader, eventKeeps

\* Sending a part delivers it.
LEMMA SendPartDelivers ==
    ASSUME TypeOK, Places, SendPart PROVE Delivered' = Delivered \cup {<<cur, part>>}
<1>1. <<cur, part>> \in Packets /\ PartSize \in Nat
  BY LosAssumption DEF SendPart, Places, Stage, AtItem, TypeOK, ItemsType, ControlType,
     Packets, Items, Stale
<1> QED
  BY <1>1, PutDelivers DEF SendPart, eventKeeps

-----------------------------------------------------------------------------
(* Types *)

\* Whoever makes a step, the items stay in their types.
LEMMA ItemsStep == TypeOK /\ Places /\ [Next]_vars => ItemsType'
<1> SUFFICES ASSUME TypeOK, Places, [Next]_vars PROVE ItemsType'
  OBVIOUS
<1>1. ASSUME NEW d \in Kinds, WriteForTelem(d) PROVE ItemsType'
  <2>1. made + 1 \in Items /\ made \in Nat
    BY <1>1, LosAssumption DEF WriteForTelem, TypeOK, ItemsType, Items
  <2>2. made' = made + 1 /\ 1 .. made \subseteq 1 .. made' /\ made + 1 \in 1 .. made'
    BY <1>1, <2>1 DEF WriteForTelem
  <2>3. kind' \in [Items -> Kinds] /\ made' \in 0 .. MaxItems
    BY <1>1, <2>1 DEF WriteForTelem, TypeOK, ItemsType, Items
  <2>4. file' \subseteq 1 .. made' /\ link' \subseteq 1 .. made'
    BY <1>1, <2>2 DEF WriteForTelem, TypeOK, ItemsType
  <2>5. list \in [Kinds -> SUBSET (1 .. made')]
    BY <2>2 DEF TypeOK, ItemsType
  <2>6. UNCHANGED <<told, losd, sipd, list, cur, scur, sipSent, contested>>
    BY <1>1 DEF WriteForTelem, lists, loop, sip, fate
  <2>7. told' \in 0 .. made' /\ cur' \in 0 .. made' /\ scur' \in 0 .. made'
    BY <2>1, <2>2, <2>6 DEF TypeOK, ItemsType
  <2> QED
    BY <2>2, <2>3, <2>4, <2>5, <2>6, <2>7 DEF TypeOK, ItemsType
<1>2. CASE LosdDies
  BY <1>2, ExitItems DEF LosdDies
<1>3. CASE SipDies
  BY <1>3 DEF TypeOK, ItemsType, Stage, AtItem, ramdisk, lists, loop, buffer, fate,
     SipDies
<1>4. CASE NextRound
  BY <1>4 DEF TypeOK, ItemsType, Stage, AtItem, ramdisk, buffer, sip, fate, mainKeeps,
     Fill, Round, NextRound
<1>5. CASE RefreshLinks
  <2>1. list' \in [Kinds -> SUBSET (1 .. made)]
    BY <1>5, LinkedType DEF RefreshLinks
  <2>2. cur' \in {0, cur} /\ UNCHANGED <<made, told>>
    BY <1>5 DEF RefreshLinks, Round, Fill, mainKeeps, ramdisk
  <2>3. UNCHANGED <<kind, file, link, losd, sipd, scur, sipSent, contested>>
    BY <1>5 DEF RefreshLinks, Round, mainKeeps, ramdisk, sip, fate
  <2> QED
    BY <2>1, <2>2, <2>3 DEF TypeOK, ItemsType
<1>6. CASE CheckLinks
  BY <1>6 DEF TypeOK, ItemsType, Stage, AtItem, Kinds, ramdisk, loop, buffer, sip, fate,
     mainKeeps, CheckLinks
<1>7. CASE CheckNoLinks
  BY <1>7 DEF TypeOK, ItemsType, Stage, AtItem, Event, ramdisk, lists, loop, buffer,
     sip, fate, mainKeeps, CheckNoLinks
<1>8. CASE TakeEvent
  <2>1. PICK i \in Items : GetLastLink(Event, i) /\ cur' \in {cur, i}
    BY <1>8 DEF TakeEvent
  <2>2. list' \in [Kinds -> SUBSET (1 .. made)] /\ cur' \in 0 .. made
    BY <2>1, Taken, DirsAreKinds DEF TypeOK, ItemsType
  <2>3. UNCHANGED <<made, told, kind, file, link, losd, sipd, scur, sipSent, contested>>
    BY <1>8 DEF TakeEvent, mainKeeps, ramdisk, sip, fate
  <2> QED
    BY <2>2, <2>3 DEF TypeOK, ItemsType
<1>9. CASE NoEvent
  BY <1>9 DEF TypeOK, ItemsType, Stage, AtItem, ramdisk, lists, buffer, sip, fate,
     mainKeeps, Fill, NoEvent
<1>10. CASE MakeRoomForRequests
  BY <1>10 DEF TypeOK, ItemsType, Stage, AtItem, buffer, sip, Write, hkKeeps,
     AboutToFlush, MakeRoomForRequests
<1>11. CASE FillFrom
  BY <1>11 DEF TypeOK, ItemsType, Stage, AtItem, Dirs, buffer, sip, hkKeeps, NumToLeave,
     AboutToFlush, HasRoom, FillFrom
<1>12. CASE Filled
  BY <1>12 DEF TypeOK, ItemsType, Stage, AtItem, Dirs, buffer, sip, Write, hkKeeps,
     AboutToFlush, Filled
<1>13. CASE TakeHk
  <2>1. PICK i \in Items : GetLastLink(hkInd, i) /\ cur' \in {cur, i}
    BY <1>13 DEF TakeHk
  <2>2. hkInd \in Kinds
    BY <1>13, DirsAreKinds DEF TakeHk, Places
  <2>3. i \in 1 .. made /\ list' \in [Kinds -> SUBSET (1 .. made)]
    BY <2>1, <2>2, Taken
  <2>4. cur' \in 0 .. made
    BY <2>1, <2>3 DEF TypeOK, ItemsType
  <2>5. UNCHANGED <<made, told, kind, file, link, losd, sipd, scur, sipSent, contested>>
    BY <1>13 DEF TakeHk, hkKeeps, sip
  <2> QED
    BY <2>3, <2>4, <2>5 DEF TypeOK, ItemsType
<1>14. CASE NoMoreHk
  BY <1>14 DEF TypeOK, ItemsType, Stage, AtItem, buffer, sip, hkKeeps, NoMoreHk
<1>15. CASE TouchHk
  BY <1>15 DEF TypeOK, ItemsType, Places, Stage, AtItem, buffer, sip, hkKeeps,
     TouchedToo, TouchHk
<1>16. CASE ReadHk
  BY <1>16 DEF TypeOK, ItemsType, Stage, AtItem, sip, Put, hkKeeps, Sizes, ReadHk
<1>17. CASE CannotReadHk
  BY <1>17 DEF TypeOK, ItemsType, Stage, AtItem, buffer, sip, hkKeeps, RemoveFiles,
     CannotReadHk
<1>18. CASE UnlinkHk
  <2>1. file' \subseteq file /\ losd' \subseteq losd /\ link' \subseteq link
    BY <1>18 DEF UnlinkHk, RemoveFiles
  <2>2. cur' = 0 /\ UNCHANGED <<made, told, kind, sipd, list, scur, sipSent, contested>>
    BY <1>18 DEF UnlinkHk, hkKeeps, sip
  <2> QED
    BY <2>1, <2>2 DEF TypeOK, ItemsType
<1>19. CASE CheckEvent
  BY <1>19 DEF TypeOK, ItemsType, Stage, AtItem, lists, buffer, sip, Fill, eventKeeps,
     CheckEvent
<1>20. CASE TouchEvent
  BY <1>20 DEF TypeOK, ItemsType, Places, Stage, AtItem, lists, buffer, sip, TouchedToo,
     eventKeeps, TouchEvent
<1>21. CASE UnlinkEvent
  BY <1>21 DEF TypeOK, ItemsType, Stage, AtItem, lists, buffer, sip, Write, Fits,
     eventKeeps, UnlinkEvent
<1>22. CASE ReadHeader
  BY <1>22 DEF TypeOK, ItemsType, Stage, AtItem, lists, sip, Put, eventKeeps, ReadHeader
<1>23. CASE CannotReadHeader
  BY <1>23 DEF TypeOK, ItemsType, Stage, AtItem, Stale, lists, sip, Put, Fill,
     RemoveFiles, eventKeeps, CannotReadHeader
<1>24. CASE ReadBody
  BY <1>24 DEF TypeOK, ItemsType, Stage, AtItem, lists, buffer, sip, eventKeeps,
     ReadBody
<1>25. CASE CannotReadBody
  BY <1>25 DEF TypeOK, ItemsType, Stage, AtItem, lists, buffer, sip, Fill, RemoveFiles,
     eventKeeps, CannotReadBody
<1>26. CASE MakeRoomForPart
  BY <1>26 DEF TypeOK, ItemsType, Stage, AtItem, lists, buffer, sip, Write, Fits,
     eventKeeps, MakeRoomForPart
<1>27. CASE SendPart
  BY <1>27 DEF TypeOK, ItemsType, Stage, AtItem, lists, sip, Fits, Put, eventKeeps,
     SendPart
<1>28. CASE EventSent
  <2>1. file' \subseteq file /\ losd' \subseteq losd
    BY <1>28 DEF EventSent, RemoveFiles
  <2>2. cur' = 0
    BY <1>28 DEF EventSent, Fill
  <2>3. UNCHANGED <<made, told, kind, link, sipd, list, scur, sipSent, contested>>
    BY <1>28 DEF EventSent, eventKeeps, lists, sip
  <2> QED
    BY <2>1, <2>2, <2>3 DEF TypeOK, ItemsType
<1>29. CASE PollFails
  BY <1>29 DEF TypeOK, ItemsType, Stage, AtItem, ramdisk, lists, loop, sip, writeKeeps,
     Emptied, PollFails
<1>30. CASE PollReady
  BY <1>30 DEF TypeOK, ItemsType, Stage, AtItem, ramdisk, lists, loop, buffer, sip,
     writeKeeps, PollReady
<1>31. CASE WriteReturns
  BY <1>31 DEF TypeOK, ItemsType, Stage, AtItem, ramdisk, lists, loop, sip, writeKeeps,
     Emptied, WriteReturns
<1>32. CASE WatchdogRaises
  BY <1>32, ExitItems DEF WatchdogRaises
<1>33. ASSUME NEW i \in Items, SipTake(i) PROVE ItemsType'
  BY <1>33 DEF TypeOK, ItemsType, Stage, AtItem, lists, loop, buffer, sipKeeps, SipTake
<1>34. CASE SipTouch
  BY <1>34 DEF TypeOK, ItemsType, Places, Stage, AtItem, Event, lists, loop, buffer,
     TouchedToo, sipKeeps, SipTouch
<1>35. CASE SipRecheck
  <2>1. sipd' \subseteq sipd /\ scur' \in {0, scur}
    BY <1>35 DEF SipRecheck
  <2>2. UNCHANGED <<made, told, kind, file, link, losd, list, cur, sipSent, contested>>
    BY <1>35 DEF SipRecheck, sipKeeps, lists, loop
  <2> QED
    BY <2>1, <2>2 DEF TypeOK, ItemsType
<1>36. CASE SipSend
  BY <1>36 DEF TypeOK, ItemsType, Stage, AtItem, lists, loop, buffer, sipKeeps, SipSend
<1>37. CASE SipRemove
  BY <1>37 DEF TypeOK, ItemsType, Stage, AtItem, Event, lists, loop, buffer, sipKeeps,
     SipRemove
<1>38. CASE UNCHANGED vars
  BY <1>38 DEF TypeOK, ItemsType, Stage, AtItem, ramdisk, lists, loop, buffer, sip,
     fate, vars
<1> QED
  BY <1>1, <1>2, <1>3, <1>4, <1>5, <1>6, <1>7, <1>8, <1>9, <1>10, <1>11, <1>12, <1>13,
     <1>14, <1>15, <1>16, <1>17, <1>18, <1>19, <1>20, <1>21, <1>22, <1>23, <1>24, <1>25,
     <1>26, <1>27, <1>28, <1>29, <1>30, <1>31, <1>32, <1>33, <1>34, <1>35, <1>36, <1>37,
     <1>38 DEF Next, World, Loop, Housekeeping, SendEvent, SipGoesOn, Losd

\* Whoever makes a step, LOSd's and SIPd's positions and counters stay in their
\* types.
LEMMA ControlStep == TypeOK /\ Places /\ [Next]_vars => ControlType'
<1> SUFFICES ASSUME TypeOK, Places, [Next]_vars PROVE ControlType'
  OBVIOUS
<1>1. ASSUME NEW d \in Kinds, WriteForTelem(d) PROVE ControlType'
  BY <1>1 DEF TypeOK, ControlType, lists, loop, buffer, sip, fate, WriteForTelem
<1>2. CASE LosdDies
  BY <1>2, LosAssumption DEF TypeOK, ControlType, Kinds, ramdisk, sip, Linked, Pending,
     Restarted, Exit, LosdDies
<1>3. CASE SipDies
  BY <1>3, LosAssumption DEF TypeOK, ControlType, ramdisk, lists, loop, buffer, fate,
     SipDies
<1>4. CASE NextRound
  BY <1>4, LosAssumption DEF TypeOK, ControlType, ramdisk, buffer, sip, fate, mainKeeps,
     Fill, Round, NextRound
<1>5. CASE RefreshLinks
  BY <1>5, LosAssumption DEF TypeOK, ControlType, Kinds, ramdisk, buffer, sip, fate,
     Linked, mainKeeps, Fill, Round, RefreshLinks
<1>6. CASE CheckLinks
  BY <1>6 DEF TypeOK, ControlType, Kinds, ramdisk, loop, buffer, sip, fate, mainKeeps,
     CheckLinks
<1>7. CASE CheckNoLinks
  BY <1>7 DEF TypeOK, ControlType, Event, ramdisk, lists, loop, buffer, sip, fate,
     mainKeeps, CheckNoLinks
<1>8. CASE TakeEvent
  BY <1>8 DEF TypeOK, ControlType, Dirs, Event, Items, ramdisk, buffer, sip, fate,
     mainKeeps, IsNewest, GetLastLink, TakeEvent
<1>9. CASE NoEvent
  BY <1>9, LosAssumption DEF TypeOK, ControlType, ramdisk, lists, buffer, sip, fate,
     mainKeeps, Fill, NoEvent
<1>10. CASE MakeRoomForRequests
  BY <1>10 DEF TypeOK, ControlType, buffer, sip, Write, hkKeeps, AboutToFlush,
     MakeRoomForRequests
<1>11. CASE FillFrom
  <2>1. hkInd \in Dirs /\ Cardinality(list[hkInd]) \in 0 .. MaxItems
    BY <1>11, ListSize, DirsAreKinds DEF FillFrom
  <2>2. hkInd' \in 1 .. NumDirs + 1 /\ left' \in 0 .. MaxItems /\ pc' \in {"hk", pc}
    BY <1>11, <2>1, LosAssumption DEF FillFrom, NumToLeave, Dirs, TypeOK, ControlType
  <2>3. UNCHANGED <<back, after, hkCount, part, spc, deaths>>
    BY <1>11 DEF FillFrom, hkKeeps, sip
  <2> QED
    BY <2>2, <2>3 DEF TypeOK, ControlType
<1>12. CASE Filled
  BY <1>12 DEF TypeOK, ControlType, Dirs, buffer, sip, Write, hkKeeps, AboutToFlush,
     Filled
<1>13. CASE TakeHk
  BY <1>13, LosAssumption DEF TypeOK, ControlType, Dirs, Items, buffer, sip, IsNewest,
     GetLastLink, hkKeeps, TakeHk
<1>14. CASE NoMoreHk
  <2>1. pc' = "fill" /\ hkInd' \in 1 .. NumDirs + 1
    BY <1>14, LosAssumption DEF NoMoreHk, Places, Dirs
  <2>2. UNCHANGED <<back, after, hkCount, left, part, spc, deaths>>
    BY <1>14 DEF NoMoreHk, hkKeeps, sip
  <2> QED
    BY <2>1, <2>2 DEF TypeOK, ControlType
<1>15. CASE TouchHk
  BY <1>15 DEF TypeOK, ControlType, buffer, sip, hkKeeps, TouchedToo, TouchHk
<1>16. CASE ReadHk
  BY <1>16 DEF TypeOK, ControlType, sip, Put, hkKeeps, Sizes, ReadHk
<1>17. CASE CannotReadHk
  BY <1>17 DEF TypeOK, ControlType, buffer, sip, hkKeeps, RemoveFiles, CannotReadHk
<1>18. CASE UnlinkHk
  <2>1. hkInd \in Dirs
    BY <1>18 DEF UnlinkHk, Places
  <2>2. pc' \in {"hk", "fill"} /\ hkInd' \in {hkInd, hkInd + 1} /\ left' \in {left, 0}
    BY <1>18 DEF UnlinkHk
  <2>3. hkInd' \in 1 .. NumDirs + 1 /\ left' \in 0 .. MaxItems
    BY <2>1, <2>2, LosAssumption DEF Dirs, TypeOK, ControlType
  <2>4. UNCHANGED <<back, after, hkCount, part, spc, deaths>>
    BY <1>18 DEF UnlinkHk, hkKeeps, sip
  <2> QED
    BY <2>2, <2>3, <2>4 DEF TypeOK, ControlType
<1>19. CASE CheckEvent
  BY <1>19, LosAssumption DEF TypeOK, ControlType, lists, buffer, sip, Fill, eventKeeps,
     CheckEvent
<1>20. CASE TouchEvent
  BY <1>20 DEF TypeOK, ControlType, lists, buffer, sip, TouchedToo, eventKeeps,
     TouchEvent
<1>21. CASE UnlinkEvent
  BY <1>21 DEF TypeOK, ControlType, lists, buffer, sip, Write, Fits, eventKeeps,
     UnlinkEvent
<1>22. CASE ReadHeader
  BY <1>22 DEF TypeOK, ControlType, lists, sip, Put, eventKeeps, ReadHeader
<1>23. CASE CannotReadHeader
  BY <1>23, LosAssumption DEF TypeOK, ControlType, Stale, lists, sip, Put, Fill,
     RemoveFiles, eventKeeps, CannotReadHeader
<1>24. CASE ReadBody
  BY <1>24 DEF TypeOK, ControlType, lists, buffer, sip, eventKeeps, ReadBody
<1>25. CASE CannotReadBody
  BY <1>25, LosAssumption DEF TypeOK, ControlType, lists, buffer, sip, Fill,
     RemoveFiles, eventKeeps, CannotReadBody
<1>26. CASE MakeRoomForPart
  BY <1>26 DEF TypeOK, ControlType, lists, buffer, sip, Write, Fits, eventKeeps,
     MakeRoomForPart
<1>27. CASE SendPart
  BY <1>27, LosAssumption DEF TypeOK, ControlType, lists, sip, Fits, Put, eventKeeps,
     SendPart
<1>28. CASE EventSent
  BY <1>28, LosAssumption DEF TypeOK, ControlType, lists, buffer, sip, Fill,
     RemoveFiles, eventKeeps, EventSent
<1>29. CASE PollFails
  BY <1>29 DEF TypeOK, ControlType, ramdisk, lists, loop, sip, writeKeeps, Emptied,
     PollFails
<1>30. CASE PollReady
  BY <1>30 DEF TypeOK, ControlType, ramdisk, lists, loop, buffer, sip, writeKeeps,
     PollReady
<1>31. CASE WriteReturns
  BY <1>31 DEF TypeOK, ControlType, ramdisk, lists, loop, sip, writeKeeps, Emptied,
     WriteReturns
<1>32. CASE WatchdogRaises
  BY <1>32, LosAssumption DEF Places, Kinds, ramdisk, sip, Linked, Pending, Restarted,
     Exit, WatchdogRaises
<1>33. ASSUME NEW i \in Items, SipTake(i) PROVE ControlType'
  BY <1>33 DEF TypeOK, ControlType, lists, loop, buffer, sipKeeps, SipTake
<1>34. CASE SipTouch
  BY <1>34 DEF TypeOK, ControlType, Event, lists, loop, buffer, TouchedToo, sipKeeps,
     SipTouch
<1>35. CASE SipRecheck
  BY <1>35 DEF TypeOK, ControlType, lists, loop, buffer, sipKeeps, SipRecheck
<1>36. CASE SipSend
  BY <1>36 DEF TypeOK, ControlType, lists, loop, buffer, sipKeeps, SipSend
<1>37. CASE SipRemove
  BY <1>37 DEF TypeOK, ControlType, Event, lists, loop, buffer, sipKeeps, SipRemove
<1>38. CASE UNCHANGED vars
  BY <1>38 DEF TypeOK, ControlType, ramdisk, lists, loop, buffer, sip, fate, vars
<1> QED
  BY <1>1, <1>2, <1>3, <1>4, <1>5, <1>6, <1>7, <1>8, <1>9, <1>10, <1>11, <1>12, <1>13,
     <1>14, <1>15, <1>16, <1>17, <1>18, <1>19, <1>20, <1>21, <1>22, <1>23, <1>24, <1>25,
     <1>26, <1>27, <1>28, <1>29, <1>30, <1>31, <1>32, <1>33, <1>34, <1>35, <1>36, <1>37,
     <1>38 DEF Next, World, Loop, Housekeeping, SendEvent, SipGoesOn, Losd

\* Whoever makes a step, the buffer is not filled beyond its capacity.
LEMMA BufferStep == TypeOK /\ Places /\ Room /\ [Next]_vars => BufferType'
<1> SUFFICES ASSUME TypeOK, Places, Room, [Next]_vars PROVE BufferType'
  OBVIOUS
<1>1. ASSUME NEW d \in Kinds, WriteForTelem(d) PROVE BufferType'
  BY <1>1 DEF TypeOK, BufferType, Places, Room, Fits, Packets, Stale, Items, Stage,
     AtItem, lists, loop, buffer, sip, fate, WriteForTelem
<1>2. CASE LosdDies
  BY <1>2, ExitBuffer DEF LosdDies
<1>3. CASE SipDies
  BY <1>3 DEF TypeOK, BufferType, Places, Room, Fits, Packets, Stale, Items, Stage,
     AtItem, ramdisk, lists, loop, buffer, fate, SipDies
<1>4. CASE NextRound
  BY <1>4 DEF TypeOK, BufferType, Places, Room, Fits, Packets, Stale, Items, Stage,
     AtItem, ramdisk, buffer, sip, fate, mainKeeps, Fill, Round, NextRound
<1>5. CASE RefreshLinks
  BY <1>5 DEF TypeOK, BufferType, Places, Room, Fits, Packets, Stale, Items, Stage,
     AtItem, Kinds, ramdisk, buffer, sip, fate, Linked, mainKeeps, Fill, Round,
     RefreshLinks
<1>6. CASE CheckLinks
  BY <1>6 DEF TypeOK, BufferType, Places, Room, Fits, Packets, Stale, Items, Stage,
     AtItem, Kinds, ramdisk, loop, buffer, sip, fate, mainKeeps, CheckLinks
<1>7. CASE CheckNoLinks
  BY <1>7 DEF TypeOK, BufferType, Places, Room, Fits, Packets, Stale, Items, Stage,
     AtItem, Event, ramdisk, lists, loop, buffer, sip, fate, mainKeeps, CheckNoLinks
<1>8. CASE TakeEvent
  BY <1>8 DEF TypeOK, BufferType, Places, Room, Fits, Packets, Stale, Items, Stage,
     AtItem, Dirs, Event, ramdisk, buffer, sip, fate, mainKeeps, IsNewest, GetLastLink,
     TakeEvent
<1>9. CASE NoEvent
  BY <1>9 DEF TypeOK, BufferType, Places, Room, Fits, Packets, Stale, Items, Stage,
     AtItem, ramdisk, lists, buffer, sip, fate, mainKeeps, Fill, NoEvent
<1>10. CASE MakeRoomForRequests
  BY <1>10 DEF TypeOK, BufferType, Places, Room, Fits, Packets, Stale, Items, Stage,
     AtItem, buffer, sip, Write, hkKeeps, AboutToFlush, MakeRoomForRequests
<1>11. CASE FillFrom
  BY <1>11 DEF TypeOK, BufferType, Places, Room, Fits, Packets, Stale, Items, Stage,
     AtItem, Dirs, buffer, sip, hkKeeps, NumToLeave, AboutToFlush, HasRoom, FillFrom
<1>12. CASE Filled
  BY <1>12 DEF TypeOK, BufferType, Places, Room, Fits, Packets, Stale, Items, Stage,
     AtItem, Dirs, buffer, sip, Write, hkKeeps, AboutToFlush, Filled
<1>13. CASE TakeHk
  BY <1>13 DEF TypeOK, BufferType, Places, Room, Fits, Packets, Stale, Items, Stage,
     AtItem, Dirs, buffer, sip, IsNewest, GetLastLink, hkKeeps, TakeHk
<1>14. CASE NoMoreHk
  BY <1>14 DEF TypeOK, BufferType, Places, Room, Fits, Packets, Stale, Items, Stage,
     AtItem, buffer, sip, hkKeeps, NoMoreHk
<1>15. CASE TouchHk
  BY <1>15 DEF TypeOK, BufferType, Places, Room, Fits, Packets, Stale, Items, Stage,
     AtItem, buffer, sip, hkKeeps, TouchedToo, TouchHk
<1>16. CASE ReadHk
  <2>1. hkInd \in Dirs /\ Fits(MaxSize[hkInd]) /\ cur \in 1 .. made
    BY <1>16 DEF ReadHk, Places, Room, Stage, AtItem
  <2>2. PICK n \in Sizes(hkInd) : Put(<<cur, 0>>, n)
    BY <1>16 DEF ReadHk
  <2>3. n \in Nat /\ n <= MaxSize[hkInd] /\ MaxSize[hkInd] \in Nat
    BY <2>1, <2>2, LosAssumption DEF Sizes
  <2>4. <<cur, 0>> \in Packets
    BY <2>1, LosAssumption DEF TypeOK, ItemsType, Packets, Items, Stale
  <2>5. numBytesInBuffer' \in 0 .. Capacity /\ buf' \in Seq(Packets)
    BY <2>1, <2>2, <2>3, <2>4, LosAssumption DEF Put, Fits, TypeOK, BufferType
  <2>6. UNCHANGED <<wire, lost>>
    BY <1>16 DEF ReadHk, hkKeeps
  <2> QED
    BY <2>5, <2>6 DEF TypeOK, BufferType
<1>17. CASE CannotReadHk
  BY <1>17 DEF TypeOK, BufferType, Places, Room, Fits, Packets, Stale, Items, Stage,
     AtItem, buffer, sip, hkKeeps, RemoveFiles, CannotReadHk
<1>18. CASE UnlinkHk
  BY <1>18 DEF TypeOK, BufferType, Places, Room, Fits, Packets, Stale, Items, Stage,
     AtItem, buffer, sip, hkKeeps, RemoveFiles, UnlinkHk
<1>19. CASE CheckEvent
  BY <1>19 DEF TypeOK, BufferType, Places, Room, Fits, Packets, Stale, Items, Stage,
     AtItem, lists, buffer, sip, Fill, eventKeeps, CheckEvent
<1>20. CASE TouchEvent
  BY <1>20 DEF TypeOK, BufferType, Places, Room, Fits, Packets, Stale, Items, Stage,
     AtItem, lists, buffer, sip, TouchedToo, eventKeeps, TouchEvent
<1>21. CASE UnlinkEvent
  BY <1>21 DEF TypeOK, BufferType, Places, Room, Fits, Packets, Stale, Items, Stage,
     AtItem, lists, buffer, sip, Write, eventKeeps, UnlinkEvent
<1>22. CASE ReadHeader
  <2>1. Put(<<cur, 0>>, HeaderSize) /\ UNCHANGED <<wire, lost>>
    BY <1>22 DEF ReadHeader, eventKeeps
  <2>2. cur \in 1 .. made /\ Fits(HeaderSize)
    BY <1>22 DEF ReadHeader, Places, Room, Stage, AtItem
  <2>3. <<cur, 0>> \in Packets
    BY <2>2, LosAssumption DEF TypeOK, ItemsType, Packets, Items, Stale
  <2>4. numBytesInBuffer' \in 0 .. Capacity /\ buf' \in Seq(Packets)
    BY <2>1, <2>2, <2>3, LosAssumption DEF Put, Fits, TypeOK, BufferType
  <2> QED
    BY <2>1, <2>4 DEF TypeOK, BufferType
<1>23. CASE CannotReadHeader
  <2>1. Put(<<cur, Stale>>, HeaderSize) /\ UNCHANGED <<wire, lost>>
    BY <1>23 DEF CannotReadHeader, eventKeeps
  <2>2. cur \in 1 .. made /\ Fits(HeaderSize)
    BY <1>23 DEF CannotReadHeader, Places, Room, Stage, AtItem
  <2>3. <<cur, Stale>> \in Packets
    BY <2>2, LosAssumption DEF TypeOK, ItemsType, Packets, Items, Stale
  <2>4. numBytesInBuffer' \in 0 .. Capacity /\ buf' \in Seq(Packets)
    BY <2>1, <2>2, <2>3, LosAssumption DEF Put, Fits, TypeOK, BufferType
  <2> QED
    BY <2>1, <2>4 DEF TypeOK, BufferType
<1>24. CASE ReadBody
  BY <1>24 DEF TypeOK, BufferType, Places, Room, Fits, Packets, Stale, Items, Stage,
     AtItem, lists, buffer, sip, eventKeeps, ReadBody
<1>25. CASE CannotReadBody
  BY <1>25 DEF TypeOK, BufferType, Places, Room, Fits, Packets, Stale, Items, Stage,
     AtItem, lists, buffer, sip, Fill, RemoveFiles, eventKeeps, CannotReadBody
<1>26. CASE MakeRoomForPart
  BY <1>26 DEF TypeOK, BufferType, Places, Room, Fits, Packets, Stale, Items, Stage,
     AtItem, lists, buffer, sip, Write, eventKeeps, MakeRoomForPart
<1>27. CASE SendPart
  BY <1>27, LosAssumption DEF TypeOK, ItemsType, ControlType, BufferType, Places, Room,
     Fits, Packets, Stale, Items, Stage, AtItem, lists, sip, Put, eventKeeps, SendPart
<1>28. CASE EventSent
  BY <1>28 DEF TypeOK, BufferType, Places, Room, Fits, Packets, Stale, Items, Stage,
     AtItem, lists, buffer, sip, Fill, RemoveFiles, eventKeeps, EventSent
<1>29. CASE PollFails
  BY <1>29, LosAssumption DEF TypeOK, BufferType, Places, Room, Fits, Packets, Stale,
     Items, Stage, AtItem, ramdisk, lists, loop, sip, writeKeeps, Emptied, PollFails
<1>30. CASE PollReady
  BY <1>30 DEF TypeOK, BufferType, Places, Room, Fits, Packets, Stale, Items, Stage,
     AtItem, ramdisk, lists, loop, buffer, sip, writeKeeps, PollReady
<1>31. CASE WriteReturns
  BY <1>31, LosAssumption DEF TypeOK, BufferType, Places, Room, Fits, Packets, Stale,
     Items, Stage, AtItem, ramdisk, lists, loop, sip, writeKeeps, Emptied, WriteReturns
<1>32. CASE WatchdogRaises
  BY <1>32, ExitBuffer DEF WatchdogRaises
<1>33. ASSUME NEW i \in Items, SipTake(i) PROVE BufferType'
  BY <1>33 DEF TypeOK, BufferType, Places, Room, Fits, Packets, Stale, Items, Stage,
     AtItem, lists, loop, buffer, sipKeeps, SipTake
<1>34. CASE SipTouch
  BY <1>34 DEF TypeOK, BufferType, Places, Room, Fits, Packets, Stale, Items, Stage,
     AtItem, Event, lists, loop, buffer, TouchedToo, sipKeeps, SipTouch
<1>35. CASE SipRecheck
  BY <1>35 DEF TypeOK, BufferType, Places, Room, Fits, Packets, Stale, Items, Stage,
     AtItem, lists, loop, buffer, sipKeeps, SipRecheck
<1>36. CASE SipSend
  BY <1>36 DEF TypeOK, BufferType, Places, Room, Fits, Packets, Stale, Items, Stage,
     AtItem, lists, loop, buffer, sipKeeps, SipSend
<1>37. CASE SipRemove
  BY <1>37 DEF TypeOK, BufferType, Places, Room, Fits, Packets, Stale, Items, Stage,
     AtItem, Event, lists, loop, buffer, sipKeeps, SipRemove
<1>38. CASE UNCHANGED vars
  BY <1>38 DEF TypeOK, BufferType, Places, Room, Fits, Packets, Stale, Items, Stage,
     AtItem, ramdisk, lists, loop, buffer, sip, fate, vars
<1> QED
  BY <1>1, <1>2, <1>3, <1>4, <1>5, <1>6, <1>7, <1>8, <1>9, <1>10, <1>11, <1>12, <1>13,
     <1>14, <1>15, <1>16, <1>17, <1>18, <1>19, <1>20, <1>21, <1>22, <1>23, <1>24, <1>25,
     <1>26, <1>27, <1>28, <1>29, <1>30, <1>31, <1>32, <1>33, <1>34, <1>35, <1>36, <1>37,
     <1>38 DEF Next, World, Loop, Housekeeping, SendEvent, SipGoesOn, Losd

-----------------------------------------------------------------------------
(* Positions, lists and room *)

\* Whoever makes a step, the current item and directory stay defined.
LEMMA PlacesStep == TypeOK /\ Places /\ [Next]_vars => Places'
<1> SUFFICES ASSUME TypeOK, Places, [Next]_vars PROVE Places'
  OBVIOUS
<1>1. ASSUME NEW d \in Kinds, WriteForTelem(d) PROVE Places'
  BY <1>1 DEF TypeOK, ItemsType, Places, Stage, AtItem, lists, loop, buffer, sip, fate,
     WriteForTelem
<1>2. CASE LosdDies
  BY <1>2 DEF Places, Stage, AtItem, Kinds, ramdisk, sip, Linked, Pending, Restarted,
     Exit, LosdDies
<1>3. CASE SipDies
  BY <1>3 DEF Places, Stage, AtItem, ramdisk, lists, loop, buffer, fate, SipDies
<1>4. CASE NextRound
  BY <1>4 DEF Places, Stage, AtItem, ramdisk, buffer, sip, fate, mainKeeps, Fill, Round,
     NextRound
<1>5. CASE RefreshLinks
  BY <1>5 DEF Places, Stage, AtItem, Kinds, ramdisk, buffer, sip, fate, Linked,
     mainKeeps, Fill, Round, RefreshLinks
<1>6. CASE CheckLinks
  BY <1>6 DEF Places, Stage, AtItem, Kinds, ramdisk, loop, buffer, sip, fate, mainKeeps,
     CheckLinks
<1>7. CASE CheckNoLinks
  BY <1>7 DEF Places, Stage, AtItem, Event, ramdisk, lists, loop, buffer, sip, fate,
     mainKeeps, CheckNoLinks
<1>8. CASE TakeEvent
  <2>1. PICK i \in Items : GetLastLink(Event, i) /\ cur' = i
    BY <1>8 DEF TakeEvent
  <2>2. cur' \in 1 .. made /\ made' = made
    BY <1>8, <2>1, Taken, DirsAreKinds DEF TakeEvent, mainKeeps, ramdisk
  <2>3. pc' = "evCheck" /\ UNCHANGED <<spc, scur>>
    BY <1>8 DEF TakeEvent, mainKeeps, sip
  <2> QED
    BY <2>2, <2>3 DEF Places
<1>9. CASE NoEvent
  BY <1>9 DEF Places, Stage, AtItem, ramdisk, lists, buffer, sip, fate, mainKeeps, Fill,
     NoEvent
<1>10. CASE MakeRoomForRequests
  BY <1>10 DEF Places, Stage, AtItem, buffer, sip, Write, hkKeeps, AboutToFlush,
     MakeRoomForRequests
<1>11. CASE FillFrom
  BY <1>11 DEF Places, Stage, AtItem, Dirs, buffer, sip, hkKeeps, NumToLeave,
     AboutToFlush, HasRoom, FillFrom
<1>12. CASE Filled
  BY <1>12 DEF TypeOK, ControlType, Places, Stage, AtItem, Dirs, buffer, sip, Write,
     hkKeeps, AboutToFlush, Filled
<1>13. CASE TakeHk
  BY <1>13 DEF TypeOK, ItemsType, Places, Stage, AtItem, Dirs, Items, buffer, sip,
     IsNewest, GetLastLink, hkKeeps, TakeHk
<1>14. CASE NoMoreHk
  BY <1>14 DEF Places, Stage, AtItem, buffer, sip, hkKeeps, NoMoreHk
<1>15. CASE TouchHk
  BY <1>15 DEF Places, Stage, AtItem, buffer, sip, hkKeeps, TouchedToo, TouchHk
<1>16. CASE ReadHk
  BY <1>16 DEF Places, Stage, AtItem, sip, Put, hkKeeps, Sizes, ReadHk
<1>17. CASE CannotReadHk
  BY <1>17 DEF Places, Stage, AtItem, buffer, sip, hkKeeps, RemoveFiles, CannotReadHk
<1>18. CASE UnlinkHk
  BY <1>18 DEF Places, Stage, AtItem, buffer, sip, Fits, hkKeeps, RemoveFiles, UnlinkHk
<1>19. CASE CheckEvent
  BY <1>19 DEF Places, Stage, AtItem, lists, buffer, sip, Fill, eventKeeps, CheckEvent
<1>20. CASE TouchEvent
  BY <1>20 DEF Places, Stage, AtItem, lists, buffer, sip, TouchedToo, eventKeeps,
     TouchEvent
<1>21. CASE UnlinkEvent
  BY <1>21 DEF Places, Stage, AtItem, lists, buffer, sip, Write, Fits, eventKeeps,
     UnlinkEvent
<1>22. CASE ReadHeader
  BY <1>22 DEF Places, Stage, AtItem, lists, sip, Put, eventKeeps, ReadHeader
<1>23. CASE CannotReadHeader
  BY <1>23 DEF Places, Stage, AtItem, Stale, lists, sip, Put, Fill, RemoveFiles,
     eventKeeps, CannotReadHeader
<1>24. CASE ReadBody
  BY <1>24 DEF Places, Stage, AtItem, lists, buffer, sip, eventKeeps, ReadBody
<1>25. CASE CannotReadBody
  BY <1>25 DEF Places, Stage, AtItem, lists, buffer, sip, Fill, RemoveFiles, eventKeeps,
     CannotReadBody
<1>26. CASE MakeRoomForPart
  BY <1>26 DEF Places, Stage, AtItem, lists, buffer, sip, Write, Fits, eventKeeps,
     MakeRoomForPart
<1>27. CASE SendPart
  BY <1>27 DEF Places, Stage, AtItem, lists, sip, Fits, Put, eventKeeps, SendPart
<1>28. CASE EventSent
  BY <1>28 DEF Places, Stage, AtItem, lists, buffer, sip, Fill, RemoveFiles, eventKeeps,
     EventSent
<1>29. CASE PollFails
  BY <1>29 DEF TypeOK, ControlType, Places, Stage, AtItem, ramdisk, lists, loop, sip,
     writeKeeps, Emptied, PollFails
<1>30. CASE PollReady
  BY <1>30 DEF Places, Stage, AtItem, ramdisk, lists, loop, buffer, sip, writeKeeps,
     PollReady
<1>31. CASE WriteReturns
  BY <1>31 DEF TypeOK, ControlType, Places, Stage, AtItem, ramdisk, lists, loop, sip,
     writeKeeps, Emptied, WriteReturns
<1>32. CASE WatchdogRaises
  BY <1>32 DEF Places, Stage, AtItem, Kinds, ramdisk, sip, Linked, Pending, Restarted,
     Exit, WatchdogRaises
<1>33. ASSUME NEW i \in Items, SipTake(i) PROVE Places'
  BY <1>33 DEF TypeOK, ItemsType, Places, Stage, AtItem, lists, loop, buffer, sipKeeps,
     SipTake
<1>34. CASE SipTouch
  BY <1>34 DEF Places, Stage, AtItem, Event, lists, loop, buffer, TouchedToo, sipKeeps,
     SipTouch
<1>35. CASE SipRecheck
  BY <1>35 DEF Places, Stage, AtItem, lists, loop, buffer, sipKeeps, SipRecheck
<1>36. CASE SipSend
  BY <1>36 DEF Places, Stage, AtItem, lists, loop, buffer, sipKeeps, SipSend
<1>37. CASE SipRemove
  BY <1>37 DEF Places, Stage, AtItem, Event, lists, loop, buffer, sipKeeps, SipRemove
<1>38. CASE UNCHANGED vars
  BY <1>38 DEF Places, Stage, AtItem, ramdisk, lists, loop, buffer, sip, fate, vars
<1> QED
  BY <1>1, <1>2, <1>3, <1>4, <1>5, <1>6, <1>7, <1>8, <1>9, <1>10, <1>11, <1>12, <1>13,
     <1>14, <1>15, <1>16, <1>17, <1>18, <1>19, <1>20, <1>21, <1>22, <1>23, <1>24, <1>25,
     <1>26, <1>27, <1>28, <1>29, <1>30, <1>31, <1>32, <1>33, <1>34, <1>35, <1>36, <1>37,
     <1>38 DEF Next, World, Loop, Housekeeping, SendEvent, SipGoesOn, Losd

\* Whoever makes a step, lists hold links of their own directory.
LEMMA SortedStep == TypeOK /\ Places /\ Sorted /\ [Next]_vars => Sorted'
<1> SUFFICES ASSUME TypeOK, Places, Sorted, [Next]_vars PROVE Sorted'
  OBVIOUS
<1>1. ASSUME NEW d \in Kinds, WriteForTelem(d) PROVE Sorted'
  BY <1>1 DEF TypeOK, ItemsType, Sorted, Places, Stage, AtItem, lists, loop, buffer,
     sip, fate, WriteForTelem
<1>2. CASE LosdDies
  BY <1>2 DEF Sorted, Places, Stage, AtItem, Kinds, ramdisk, sip, Linked, Pending,
     Restarted, Exit, LosdDies
<1>3. CASE SipDies
  BY <1>3 DEF Sorted, Places, Stage, AtItem, ramdisk, lists, loop, buffer, fate, SipDies
<1>4. CASE NextRound
  BY <1>4 DEF Sorted, Places, Stage, AtItem, ramdisk, buffer, sip, fate, mainKeeps,
     Fill, Round, NextRound
<1>5. CASE RefreshLinks
  BY <1>5 DEF Sorted, Places, Stage, AtItem, Kinds, ramdisk, buffer, sip, fate, Linked,
     mainKeeps, Fill, Round, RefreshLinks
<1>6. CASE CheckLinks
  BY <1>6 DEF Sorted, Places, Stage, AtItem, Kinds, ramdisk, loop, buffer, sip, fate,
     mainKeeps, CheckLinks
<1>7. CASE CheckNoLinks
  BY <1>7 DEF Sorted, Places, Stage, AtItem, Event, ramdisk, lists, loop, buffer, sip,
     fate, mainKeeps, CheckNoLinks
<1>8. CASE TakeEvent
  BY <1>8 DEF Sorted, Places, Stage, AtItem, Dirs, Event, Items, ramdisk, buffer, sip,
     fate, mainKeeps, IsNewest, GetLastLink, TakeEvent
<1>9. CASE NoEvent
  BY <1>9 DEF Sorted, Places, Stage, AtItem, ramdisk, lists, buffer, sip, fate,
     mainKeeps, Fill, NoEvent
<1>10. CASE MakeRoomForRequests
  BY <1>10 DEF Sorted, Places, Stage, AtItem, buffer, sip, Write, hkKeeps, AboutToFlush,
     MakeRoomForRequests
<1>11. CASE FillFrom
  BY <1>11 DEF Sorted, Places, Stage, AtItem, Dirs, buffer, sip, hkKeeps, NumToLeave,
     AboutToFlush, HasRoom, FillFrom
<1>12. CASE Filled
  BY <1>12 DEF TypeOK, ControlType, Sorted, Places, Stage, AtItem, Dirs, buffer, sip,
     Write, hkKeeps, AboutToFlush, Filled
<1>13. CASE TakeHk
  <2>1. PICK i \in Items : /\ GetLastLink(hkInd, i)
                           /\ (pc' = "hkTouch" /\ cur' = i) \/ pc' = "hk"
    BY <1>13 DEF TakeHk
  <2>2. hkInd \in Kinds
    BY <1>13, DirsAreKinds DEF TakeHk, Places
  <2>3. i \in list[hkInd]
    BY <2>1 DEF GetLastLink, IsNewest
  <2>8. \A k \in Kinds : list'[k] \subseteq list[k]
    BY <2>1, <2>2, Taken
  <2>4. UNCHANGED <<kind, hkInd>>
    BY <1>13 DEF TakeHk, hkKeeps
  <2>5. \A d \in Kinds : \A j \in list'[d] : kind'[j] = d
    BY <2>8, <2>4 DEF Sorted
  <2>6. kind[i] = hkInd
    BY <2>2, <2>3 DEF Sorted
  <2>7. pc' \in {"hkTouch", "hkRead", "hkUnlink"} => kind'[cur'] = hkInd'
    BY <2>1, <2>4, <2>6
  <2> QED
    BY <2>5, <2>7 DEF Sorted
<1>14. CASE NoMoreHk
  BY <1>14 DEF Sorted, Places, Stage, AtItem, buffer, sip, hkKeeps, NoMoreHk
<1>15. CASE TouchHk
  BY <1>15 DEF Sorted, Places, Stage, AtItem, buffer, sip, hkKeeps, TouchedToo, TouchHk
<1>16. CASE ReadHk
  BY <1>16 DEF Sorted, Places, Stage, AtItem, sip, Put, hkKeeps, Sizes, ReadHk
<1>17. CASE CannotReadHk
  BY <1>17 DEF Sorted, Places, Stage, AtItem, buffer, sip, hkKeeps, RemoveFiles,
     CannotReadHk
<1>18. CASE UnlinkHk
  BY <1>18 DEF Sorted, Places, Stage, AtItem, buffer, sip, Fits, hkKeeps, RemoveFiles,
     UnlinkHk
<1>19. CASE CheckEvent
  BY <1>19 DEF Sorted, Places, Stage, AtItem, lists, buffer, sip, Fill, eventKeeps,
     CheckEvent
<1>20. CASE TouchEvent
  BY <1>20 DEF Sorted, Places, Stage, AtItem, lists, buffer, sip, TouchedToo,
     eventKeeps, TouchEvent
<1>21. CASE UnlinkEvent
  BY <1>21 DEF Sorted, Places, Stage, AtItem, lists, buffer, sip, Write, Fits,
     eventKeeps, UnlinkEvent
<1>22. CASE ReadHeader
  BY <1>22 DEF Sorted, Places, Stage, AtItem, lists, sip, Put, eventKeeps, ReadHeader
<1>23. CASE CannotReadHeader
  BY <1>23 DEF Sorted, Places, Stage, AtItem, Stale, lists, sip, Put, Fill, RemoveFiles,
     eventKeeps, CannotReadHeader
<1>24. CASE ReadBody
  BY <1>24 DEF Sorted, Places, Stage, AtItem, lists, buffer, sip, eventKeeps, ReadBody
<1>25. CASE CannotReadBody
  BY <1>25 DEF Sorted, Places, Stage, AtItem, lists, buffer, sip, Fill, RemoveFiles,
     eventKeeps, CannotReadBody
<1>26. CASE MakeRoomForPart
  BY <1>26 DEF Sorted, Places, Stage, AtItem, lists, buffer, sip, Write, Fits,
     eventKeeps, MakeRoomForPart
<1>27. CASE SendPart
  BY <1>27 DEF Sorted, Places, Stage, AtItem, lists, sip, Fits, Put, eventKeeps,
     SendPart
<1>28. CASE EventSent
  BY <1>28 DEF Sorted, Places, Stage, AtItem, lists, buffer, sip, Fill, RemoveFiles,
     eventKeeps, EventSent
<1>29. CASE PollFails
  BY <1>29 DEF TypeOK, ControlType, Sorted, Places, Stage, AtItem, ramdisk, lists, loop,
     sip, writeKeeps, Emptied, PollFails
<1>30. CASE PollReady
  BY <1>30 DEF Sorted, Places, Stage, AtItem, ramdisk, lists, loop, buffer, sip,
     writeKeeps, PollReady
<1>31. CASE WriteReturns
  BY <1>31 DEF TypeOK, ControlType, Sorted, Places, Stage, AtItem, ramdisk, lists, loop,
     sip, writeKeeps, Emptied, WriteReturns
<1>32. CASE WatchdogRaises
  BY <1>32 DEF Sorted, Places, Stage, AtItem, Kinds, ramdisk, sip, Linked, Pending,
     Restarted, Exit, WatchdogRaises
<1>33. ASSUME NEW i \in Items, SipTake(i) PROVE Sorted'
  BY <1>33 DEF Sorted, Places, Stage, AtItem, lists, loop, buffer, sipKeeps, SipTake
<1>34. CASE SipTouch
  BY <1>34 DEF Sorted, Places, Stage, AtItem, Event, lists, loop, buffer, TouchedToo,
     sipKeeps, SipTouch
<1>35. CASE SipRecheck
  BY <1>35 DEF Sorted, Places, Stage, AtItem, lists, loop, buffer, sipKeeps, SipRecheck
<1>36. CASE SipSend
  BY <1>36 DEF Sorted, Places, Stage, AtItem, lists, loop, buffer, sipKeeps, SipSend
<1>37. CASE SipRemove
  BY <1>37 DEF Sorted, Places, Stage, AtItem, Event, lists, loop, buffer, sipKeeps,
     SipRemove
<1>38. CASE UNCHANGED vars
  BY <1>38 DEF Sorted, Places, Stage, AtItem, ramdisk, lists, loop, buffer, sip, fate,
     vars
<1> QED
  BY <1>1, <1>2, <1>3, <1>4, <1>5, <1>6, <1>7, <1>8, <1>9, <1>10, <1>11, <1>12, <1>13,
     <1>14, <1>15, <1>16, <1>17, <1>18, <1>19, <1>20, <1>21, <1>22, <1>23, <1>24, <1>25,
     <1>26, <1>27, <1>28, <1>29, <1>30, <1>31, <1>32, <1>33, <1>34, <1>35, <1>36, <1>37,
     <1>38 DEF Next, World, Loop, Housekeeping, SendEvent, SipGoesOn, Losd

\* Whoever makes a step, there is room where a packet is about to be put.
LEMMA RoomStep == TypeOK /\ Places /\ Room /\ [Next]_vars => Room'
<1> SUFFICES ASSUME TypeOK, Places, Room, [Next]_vars PROVE Room'
  OBVIOUS
<1>1. ASSUME NEW d \in Kinds, WriteForTelem(d) PROVE Room'
  BY <1>1 DEF Places, Room, Fits, Stage, AtItem, lists, loop, buffer, sip, fate,
     WriteForTelem
<1>2. CASE LosdDies
  BY <1>2 DEF Places, Room, Fits, Stage, AtItem, Kinds, ramdisk, sip, Linked, Pending,
     Restarted, Exit, LosdDies
<1>3. CASE SipDies
  BY <1>3 DEF Places, Room, Fits, Stage, AtItem, ramdisk, lists, loop, buffer, fate,
     SipDies
<1>4. CASE NextRound
  BY <1>4 DEF Places, Room, Fits, Stage, AtItem, ramdisk, buffer, sip, fate, mainKeeps,
     Fill, Round, NextRound
<1>5. CASE RefreshLinks
  BY <1>5 DEF Places, Room, Fits, Stage, AtItem, Kinds, ramdisk, buffer, sip, fate,
     Linked, mainKeeps, Fill, Round, RefreshLinks
<1>6. CASE CheckLinks
  BY <1>6 DEF Places, Room, Fits, Stage, AtItem, Kinds, ramdisk, loop, buffer, sip,
     fate, mainKeeps, CheckLinks
<1>7. CASE CheckNoLinks
  BY <1>7 DEF Places, Room, Fits, Stage, AtItem, Event, ramdisk, lists, loop, buffer,
     sip, fate, mainKeeps, CheckNoLinks
<1>8. CASE TakeEvent
  BY <1>8 DEF Places, Room, Fits, Stage, AtItem, Dirs, Event, Items, ramdisk, buffer,
     sip, fate, mainKeeps, IsNewest, GetLastLink, TakeEvent
<1>9. CASE NoEvent
  BY <1>9 DEF Places, Room, Fits, Stage, AtItem, ramdisk, lists, buffer, sip, fate,
     mainKeeps, Fill, NoEvent
<1>10. CASE MakeRoomForRequests
  BY <1>10 DEF Places, Room, Fits, Stage, AtItem, buffer, sip, Write, hkKeeps,
     AboutToFlush, MakeRoomForRequests
<1>11. CASE FillFrom
  BY <1>11, LosAssumption DEF TypeOK, BufferType, Places, Room, Fits, Stage, AtItem,
     Dirs, buffer, sip, hkKeeps, NumToLeave, AboutToFlush, HasRoom, FillFrom
<1>12. CASE Filled
  BY <1>12 DEF TypeOK, ControlType, Places, Room, Fits, Stage, AtItem, Dirs, buffer,
     sip, Write, hkKeeps, AboutToFlush, Filled
<1>13. CASE TakeHk
  BY <1>13 DEF Places, Room, Fits, Stage, AtItem, Dirs, Items, buffer, sip, IsNewest,
     GetLastLink, hkKeeps, TakeHk
<1>14. CASE NoMoreHk
  BY <1>14 DEF Places, Room, Fits, Stage, AtItem, buffer, sip, hkKeeps, NoMoreHk
<1>15. CASE TouchHk
  BY <1>15 DEF Places, Room, Fits, Stage, AtItem, buffer, sip, hkKeeps, TouchedToo,
     TouchHk
<1>16. CASE ReadHk
  BY <1>16 DEF Places, Room, Fits, Stage, AtItem, sip, Put, hkKeeps, Sizes, ReadHk
<1>17. CASE CannotReadHk
  BY <1>17 DEF Places, Room, Fits, Stage, AtItem, buffer, sip, hkKeeps, RemoveFiles,
     CannotReadHk
<1>18. CASE UnlinkHk
  BY <1>18 DEF Places, Room, Fits, Stage, AtItem, buffer, sip, hkKeeps, RemoveFiles,
     UnlinkHk
<1>19. CASE CheckEvent
  BY <1>19 DEF Places, Room, Fits, Stage, AtItem, lists, buffer, sip, Fill, eventKeeps,
     CheckEvent
<1>20. CASE TouchEvent
  BY <1>20 DEF Places, Room, Fits, Stage, AtItem, lists, buffer, sip, TouchedToo,
     eventKeeps, TouchEvent
<1>21. CASE UnlinkEvent
  BY <1>21 DEF Places, Room, Fits, Stage, AtItem, lists, buffer, sip, Write, eventKeeps,
     UnlinkEvent
<1>22. CASE ReadHeader
  BY <1>22 DEF Places, Room, Fits, Stage, AtItem, lists, sip, Put, eventKeeps,
     ReadHeader
<1>23. CASE CannotReadHeader
  BY <1>23 DEF Places, Room, Fits, Stage, AtItem, Stale, lists, sip, Put, Fill,
     RemoveFiles, eventKeeps, CannotReadHeader
<1>24. CASE ReadBody
  BY <1>24 DEF Places, Room, Fits, Stage, AtItem, lists, buffer, sip, eventKeeps,
     ReadBody
<1>25. CASE CannotReadBody
  BY <1>25 DEF Places, Room, Fits, Stage, AtItem, lists, buffer, sip, Fill, RemoveFiles,
     eventKeeps, CannotReadBody
<1>26. CASE MakeRoomForPart
  BY <1>26 DEF Places, Room, Fits, Stage, AtItem, lists, buffer, sip, Write, eventKeeps,
     MakeRoomForPart
<1>27. CASE SendPart
  BY <1>27 DEF Places, Room, Fits, Stage, AtItem, lists, sip, Put, eventKeeps, SendPart
<1>28. CASE EventSent
  BY <1>28 DEF Places, Room, Fits, Stage, AtItem, lists, buffer, sip, Fill, RemoveFiles,
     eventKeeps, EventSent
<1>29. CASE PollFails
  BY <1>29, LosAssumption DEF TypeOK, ControlType, Places, Room, Fits, Stage, AtItem,
     ramdisk, lists, loop, sip, writeKeeps, Emptied, PollFails
<1>30. CASE PollReady
  BY <1>30 DEF Places, Room, Fits, Stage, AtItem, ramdisk, lists, loop, buffer, sip,
     writeKeeps, PollReady
<1>31. CASE WriteReturns
  BY <1>31, LosAssumption DEF TypeOK, ControlType, Places, Room, Fits, Stage, AtItem,
     ramdisk, lists, loop, sip, writeKeeps, Emptied, WriteReturns
<1>32. CASE WatchdogRaises
  BY <1>32 DEF Places, Room, Fits, Stage, AtItem, Kinds, ramdisk, sip, Linked, Pending,
     Restarted, Exit, WatchdogRaises
<1>33. ASSUME NEW i \in Items, SipTake(i) PROVE Room'
  BY <1>33 DEF Places, Room, Fits, Stage, AtItem, lists, loop, buffer, sipKeeps, SipTake
<1>34. CASE SipTouch
  BY <1>34 DEF Places, Room, Fits, Stage, AtItem, Event, lists, loop, buffer,
     TouchedToo, sipKeeps, SipTouch
<1>35. CASE SipRecheck
  BY <1>35 DEF Places, Room, Fits, Stage, AtItem, lists, loop, buffer, sipKeeps,
     SipRecheck
<1>36. CASE SipSend
  BY <1>36 DEF Places, Room, Fits, Stage, AtItem, lists, loop, buffer, sipKeeps, SipSend
<1>37. CASE SipRemove
  BY <1>37 DEF Places, Room, Fits, Stage, AtItem, Event, lists, loop, buffer, sipKeeps,
     SipRemove
<1>38. CASE UNCHANGED vars
  BY <1>38 DEF Places, Room, Fits, Stage, AtItem, ramdisk, lists, loop, buffer, sip,
     fate, vars
<1> QED
  BY <1>1, <1>2, <1>3, <1>4, <1>5, <1>6, <1>7, <1>8, <1>9, <1>10, <1>11, <1>12, <1>13,
     <1>14, <1>15, <1>16, <1>17, <1>18, <1>19, <1>20, <1>21, <1>22, <1>23, <1>24, <1>25,
     <1>26, <1>27, <1>28, <1>29, <1>30, <1>31, <1>32, <1>33, <1>34, <1>35, <1>36, <1>37,
     <1>38 DEF Next, World, Loop, Housekeeping, SendEvent, SipGoesOn, Losd

-----------------------------------------------------------------------------
(* What has been delivered *)

\* No step takes a packet out of what has been delivered.
LEMMA DeliveredGrows == TypeOK /\ Places /\ [Next]_vars => Delivered \subseteq Delivered'
<1> SUFFICES ASSUME TypeOK, Places, [Next]_vars PROVE Delivered \subseteq Delivered'
  OBVIOUS
<1>1. ASSUME NEW d \in Kinds, WriteForTelem(d) PROVE Delivered \subseteq Delivered'
  BY <1>1, Kept DEF WriteForTelem, buffer, fate
<1>2. CASE LosdDies
  BY <1>2, ExitDelivers DEF LosdDies
<1>3. CASE SipDies
  BY <1>3, Kept DEF SipDies, buffer, fate
<1>4. CASE NextRound
  BY <1>4, Kept DEF NextRound, Round, mainKeeps, buffer, fate
<1>5. CASE RefreshLinks
  BY <1>5, Kept DEF RefreshLinks, Round, mainKeeps, buffer, fate
<1>6. CASE CheckLinks
  BY <1>6, Kept DEF CheckLinks, buffer, fate, mainKeeps
<1>7. CASE CheckNoLinks
  BY <1>7, Kept DEF CheckNoLinks, buffer, fate, mainKeeps
<1>8. CASE TakeEvent
  BY <1>8, Kept DEF TakeEvent, buffer, fate, mainKeeps
<1>9. CASE NoEvent
  BY <1>9, Kept DEF NoEvent, buffer, fate, mainKeeps
<1>10. CASE MakeRoomForRequests
  BY <1>10, Kept DEF MakeRoomForRequests, buffer, hkKeeps
<1>11. CASE FillFrom
  BY <1>11, Kept DEF FillFrom, buffer, hkKeeps
<1>12. CASE Filled
  BY <1>12, Kept DEF Filled, buffer, hkKeeps
<1>13. CASE TakeHk
  BY <1>13, Kept DEF TakeHk, buffer, hkKeeps
<1>14. CASE NoMoreHk
  BY <1>14, Kept DEF NoMoreHk, buffer, hkKeeps
<1>15. CASE TouchHk
  BY <1>15, Kept DEF TouchHk, buffer, hkKeeps
<1>16. CASE ReadHk
  BY <1>16, ReadHkDelivers
<1>17. CASE CannotReadHk
  BY <1>17, Kept DEF CannotReadHk, buffer, hkKeeps
<1>18. CASE UnlinkHk
  BY <1>18, Kept DEF UnlinkHk, buffer, hkKeeps
<1>19. CASE CheckEvent
  BY <1>19, Kept DEF CheckEvent, buffer, eventKeeps
<1>20. CASE TouchEvent
  BY <1>20, Kept DEF TouchEvent, buffer, eventKeeps
<1>21. CASE UnlinkEvent
  BY <1>21, Kept DEF UnlinkEvent, buffer, eventKeeps
<1>22. CASE ReadHeader
  BY <1>22, ReadHeaderDelivers
<1>23. CASE CannotReadHeader
  <2>1. <<cur, Stale>> \in Packets /\ HeaderSize \in Nat
    BY <1>23, LosAssumption DEF CannotReadHeader, Places, Stage, AtItem, TypeOK,
       ItemsType, Packets, Items, Stale
  <2> QED
    BY <1>23, <2>1, PutDelivers DEF CannotReadHeader, eventKeeps
<1>24. CASE ReadBody
  BY <1>24, Kept DEF ReadBody, buffer, eventKeeps
<1>25. CASE CannotReadBody
  BY <1>25, Kept DEF CannotReadBody, buffer, eventKeeps
<1>26. CASE MakeRoomForPart
  BY <1>26, Kept DEF MakeRoomForPart, buffer, eventKeeps
<1>27. CASE SendPart
  BY <1>27, SendPartDelivers
<1>28. CASE EventSent
  BY <1>28, Kept DEF EventSent, buffer, eventKeeps
<1>29. CASE PollFails
  BY <1>29, EmptiedDelivers DEF PollFails, writeKeeps
<1>30. CASE PollReady
  BY <1>30, Kept DEF PollReady, buffer, writeKeeps
<1>31. CASE WriteReturns
  BY <1>31, EmptiedDelivers DEF WriteReturns, writeKeeps
<1>32. CASE WatchdogRaises
  BY <1>32, ExitDelivers DEF WatchdogRaises
<1>33. ASSUME NEW i \in Items, SipTake(i) PROVE Delivered \subseteq Delivered'
  BY <1>33, Kept DEF SipTake, buffer, sipKeeps
<1>34. CASE SipTouch
  BY <1>34, Kept DEF SipTouch, buffer, sipKeeps
<1>35. CASE SipRecheck
  BY <1>35, Kept DEF SipRecheck, buffer, sipKeeps
<1>36. CASE SipSend
  BY <1>36, Kept DEF SipSend, buffer, sipKeeps
<1>37. CASE SipRemove
  BY <1>37, Kept DEF SipRemove, buffer, sipKeeps
<1>38. CASE UNCHANGED vars
  BY <1>38, Kept DEF buffer, sip, fate, vars
<1> QED
  BY <1>1, <1>2, <1>3, <1>4, <1>5, <1>6, <1>7, <1>8, <1>9, <1>10, <1>11, <1>12, <1>13,
     <1>14, <1>15, <1>16, <1>17, <1>18, <1>19, <1>20, <1>21, <1>22, <1>23, <1>24, <1>25,
     <1>26, <1>27, <1>28, <1>29, <1>30, <1>31, <1>32, <1>33, <1>34, <1>35, <1>36, <1>37,
     <1>38 DEF Next, World, Loop, Housekeeping, SendEvent, SipGoesOn, Losd

\* Whoever makes a step, LOSd has delivered what its position says.
LEMMA SentStep == TypeOK /\ Places /\ Sent /\ [Next]_vars => Sent'
<1> SUFFICES ASSUME TypeOK, Places, Sent, [Next]_vars, Delivered \subseteq Delivered'
             PROVE  Sent'
  BY DeliveredGrows
<1>1. ASSUME NEW d \in Kinds, WriteForTelem(d) PROVE Sent'
  BY <1>1 DEF TypeOK, ItemsType, Stage, AtItem, Sent, lists, loop, buffer, sip, fate,
     WriteForTelem
<1>2. CASE LosdDies
  BY <1>2 DEF Stage, AtItem, Sent, Kinds, ramdisk, sip, Linked, Pending, Restarted,
     Exit, LosdDies
<1>3. CASE SipDies
  BY <1>3 DEF Stage, AtItem, Sent, ramdisk, lists, loop, buffer, fate, SipDies
<1>4. CASE NextRound
  BY <1>4 DEF Stage, AtItem, Sent, ramdisk, buffer, sip, fate, mainKeeps, Fill, Round,
     NextRound
<1>5. CASE RefreshLinks
  BY <1>5 DEF Stage, AtItem, Sent, Kinds, ramdisk, buffer, sip, fate, Linked, mainKeeps,
     Fill, Round, RefreshLinks
<1>6. CASE CheckLinks
  BY <1>6 DEF Stage, AtItem, Sent, Kinds, ramdisk, loop, buffer, sip, fate, mainKeeps,
     CheckLinks
<1>7. CASE CheckNoLinks
  BY <1>7 DEF Stage, AtItem, Sent, Event, ramdisk, lists, loop, buffer, sip, fate,
     mainKeeps, CheckNoLinks
<1>8. CASE TakeEvent
  BY <1>8 DEF Stage, AtItem, Sent, Dirs, Event, Items, ramdisk, buffer, sip, fate,
     mainKeeps, IsNewest, GetLastLink, TakeEvent
<1>9. CASE NoEvent
  BY <1>9 DEF Stage, AtItem, Sent, ramdisk, lists, buffer, sip, fate, mainKeeps, Fill,
     NoEvent
<1>10. CASE MakeRoomForRequests
  BY <1>10 DEF Stage, AtItem, Sent, buffer, sip, Write, hkKeeps, AboutToFlush,
     MakeRoomForRequests
<1>11. CASE FillFrom
  BY <1>11 DEF Stage, AtItem, Sent, Dirs, buffer, sip, hkKeeps, NumToLeave,
     AboutToFlush, HasRoom, FillFrom
<1>12. CASE Filled
  BY <1>12 DEF TypeOK, ControlType, Stage, AtItem, Sent, Dirs, buffer, sip, Write,
     hkKeeps, AboutToFlush, Filled
<1>13. CASE TakeHk
  BY <1>13 DEF Stage, AtItem, Sent, Dirs, Items, buffer, sip, IsNewest, GetLastLink,
     hkKeeps, TakeHk
<1>14. CASE NoMoreHk
  BY <1>14 DEF Stage, AtItem, Sent, buffer, sip, hkKeeps, NoMoreHk
<1>15. CASE TouchHk
  BY <1>15 DEF Stage, AtItem, Sent, buffer, sip, hkKeeps, TouchedToo, TouchHk
<1>16. CASE ReadHk
  <2>1. <<cur, 0>> \in Delivered' /\ cur' = cur
    BY <1>16, ReadHkDelivers DEF ReadHk
  <2>2. pc' = "hkUnlink" /\ part = 1 /\ UNCHANGED <<part, spc, scur, sipSent, file>>
    BY <1>16 DEF ReadHk, hkKeeps, sip, Sent, Stage
  <2> QED
    BY <2>1, <2>2 DEF Sent
<1>17. CASE CannotReadHk
  BY <1>17 DEF Stage, AtItem, Sent, buffer, sip, hkKeeps, RemoveFiles, CannotReadHk
<1>18. CASE UnlinkHk
  BY <1>18 DEF Stage, AtItem, Sent, buffer, sip, Fits, hkKeeps, RemoveFiles, UnlinkHk
<1>19. CASE CheckEvent
  BY <1>19 DEF Stage, AtItem, Sent, lists, buffer, sip, Fill, eventKeeps, CheckEvent
<1>20. CASE TouchEvent
  BY <1>20 DEF Stage, AtItem, Sent, lists, buffer, sip, TouchedToo, eventKeeps,
     TouchEvent
<1>21. CASE UnlinkEvent
  BY <1>21 DEF Stage, AtItem, Sent, lists, buffer, sip, Write, Fits, eventKeeps,
     UnlinkEvent
<1>22. CASE ReadHeader
  <2>1. <<cur, 0>> \in Delivered' /\ cur' = cur
    BY <1>22, ReadHeaderDelivers DEF ReadHeader
  <2>2. pc' = "body" /\ part = 1 /\ UNCHANGED <<part, spc, scur, sipSent, file>>
    BY <1>22 DEF ReadHeader, eventKeeps, sip, Sent, Stage
  <2> QED
    BY <2>1, <2>2 DEF Sent
<1>23. CASE CannotReadHeader
  BY <1>23 DEF Stage, AtItem, Sent, Stale, lists, sip, Put, Fill, RemoveFiles,
     eventKeeps, CannotReadHeader
<1>24. CASE ReadBody
  BY <1>24 DEF Stage, AtItem, Sent, lists, buffer, sip, eventKeeps, ReadBody
<1>25. CASE CannotReadBody
  BY <1>25 DEF Stage, AtItem, Sent, lists, buffer, sip, Fill, RemoveFiles, eventKeeps,
     CannotReadBody
<1>26. CASE MakeRoomForPart
  BY <1>26 DEF Stage, AtItem, Sent, lists, buffer, sip, Write, Fits, eventKeeps,
     MakeRoomForPart
<1>27. CASE SendPart
  <2>1. \A k \in 0 .. part - 1 : <<cur, k>> \in Delivered'
    BY <1>27 DEF SendPart, Sent, Stage
  <2>2. <<cur, part>> \in Delivered'
    BY <1>27, SendPartDelivers
  <2>3. cur' = cur /\ part' = part + 1 /\ part \in Nat /\ pc' = "parts"
    BY <1>27 DEF SendPart, TypeOK, ControlType
  <2>4. \A k \in 0 .. part' - 1 : <<cur', k>> \in Delivered'
    BY <2>1, <2>2, <2>3
  <2>5. UNCHANGED <<spc, scur, sipSent, file>>
    BY <1>27 DEF SendPart, eventKeeps, sip
  <2> QED
    BY <2>3, <2>4, <2>5 DEF Sent, Stage
<1>28. CASE EventSent
  BY <1>28 DEF Stage, AtItem, Sent, lists, buffer, sip, Fill, RemoveFiles, eventKeeps,
     EventSent
<1>29. CASE PollFails
  BY <1>29 DEF TypeOK, ControlType, Stage, AtItem, Sent, ramdisk, lists, loop, sip,
     writeKeeps, Emptied, PollFails
<1>30. CASE PollReady
  BY <1>30 DEF Stage, AtItem, Sent, ramdisk, lists, loop, buffer, sip, writeKeeps,
     PollReady
<1>31. CASE WriteReturns
  BY <1>31 DEF TypeOK, ControlType, Stage, AtItem, Sent, ramdisk, lists, loop, sip,
     writeKeeps, Emptied, WriteReturns
<1>32. CASE WatchdogRaises
  BY <1>32 DEF Stage, AtItem, Sent, Kinds, ramdisk, sip, Linked, Pending, Restarted,
     Exit, WatchdogRaises
<1>33. ASSUME NEW i \in Items, SipTake(i) PROVE Sent'
  BY <1>33 DEF Stage, AtItem, Sent, lists, loop, buffer, sipKeeps, SipTake
<1>34. CASE SipTouch
  BY <1>34 DEF Stage, AtItem, Sent, Event, lists, loop, buffer, TouchedToo, sipKeeps,
     SipTouch
<1>35. CASE SipRecheck
  BY <1>35 DEF Stage, AtItem, Sent, lists, loop, buffer, sipKeeps, SipRecheck
<1>36. CASE SipSend
  BY <1>36 DEF Stage, AtItem, Sent, lists, loop, buffer, sipKeeps, SipSend
<1>37. CASE SipRemove
  BY <1>37 DEF Stage, AtItem, Sent, Event, lists, loop, buffer, sipKeeps, SipRemove
<1>38. CASE UNCHANGED vars
  BY <1>38 DEF Stage, AtItem, Sent, ramdisk, lists, loop, buffer, sip, fate, vars
<1> QED
  BY <1>1, <1>2, <1>3, <1>4, <1>5, <1>6, <1>7, <1>8, <1>9, <1>10, <1>11, <1>12, <1>13,
     <1>14, <1>15, <1>16, <1>17, <1>18, <1>19, <1>20, <1>21, <1>22, <1>23, <1>24, <1>25,
     <1>26, <1>27, <1>28, <1>29, <1>30, <1>31, <1>32, <1>33, <1>34, <1>35, <1>36, <1>37,
     <1>38 DEF Next, World, Loop, Housekeeping, SendEvent, SipGoesOn, Losd

-----------------------------------------------------------------------------
(* What is gone is accounted for *)

\* What is accounted for stays so when no file goes.
LEMMA StaysAccounted ==
    ASSUME Accounted, Delivered \subseteq Delivered', sipSent \subseteq sipSent',
           made' = made, kind' = kind, file \subseteq file'
    PROVE  Accounted'
  BY DEF Accounted, Delivered, PacketsOf

\* When a file goes, its item has to be accounted for.
LEMMA RemovedAccounted ==
    ASSUME TypeOK, Accounted, Delivered \subseteq Delivered', sipSent \subseteq sipSent',
           made' = made, kind' = kind, file \ {cur} \subseteq file',
           PacketsOf(cur) \subseteq Delivered'
    PROVE  Accounted'
  BY DEF Accounted, Delivered, PacketsOf

\* Whoever makes a step, every file that is gone is accounted for.
LEMMA AccountedStep == TypeOK /\ Places /\ Sorted /\ Sent /\ Accounted /\ [Next]_vars => Accounted'
<1> SUFFICES ASSUME TypeOK, Places, Sorted, Sent, Accounted,
                    [Next]_vars, Delivered \subseteq Delivered'
             PROVE  Accounted'
  BY DeliveredGrows
<1>1. ASSUME NEW d \in Kinds, WriteForTelem(d) PROVE Accounted'
  <2>1. made \in Nat /\ made' = made + 1 /\ file' = file \cup {made + 1}
    BY <1>1 DEF WriteForTelem, TypeOK, ItemsType
  <2>2. \A i \in 1 .. made : i \in Items /\ kind'[i] = kind[i]
    BY <1>1, <2>1, LosAssumption DEF WriteForTelem, Items
  <2>3. \A i \in 1 .. made' \ file' : i \in 1 .. made \ file
    BY <2>1
  <2>4. sipSent' = sipSent
    BY <1>1 DEF WriteForTelem, sip
  <2> QED
    BY <2>2, <2>3, <2>4 DEF Accounted, Delivered, PacketsOf
<1>2. CASE LosdDies
  BY <1>2, StaysAccounted DEF LosdDies, Exit, ramdisk, sip
<1>3. CASE SipDies
  BY <1>3, StaysAccounted DEF SipDies, ramdisk
<1>4. CASE NextRound
  BY <1>4, StaysAccounted DEF NextRound, ramdisk, sip, mainKeeps, Round
<1>5. CASE RefreshLinks
  BY <1>5, StaysAccounted DEF RefreshLinks, ramdisk, sip, mainKeeps, Round
<1>6. CASE CheckLinks
  BY <1>6, StaysAccounted DEF CheckLinks, ramdisk, sip, mainKeeps
<1>7. CASE CheckNoLinks
  BY <1>7, StaysAccounted DEF CheckNoLinks, ramdisk, sip, mainKeeps
<1>8. CASE TakeEvent
  BY <1>8, StaysAccounted DEF TakeEvent, ramdisk, sip, mainKeeps
<1>9. CASE NoEvent
  BY <1>9, StaysAccounted DEF NoEvent, ramdisk, sip, mainKeeps
<1>10. CASE MakeRoomForRequests
  BY <1>10, StaysAccounted DEF MakeRoomForRequests, sip, hkKeeps
<1>11. CASE FillFrom
  BY <1>11, StaysAccounted DEF FillFrom, sip, hkKeeps
<1>12. CASE Filled
  BY <1>12, StaysAccounted DEF Filled, sip, hkKeeps
<1>13. CASE TakeHk
  BY <1>13, StaysAccounted DEF TakeHk, sip, hkKeeps
<1>14. CASE NoMoreHk
  BY <1>14, StaysAccounted DEF NoMoreHk, sip, hkKeeps
<1>15. CASE TouchHk
  BY <1>15, StaysAccounted DEF TouchHk, sip, hkKeeps
<1>16. CASE ReadHk
  BY <1>16, StaysAccounted DEF ReadHk, sip, hkKeeps
<1>17. CASE CannotReadHk
  BY <1>17, StaysAccounted DEF CannotReadHk, RemoveFiles, hkKeeps, sip
<1>18. CASE UnlinkHk
  <2>1. PacketsOf(cur) \subseteq Delivered'
    <3>1. kind[cur] = hkInd /\ hkInd \in Dirs /\ <<cur, 0>> \in Delivered
      BY <1>18 DEF UnlinkHk, Sorted, Places, Sent
    <3> QED
      BY <3>1, DirsAreKinds DEF PacketsOf
  <2>2. file \ {cur} \subseteq file'
    BY <1>18 DEF UnlinkHk, RemoveFiles
  <2> QED
    BY <1>18, <2>1, <2>2, RemovedAccounted DEF UnlinkHk, hkKeeps, sip
<1>19. CASE CheckEvent
  BY <1>19, StaysAccounted DEF CheckEvent, sip, eventKeeps
<1>20. CASE TouchEvent
  BY <1>20, StaysAccounted DEF TouchEvent, sip, eventKeeps
<1>21. CASE UnlinkEvent
  BY <1>21, StaysAccounted DEF UnlinkEvent, sip, eventKeeps
<1>22. CASE ReadHeader
  BY <1>22, StaysAccounted DEF ReadHeader, sip, eventKeeps
<1>23. CASE CannotReadHeader
  BY <1>23, StaysAccounted DEF CannotReadHeader, RemoveFiles, eventKeeps, sip
<1>24. CASE ReadBody
  BY <1>24, StaysAccounted DEF ReadBody, sip, eventKeeps
<1>25. CASE CannotReadBody
  BY <1>25, StaysAccounted DEF CannotReadBody, RemoveFiles, eventKeeps, sip
<1>26. CASE MakeRoomForPart
  BY <1>26, StaysAccounted DEF MakeRoomForPart, sip, eventKeeps
<1>27. CASE SendPart
  BY <1>27, StaysAccounted DEF SendPart, sip, eventKeeps
<1>28. CASE EventSent
  <2>1. PacketsOf(cur) \subseteq Delivered'
    <3>1. part = NumParts + 1 /\ NumParts \in Nat
      BY <1>28, LosAssumption DEF EventSent, TypeOK, ControlType
    <3>2. \A k \in 0 .. NumParts : <<cur, k>> \in Delivered'
      BY <1>28, <3>1 DEF EventSent, Sent, Stage
    <3> QED
      BY <3>1, <3>2 DEF PacketsOf
  <2>2. file \ {cur} \subseteq file'
    BY <1>28 DEF EventSent, RemoveFiles
  <2> QED
    BY <1>28, <2>1, <2>2, RemovedAccounted DEF EventSent, eventKeeps, sip
<1>29. CASE PollFails
  BY <1>29, StaysAccounted DEF PollFails, ramdisk, sip, writeKeeps
<1>30. CASE PollReady
  BY <1>30, StaysAccounted DEF PollReady, ramdisk, sip, writeKeeps
<1>31. CASE WriteReturns
  BY <1>31, StaysAccounted DEF WriteReturns, ramdisk, sip, writeKeeps
<1>32. CASE WatchdogRaises
  BY <1>32, StaysAccounted DEF WatchdogRaises, Exit, ramdisk, sip
<1>33. ASSUME NEW i \in Items, SipTake(i) PROVE Accounted'
  BY <1>33, StaysAccounted DEF SipTake, sipKeeps
<1>34. CASE SipTouch
  BY <1>34, StaysAccounted DEF SipTouch, sipKeeps
<1>35. CASE SipRecheck
  BY <1>35, StaysAccounted DEF SipRecheck, sipKeeps
<1>36. CASE SipSend
  BY <1>36, StaysAccounted DEF SipSend, sipKeeps
<1>37. CASE SipRemove
  <2>1. scur \in sipSent \/ scur \notin file
    BY <1>37 DEF SipRemove, Sent
  <2>2. /\ file' = file \ {scur}
        /\ UNCHANGED <<made, kind, sipSent>>
    BY <1>37 DEF SipRemove, sipKeeps
  <2>3. CASE scur \notin file
    BY <2>2, <2>3, StaysAccounted
  <2>4. CASE scur \in sipSent
    BY <2>2, <2>4 DEF Accounted, Delivered, PacketsOf
  <2> QED
    BY <2>1, <2>3, <2>4
<1>38. CASE UNCHANGED vars
  BY <1>38, StaysAccounted DEF vars, ramdisk, sip
<1> QED
  BY <1>1, <1>2, <1>3, <1>4, <1>5, <1>6, <1>7, <1>8, <1>9, <1>10, <1>11, <1>12, <1>13,
     <1>14, <1>15, <1>16, <1>17, <1>18, <1>19, <1>20, <1>21, <1>22, <1>23, <1>24, <1>25,
     <1>26, <1>27, <1>28, <1>29, <1>30, <1>31, <1>32, <1>33, <1>34, <1>35, <1>36, <1>37,
     <1>38 DEF Next, World, Loop, Housekeeping, SendEvent, SipGoesOn, Losd

-----------------------------------------------------------------------------
(* What has been put, in order *)

\* The packets on the wire, and behind them those in the buffer.  Writing the
\* buffer changes nothing about it.
Stream == wire \o buf

\* WireInOrder, of any sequence of packets, kinds and contested items.
Ordered(s, K, C) ==
    \A p, q \in DOMAIN s :
        p < q /\ s[p][1] = s[q][1] /\ Stale \notin {s[p][2], s[q][2]} =>
            LET i == s[p][1] IN
            IF K[i] = Event
              THEN s[p][2] < s[q][2] /\ \A m \in p .. q : s[m][1] = i
              ELSE i \in C

\* What there is of i in s are parts before k, at the end.
EndsWith(s, i, k) ==
    \A p \in DOMAIN s : s[p][1] = i /\ s[p][2] # Stale =>
        s[p][2] < k /\ \A m \in p .. Len(s) : s[m][1] = i

\* A packet of i has been put.
HasPut(i) == \E p \in DOMAIN Stream : Stream[p][1] = i /\ Stream[p][2] # Stale

\* LOSd may take i from its list, or will.
Offered(i) == i \in link \/ i \in list[kind[i]] \/ i > told

Sending(i) == Stage \in {"body", "parts"} /\ i = cur

\* A packet does not come again: the file is gone, or SIPd has touched it (and a
\* touched event keeps its touch as long as its file), or no link leads to it, or
\* it is housekeeping both have touched.  The last packet in the buffer is an
\* exception until its file is removed: if LOSd ends before, that packet is lost.
NotAgain(n) ==
    LET i == Stream[n][1] IN
    /\ i \in 1 .. made
    /\ Stream[n][2] # Stale =>
         \/ i \notin file
         \/ kind[i] = Event /\ (i \in sipd \/ ~Offered(i) \/ Sending(i))
         \/ kind[i] # Event /\ (i \in contested \/ (pc = "hkUnlink" /\ i = cur /\ n > Len(wire)))

\* The event that is taken has no packet yet, or cannot be read, and when it is
\* sent its packets are the last ones.
EventNext ==
    /\ Stage \in {"evCheck", "evTouch", "evLink", "header", "body", "parts"} => kind[cur] = Event
    /\ pc = "evCheck" => cur \notin file \/ cur \in sipd \/ ~HasPut(cur)
    /\ Stage \in {"evTouch", "evLink", "header"} => cur \notin file \/ ~HasPut(cur)
    /\ Stage \in {"header", "body", "parts"} => cur \notin link
    /\ Stage \in {"body", "parts"} => EndsWith(Stream, cur, part)

\* What LOSd has touched and SIPd touches, too, is contested, unless SIPd has
\* removed it before.
Contention ==
    /\ pc \in {"hkRead", "hkUnlink"} =>
         \/ cur \in contested
         \/ cur \in losd /\ cur \notin sipd
         \/ cur \notin file \cup link \cup sipd /\ ~(spc = "touch" /\ scur = cur)
    /\ spc = "recheck" => kind[scur] # Event

\* The inductive invariant of the order, beside Inv.
WireInv ==
    /\ Ordered(Stream, kind, contested)
    /\ \A n \in DOMAIN Stream : NotAgain(n)
    /\ EventNext /\ Contention

\* The stream is a sequence of packets that begins with what is on the wire.
LEMMA StreamType ==
    ASSUME TypeOK
    PROVE  /\ Stream \in Seq(Packets) /\ Len(wire) \in Nat /\ Len(wire) <= Len(Stream)
           /\ Len(Stream) \in Nat /\ DOMAIN Stream = 1 .. Len(Stream) /\ DOMAIN wire = 1 .. Len(wire)
           /\ \A n \in DOMAIN wire : n \in DOMAIN Stream /\ Stream[n] = wire[n]
<1>1. wire \in Seq(Packets) /\ buf \in Seq(Packets)
  BY DEF TypeOK, BufferType
<1>2. /\ wire \o buf \in Seq(Packets) /\ Len(wire \o buf) = Len(wire) + Len(buf)
      /\ \A n \in 1 .. Len(wire) + Len(buf) :
            (wire \o buf)[n] = IF n <= Len(wire) THEN wire[n] ELSE buf[n - Len(wire)]
  BY <1>1, ConcatProperties
<1>3. Len(wire) \in Nat /\ Len(buf) \in Nat /\ DOMAIN wire = 1 .. Len(wire)
  BY <1>1, LenProperties
<1>4. /\ Stream \in Seq(Packets) /\ Len(Stream) = Len(wire) + Len(buf)
      /\ \A n \in 1 .. Len(wire) + Len(buf) :
            Stream[n] = IF n <= Len(wire) THEN wire[n] ELSE buf[n - Len(wire)]
  BY <1>2 DEF Stream
<1>5. DOMAIN Stream = 1 .. Len(Stream)
  BY <1>4, LenProperties
<1> QED
  BY <1>3, <1>4, <1>5

\* A packet put into the buffer comes behind all others.
LEMMA StreamAppends ==
    ASSUME TypeOK, NEW p \in Packets, NEW n \in Nat, Put(p, n), wire' = wire
    PROVE  Stream' = Append(Stream, p)
<1>1. wire \in Seq(Packets) /\ buf \in Seq(Packets) /\ buf' = Append(buf, p)
  BY DEF TypeOK, BufferType, Put
<1>2. wire \o Append(buf, p) = Append(wire \o buf, p)
  <2>1. <<p>> \in Seq(Packets) /\ wire \o buf \in Seq(Packets)
    BY <1>1, ConcatProperties
  <2>2. Append(buf, p) = buf \o <<p>> /\ Append(wire \o buf, p) = (wire \o buf) \o <<p>>
    BY <1>1, <2>1, AppendIsConcat
  <2>3. (wire \o buf) \o <<p>> = wire \o (buf \o <<p>>)
    BY <1>1, <2>1, ConcatAssociative
  <2> QED
    BY <2>2, <2>3
<1> QED
  BY <1>1, <1>2 DEF Stream

\* A write moves packets from the buffer to the wire and leaves the stream as it is;
\* so does a death during a write, or it cuts off what is in the buffer.
LEMMA StreamWritten ==
    ASSUME TypeOK, wire' = wire \o buf, buf' = <<>> PROVE Stream' = Stream
<1>1. wire \in Seq(Packets) /\ buf \in Seq(Packets) /\ wire \o buf \in Seq(Packets)
  BY ConcatProperties DEF TypeOK, BufferType
<1>2. (wire \o buf) \o <<>> = wire \o buf
  BY <1>1, ConcatEmptySeq
<1> QED
  BY <1>2 DEF Stream

\* A death leaves what was on the wire, or all if it comes in a write that succeeds.
LEMMA StreamCut ==
    ASSUME TypeOK, Exit PROVE Stream' = wire \/ (pc = "write" /\ Stream' = Stream)
<1>1. wire \in Seq(Packets)
  BY DEF TypeOK, BufferType
<1>2. buf' = <<>>
  BY DEF Exit, Restarted
<1>3. CASE wire' = wire
  <2>1. Stream' = wire
    BY <1>1, <1>2, <1>3, ConcatEmptySeq DEF Stream
  <2> QED
    BY <2>1
<1>4. CASE pc = "write" /\ wire' = wire \o buf
  BY <1>2, <1>4, StreamWritten
<1> QED
  BY <1>3, <1>4 DEF Exit

-----------------------------------------------------------------------------
(* Where packets do not come again *)

\* What holds of an item that has been written: its kind stays, and its file and
\* its link do not come back.
Lasting ==
    /\ made <= made' /\ told <= told'
    /\ \A i \in 1 .. made :
          /\ kind'[i] = kind[i]
          /\ i \notin file => i \notin file'
          /\ i \notin link => i \notin link'
          /\ i \in contested => i \in contested'
          /\ \A d \in Kinds : i \in list'[d] => i \in list[d] \/ (kind[i] = d /\ (i \in link \/ i > told))

\* Whoever makes a step, that is so.
LEMMA Lasts == TypeOK /\ Places /\ [Next]_vars => Lasting
<1> SUFFICES ASSUME TypeOK, Places, [Next]_vars PROVE Lasting
  OBVIOUS
<1>0. /\ made \in Nat /\ told \in Nat /\ told <= made
      /\ kind \in [Items -> Kinds] /\ list \in [Kinds -> SUBSET (1 .. made)] /\ 1 .. made \subseteq Items
  BY LosAssumption DEF TypeOK, ItemsType, Items
<1>1. ASSUME NEW d \in Kinds, WriteForTelem(d) PROVE Lasting
  <2>1. /\ made' = made + 1 /\ kind' = [kind EXCEPT ![made + 1] = d]
        /\ file' = file \cup {made + 1} /\ link' = link \cup {made + 1}
        /\ UNCHANGED <<told, list, contested>>
    BY <1>1 DEF WriteForTelem, lists, fate
  <2>2. \A i \in 1 .. made : i \in Items /\ i # made + 1
    BY <1>0
  <2> QED
    BY <1>0, <2>1, <2>2 DEF Lasting
<1>2. CASE LosdDies
  <2>1. told' = made /\ list' = [d \in Kinds |-> Linked(d)] /\ UNCHANGED <<made, kind, file, link, contested>>
    BY <1>2 DEF LosdDies, Exit, Restarted, ramdisk
  <2>2. \A i \in 1 .. made, d \in Kinds : i \in list'[d] => kind[i] = d /\ i \in link
    BY <2>1 DEF Linked
  <2> QED
    BY <1>0, <2>1, <2>2 DEF Lasting
<1>3. CASE SipDies
  BY <1>3, <1>0 DEF Lasting, SipDies, buffer, fate, loop, lists, ramdisk
<1>4. CASE NextRound
  BY <1>4, <1>0 DEF Lasting, NextRound, Round, mainKeeps, fate, sip, buffer, ramdisk, Fill
<1>5. CASE RefreshLinks
  <2>1. list' = [d \in Kinds |-> Linked(d)] /\ UNCHANGED <<made, told, kind, file, link, contested>>
    BY <1>5 DEF RefreshLinks, Round, mainKeeps, ramdisk, fate
  <2>2. \A i \in 1 .. made, d \in Kinds : i \in list'[d] => kind[i] = d /\ i \in link
    BY <2>1 DEF Linked
  <2> QED
    BY <1>0, <2>1, <2>2 DEF Lasting
<1>6. CASE CheckLinks
  <2>1. /\ told' = made /\ UNCHANGED <<made, kind, file, link, contested>>
        /\ list' = [d \in Kinds |-> list[d] \cup { i \in told + 1 .. made : kind[i] = d }]
    BY <1>6 DEF CheckLinks, mainKeeps, ramdisk, fate
  <2>2. \A i \in 1 .. made, d \in Kinds : i \in list'[d] => i \in list[d] \/ (kind[i] = d /\ i > told)
    BY <1>0, <2>1
  <2> QED
    BY <1>0, <2>1, <2>2 DEF Lasting
<1>7. CASE CheckNoLinks
  BY <1>7, <1>0 DEF Lasting, CheckNoLinks, mainKeeps, fate, sip, buffer, ramdisk, loop, lists
<1>8. CASE TakeEvent
  <2>1. PICK i \in Items : GetLastLink(Event, i)
    BY <1>8 DEF TakeEvent
  <2>2. Event \in Kinds
    BY <1>8, DirsAreKinds DEF TakeHk, Places
  <2>3. \A k \in Kinds : list'[k] \subseteq list[k]
    BY <2>1, <2>2, Taken
  <2>4. UNCHANGED <<made, told, kind, file, link, contested>>
    BY <1>8 DEF TakeEvent, mainKeeps, ramdisk, fate
  <2> QED
    BY <1>0, <2>3, <2>4 DEF Lasting
<1>9. CASE NoEvent
  BY <1>9, <1>0 DEF Lasting, NoEvent, mainKeeps, fate, sip, buffer, ramdisk, lists, Fill
<1>10. CASE MakeRoomForRequests
  BY <1>10, <1>0 DEF Lasting, MakeRoomForRequests, hkKeeps, sip, buffer, Write
<1>11. CASE FillFrom
  BY <1>11, <1>0 DEF Lasting, FillFrom, hkKeeps, sip, buffer
<1>12. CASE Filled
  BY <1>12, <1>0 DEF Lasting, Filled, hkKeeps, sip, buffer, Write
<1>13. CASE TakeHk
  <2>1. PICK i \in Items : GetLastLink(hkInd, i)
    BY <1>13 DEF TakeHk
  <2>2. hkInd \in Kinds
    BY <1>13, DirsAreKinds DEF TakeHk, Places
  <2>3. \A k \in Kinds : list'[k] \subseteq list[k]
    BY <2>1, <2>2, Taken
  <2>4. UNCHANGED <<made, told, kind, file, link, contested>>
    BY <1>13 DEF TakeHk, hkKeeps
  <2> QED
    BY <1>0, <2>3, <2>4 DEF Lasting
<1>14. CASE NoMoreHk
  BY <1>14, <1>0 DEF Lasting, NoMoreHk, hkKeeps, sip, buffer
<1>15. CASE TouchHk
  BY <1>15, <1>0 DEF Lasting, TouchHk, hkKeeps, sip, buffer, TouchedToo
<1>16. CASE ReadHk
  BY <1>16, <1>0 DEF Lasting, ReadHk, hkKeeps, sip, Put, loop
<1>17. CASE CannotReadHk
  BY <1>17, <1>0 DEF Lasting, CannotReadHk, hkKeeps, sip, buffer, RemoveFiles
<1>18. CASE UnlinkHk
  BY <1>18, <1>0 DEF Lasting, UnlinkHk, hkKeeps, sip, buffer, RemoveFiles
<1>19. CASE CheckEvent
  BY <1>19, <1>0 DEF Lasting, CheckEvent, eventKeeps, sip, lists, buffer, Fill
<1>20. CASE TouchEvent
  BY <1>20, <1>0 DEF Lasting, TouchEvent, eventKeeps, sip, lists, buffer, TouchedToo
<1>21. CASE UnlinkEvent
  BY <1>21, <1>0 DEF Lasting, UnlinkEvent, eventKeeps, sip, lists, buffer, Write
<1>22. CASE ReadHeader
  BY <1>22, <1>0 DEF Lasting, ReadHeader, eventKeeps, sip, lists, Put, loop
<1>23. CASE CannotReadHeader
  BY <1>23, <1>0 DEF Lasting, CannotReadHeader, eventKeeps, sip, lists, Fill, RemoveFiles, Put,
     loop
<1>24. CASE ReadBody
  BY <1>24, <1>0 DEF Lasting, ReadBody, eventKeeps, sip, lists, buffer
<1>25. CASE CannotReadBody
  BY <1>25, <1>0 DEF Lasting, CannotReadBody, eventKeeps, sip, lists, buffer, Fill, RemoveFiles
<1>26. CASE MakeRoomForPart
  BY <1>26, <1>0 DEF Lasting, MakeRoomForPart, eventKeeps, sip, lists, buffer, Write
<1>27. CASE SendPart
  BY <1>27, <1>0 DEF Lasting, SendPart, eventKeeps, sip, lists, Put, loop
<1>28. CASE EventSent
  BY <1>28, <1>0 DEF Lasting, EventSent, eventKeeps, sip, lists, buffer, Fill, RemoveFiles
<1>29. CASE PollFails
  BY <1>29, <1>0 DEF Lasting, PollFails, writeKeeps, sip, loop, lists, ramdisk, Emptied
<1>30. CASE PollReady
  BY <1>30, <1>0 DEF Lasting, PollReady, writeKeeps, sip, loop, lists, ramdisk, buffer
<1>31. CASE WriteReturns
  BY <1>31, <1>0 DEF Lasting, WriteReturns, writeKeeps, sip, loop, lists, ramdisk, Emptied
<1>32. CASE WatchdogRaises
  <2>1. told' = made /\ list' = [d \in Kinds |-> Linked(d)] /\ UNCHANGED <<made, kind, file, link, contested>>
    BY <1>32 DEF WatchdogRaises, Exit, Restarted, ramdisk
  <2>2. \A i \in 1 .. made, d \in Kinds : i \in list'[d] => kind[i] = d /\ i \in link
    BY <2>1 DEF Linked
  <2> QED
    BY <1>0, <2>1, <2>2 DEF Lasting
<1>33. ASSUME NEW j \in Items, SipTake(j) PROVE Lasting
  BY <1>33, <1>0 DEF Lasting, SipTake, sipKeeps, buffer, loop, lists
<1>34. CASE SipTouch
  BY <1>34, <1>0 DEF Lasting, SipTouch, sipKeeps, buffer, loop, lists, TouchedToo
<1>35. CASE SipRecheck
  BY <1>35, <1>0 DEF Lasting, SipRecheck, sipKeeps, buffer, loop, lists
<1>36. CASE SipSend
  BY <1>36, <1>0 DEF Lasting, SipSend, sipKeeps, buffer, loop, lists
<1>37. CASE SipRemove
  BY <1>37, <1>0 DEF Lasting, SipRemove, sipKeeps, buffer, loop, lists
<1>38. CASE UNCHANGED vars
  BY <1>38, <1>0 DEF Lasting, vars, fate, sip, buffer, loop, lists, ramdisk
<1> QED
  BY <1>1, <1>2, <1>3, <1>4, <1>5, <1>6, <1>7, <1>8, <1>9, <1>10, <1>11, <1>12, <1>13, <1>14,
     <1>15, <1>16, <1>17, <1>18, <1>19, <1>20, <1>21, <1>22, <1>23, <1>24, <1>25, <1>26, <1>27,
     <1>28, <1>29, <1>30, <1>31, <1>32, <1>33, <1>34, <1>35, <1>36, <1>37, <1>38 DEF Next,
     World, Loop, Housekeeping, SendEvent, SipGoesOn, Losd

\* So LOSd is not offered again what it is not offered any more.
LEMMA NotOffered ==
    ASSUME TypeOK, ItemsType', Lasting, NEW i \in 1 .. made, ~Offered(i) PROVE ~Offered(i)'
<1>1. kind[i] \in Kinds /\ kind'[i] = kind[i] /\ made \in Nat /\ told \in Nat /\ i \in Nat
  BY LosAssumption DEF Lasting, TypeOK, ItemsType, Items
<1>2. told \in Nat /\ told' \in Nat /\ told <= told' /\ ~(i > told)
  BY <1>1 DEF Lasting, Offered, TypeOK, ItemsType
<1>3. ~(i > told')
  BY <1>1, <1>2
<1> QED
  BY <1>1, <1>3 DEF Offered, Lasting

\* An event that SIPd has touched stays touched as long as its file is there.
LEMMA TouchStays ==
    ASSUME TypeOK, Places, EventNext, Contention, [Next]_vars,
           NEW i \in 1 .. made, kind[i] = Event, i \in sipd
    PROVE  i \in sipd' \/ i \notin file'
<1> DEFINE Stays == i \in sipd' \/ i \notin file'
<1>0. i \in Items /\ made \in Nat /\ i # made + 1
  BY LosAssumption DEF TypeOK, ItemsType, Items
<1>1. ASSUME NEW d \in Kinds, WriteForTelem(d) PROVE Stays
  BY <1>1, <1>0 DEF WriteForTelem, fate, sip, buffer, loop, lists
<1>2. CASE LosdDies
  BY <1>2 DEF LosdDies, Exit, ramdisk
<1>3. CASE SipDies
  BY <1>3, <1>0 DEF SipDies, buffer, fate, loop, lists, ramdisk
<1>4. CASE NextRound
  BY <1>4, <1>0 DEF NextRound, Round, mainKeeps, fate, sip, buffer, ramdisk, Fill
<1>5. CASE RefreshLinks
  BY <1>5, <1>0 DEF RefreshLinks, Round, mainKeeps, fate, sip, buffer, ramdisk, Fill
<1>6. CASE CheckLinks
  BY <1>6, <1>0 DEF CheckLinks, mainKeeps, fate, sip, buffer, ramdisk, loop
<1>7. CASE CheckNoLinks
  BY <1>7, <1>0 DEF CheckNoLinks, mainKeeps, fate, sip, buffer, ramdisk, loop, lists
<1>8. CASE TakeEvent
  BY <1>8, <1>0 DEF TakeEvent, mainKeeps, fate, sip, buffer, ramdisk, GetLastLink
<1>9. CASE NoEvent
  BY <1>9, <1>0 DEF NoEvent, mainKeeps, fate, sip, buffer, ramdisk, lists, Fill
<1>10. CASE MakeRoomForRequests
  BY <1>10, <1>0 DEF MakeRoomForRequests, hkKeeps, sip, buffer, Write
<1>11. CASE FillFrom
  BY <1>11, <1>0 DEF FillFrom, hkKeeps, sip, buffer
<1>12. CASE Filled
  BY <1>12, <1>0 DEF Filled, hkKeeps, sip, buffer, Write
<1>13. CASE TakeHk
  BY <1>13, <1>0 DEF TakeHk, hkKeeps, sip, buffer, GetLastLink
<1>14. CASE NoMoreHk
  BY <1>14, <1>0 DEF NoMoreHk, hkKeeps, sip, buffer
<1>15. CASE TouchHk
  BY <1>15, <1>0 DEF TouchHk, hkKeeps, sip, buffer, TouchedToo
<1>16. CASE ReadHk
  BY <1>16, <1>0 DEF ReadHk, hkKeeps, sip, Put, loop
<1>17. CASE CannotReadHk
  BY <1>17 DEF CannotReadHk, RemoveFiles
<1>18. CASE UnlinkHk
  BY <1>18, <1>0 DEF UnlinkHk, hkKeeps, sip, buffer, RemoveFiles
<1>19. CASE CheckEvent
  BY <1>19, <1>0 DEF CheckEvent, eventKeeps, sip, lists, buffer, Fill
<1>20. CASE TouchEvent
  BY <1>20, <1>0 DEF TouchEvent, eventKeeps, sip, lists, buffer, TouchedToo
<1>21. CASE UnlinkEvent
  BY <1>21, <1>0 DEF UnlinkEvent, eventKeeps, sip, lists, buffer, Write
<1>22. CASE ReadHeader
  BY <1>22, <1>0 DEF ReadHeader, eventKeeps, sip, lists, Put, loop
<1>23. CASE CannotReadHeader
  BY <1>23, <1>0 DEF CannotReadHeader, eventKeeps, sip, lists, Fill, RemoveFiles, Put, loop
<1>24. CASE ReadBody
  BY <1>24, <1>0 DEF ReadBody, eventKeeps, sip, lists, buffer
<1>25. CASE CannotReadBody
  BY <1>25, <1>0 DEF CannotReadBody, eventKeeps, sip, lists, buffer, Fill, RemoveFiles
<1>26. CASE MakeRoomForPart
  BY <1>26, <1>0 DEF MakeRoomForPart, eventKeeps, sip, lists, buffer, Write
<1>27. CASE SendPart
  BY <1>27, <1>0 DEF SendPart, eventKeeps, sip, lists, Put, loop
<1>28. CASE EventSent
  BY <1>28, <1>0 DEF EventSent, eventKeeps, sip, lists, buffer, Fill, RemoveFiles
<1>29. CASE PollFails
  BY <1>29, <1>0 DEF PollFails, writeKeeps, sip, loop, lists, ramdisk, Emptied
<1>30. CASE PollReady
  BY <1>30, <1>0 DEF PollReady, writeKeeps, sip, loop, lists, ramdisk, buffer
<1>31. CASE WriteReturns
  BY <1>31, <1>0 DEF WriteReturns, writeKeeps, sip, loop, lists, ramdisk, Emptied
<1>32. CASE WatchdogRaises
  BY <1>32 DEF WatchdogRaises, Exit, ramdisk
<1>33. ASSUME NEW j \in Items, SipTake(j) PROVE Stays
  BY <1>33, <1>0 DEF SipTake, sipKeeps, buffer, loop, lists
<1>34. CASE SipTouch
  BY <1>34, <1>0 DEF SipTouch, sipKeeps, buffer, loop, lists, TouchedToo
<1>35. CASE SipRecheck
  <2>1. scur # i
    BY <1>35 DEF SipRecheck, Contention
  <2> QED
    BY <1>35, <2>1 DEF SipRecheck
<1>36. CASE SipSend
  BY <1>36, <1>0 DEF SipSend, sipKeeps, buffer, loop, lists
<1>37. CASE SipRemove
  BY <1>37 DEF SipRemove
<1>38. CASE UNCHANGED vars
  BY <1>38, <1>0 DEF vars, fate, sip, buffer, loop, lists, ramdisk
<1> QED
  BY <1>1, <1>2, <1>3, <1>4, <1>5, <1>6, <1>7, <1>8, <1>9, <1>10, <1>11, <1>12, <1>13, <1>14,
     <1>15, <1>16, <1>17, <1>18, <1>19, <1>20, <1>21, <1>22, <1>23, <1>24, <1>25, <1>26, <1>27,
     <1>28, <1>29, <1>30, <1>31, <1>32, <1>33, <1>34, <1>35, <1>36, <1>37, <1>38 DEF Next,
     World, Loop, Housekeeping, SendEvent, SipGoesOn, Losd

\* When LOSd is through with an event, the file is gone, or SIPd has touched it, or
\* no link leads to it.
LEMMA SendingEnds ==
    ASSUME TypeOK, Places, EventNext, [Next]_vars, NEW i \in 1 .. made, Sending(i)
    PROVE  Sending(i)' \/ i \notin file' \/ i \in sipd' \/ ~Offered(i)'
<1> DEFINE Ends == Sending(i)' \/ i \notin file' \/ i \in sipd' \/ ~Offered(i)'
<1>0. /\ Stage \in {"body", "parts"} /\ i = cur /\ i \notin link /\ i \in Items
      /\ after \in {"top", "check", "fill", "header", "parts"}
      /\ kind[i] \in Kinds /\ made \in Nat /\ i <= made
  BY LosAssumption DEF TypeOK, ItemsType, ControlType, Items, Sending, EventNext
<1>1. ASSUME NEW d \in Kinds, WriteForTelem(d) PROVE Ends
  BY <1>1, <1>0 DEF Sending, Stage, WriteForTelem, fate, sip, buffer, loop, lists
<1>2. CASE LosdDies
  <2>1. told' = made /\ list' = [d \in Kinds |-> Linked(d)] /\ UNCHANGED <<kind, link>>
    BY <1>2 DEF LosdDies, Exit, Restarted, ramdisk
  <2>2. i \notin list'[kind'[i]] /\ i \notin link' /\ ~(i > told')
    BY <1>0, <2>1 DEF Linked
  <2> QED
    BY <2>2 DEF Offered
<1>3. CASE SipDies
  BY <1>3, <1>0 DEF Sending, Stage, SipDies, buffer, fate, loop, lists, ramdisk
<1>4. CASE NextRound
  BY <1>4, <1>0 DEF Sending, Stage, NextRound, Round, mainKeeps, fate, sip, buffer, ramdisk,
     Fill
<1>5. CASE RefreshLinks
  BY <1>5, <1>0 DEF Sending, Stage, RefreshLinks, Round, mainKeeps, fate, sip, buffer, ramdisk,
     Fill
<1>6. CASE CheckLinks
  BY <1>6, <1>0 DEF Sending, Stage, CheckLinks, mainKeeps, fate, sip, buffer, ramdisk, loop
<1>7. CASE CheckNoLinks
  BY <1>7, <1>0 DEF Sending, Stage, CheckNoLinks, mainKeeps, fate, sip, buffer, ramdisk, loop,
     lists
<1>8. CASE TakeEvent
  BY <1>8, <1>0 DEF Sending, Stage, TakeEvent, mainKeeps, fate, sip, buffer, ramdisk,
     GetLastLink
<1>9. CASE NoEvent
  BY <1>9, <1>0 DEF Sending, Stage, NoEvent, mainKeeps, fate, sip, buffer, ramdisk, lists, Fill
<1>10. CASE MakeRoomForRequests
  BY <1>10, <1>0 DEF Sending, Stage, MakeRoomForRequests, hkKeeps, sip, buffer, Write
<1>11. CASE FillFrom
  BY <1>11, <1>0 DEF Sending, Stage, FillFrom, hkKeeps, sip, buffer
<1>12. CASE Filled
  BY <1>12, <1>0 DEF Sending, Stage, Filled, hkKeeps, sip, buffer, Write
<1>13. CASE TakeHk
  BY <1>13, <1>0 DEF Sending, Stage, TakeHk, hkKeeps, sip, buffer, GetLastLink
<1>14. CASE NoMoreHk
  BY <1>14, <1>0 DEF Sending, Stage, NoMoreHk, hkKeeps, sip, buffer
<1>15. CASE TouchHk
  BY <1>15, <1>0 DEF Sending, Stage, TouchHk, hkKeeps, sip, buffer, TouchedToo
<1>16. CASE ReadHk
  BY <1>16, <1>0 DEF Sending, Stage, ReadHk, hkKeeps, sip, Put, loop
<1>17. CASE CannotReadHk
  BY <1>17, <1>0 DEF Sending, Stage, CannotReadHk, hkKeeps, sip, buffer, RemoveFiles
<1>18. CASE UnlinkHk
  BY <1>18, <1>0 DEF Sending, Stage, UnlinkHk, hkKeeps, sip, buffer, RemoveFiles
<1>19. CASE CheckEvent
  BY <1>19, <1>0 DEF Sending, Stage, CheckEvent, eventKeeps, sip, lists, buffer, Fill
<1>20. CASE TouchEvent
  BY <1>20, <1>0 DEF Sending, Stage, TouchEvent, eventKeeps, sip, lists, buffer, TouchedToo
<1>21. CASE UnlinkEvent
  BY <1>21, <1>0 DEF Sending, Stage, UnlinkEvent, eventKeeps, sip, lists, buffer, Write
<1>22. CASE ReadHeader
  BY <1>22, <1>0 DEF Sending, Stage, ReadHeader, eventKeeps, sip, lists, Put, loop
<1>23. CASE CannotReadHeader
  BY <1>23, <1>0 DEF Sending, Stage, CannotReadHeader, eventKeeps, sip, lists, Fill,
     RemoveFiles, Put, loop
<1>24. CASE ReadBody
  BY <1>24, <1>0 DEF Sending, Stage, ReadBody, eventKeeps, sip, lists, buffer
<1>25. CASE CannotReadBody
  BY <1>0, <1>25 DEF CannotReadBody, RemoveFiles
<1>26. CASE MakeRoomForPart
  BY <1>26, <1>0 DEF Sending, Stage, MakeRoomForPart, eventKeeps, sip, lists, buffer, Write
<1>27. CASE SendPart
  BY <1>27, <1>0 DEF Sending, Stage, SendPart, eventKeeps, sip, lists, Put, loop
<1>28. CASE EventSent
  BY <1>0, <1>28 DEF EventSent, RemoveFiles, eventKeeps
<1>29. CASE PollFails
  <2>1. pc \in {"poll", "write"} /\ pc' = after /\ cur' = cur
    BY <1>29 DEF PollFails, Emptied, writeKeeps, loop
  <2> QED
    BY <1>0, <2>1 DEF Sending, Stage
<1>30. CASE PollReady
  BY <1>30, <1>0 DEF Sending, Stage, PollReady, writeKeeps, sip, loop, lists, ramdisk, buffer
<1>31. CASE WriteReturns
  <2>1. pc \in {"poll", "write"} /\ pc' = after /\ cur' = cur
    BY <1>31 DEF WriteReturns, Emptied, writeKeeps, loop
  <2> QED
    BY <1>0, <2>1 DEF Sending, Stage
<1>32. CASE WatchdogRaises
  <2>1. told' = made /\ list' = [d \in Kinds |-> Linked(d)] /\ UNCHANGED <<kind, link>>
    BY <1>32 DEF WatchdogRaises, Exit, Restarted, ramdisk
  <2>2. i \notin list'[kind'[i]] /\ i \notin link' /\ ~(i > told')
    BY <1>0, <2>1 DEF Linked
  <2> QED
    BY <2>2 DEF Offered
<1>33. ASSUME NEW j \in Items, SipTake(j) PROVE Ends
  BY <1>33, <1>0 DEF Sending, Stage, SipTake, sipKeeps, buffer, loop, lists
<1>34. CASE SipTouch
  BY <1>34, <1>0 DEF Sending, Stage, SipTouch, sipKeeps, buffer, loop, lists, TouchedToo
<1>35. CASE SipRecheck
  BY <1>35, <1>0 DEF Sending, Stage, SipRecheck, sipKeeps, buffer, loop, lists
<1>36. CASE SipSend
  BY <1>36, <1>0 DEF Sending, Stage, SipSend, sipKeeps, buffer, loop, lists
<1>37. CASE SipRemove
  BY <1>37, <1>0 DEF Sending, Stage, SipRemove, sipKeeps, buffer, loop, lists
<1>38. CASE UNCHANGED vars
  BY <1>38, <1>0 DEF Sending, Stage, vars, fate, sip, buffer, loop, lists, ramdisk
<1> QED
  BY <1>1, <1>2, <1>3, <1>4, <1>5, <1>6, <1>7, <1>8, <1>9, <1>10, <1>11, <1>12, <1>13, <1>14,
     <1>15, <1>16, <1>17, <1>18, <1>19, <1>20, <1>21, <1>22, <1>23, <1>24, <1>25, <1>26, <1>27,
     <1>28, <1>29, <1>30, <1>31, <1>32, <1>33, <1>34, <1>35, <1>36, <1>37, <1>38 DEF Next,
     World, Loop, Housekeeping, SendEvent, SipGoesOn, Losd

\* Housekeeping that has been read is removed, or contested, or the packet is lost.
LEMMA HkUnlinkEnds ==
    ASSUME TypeOK, Places, Contention, [Next]_vars, pc = "hkUnlink"
    PROVE  \/ pc' = "hkUnlink" /\ cur' = cur /\ wire' = wire
           \/ cur \notin file' \/ cur \in contested' \/ Stream' = wire
<1> DEFINE Ends == \/ pc' = "hkUnlink" /\ cur' = cur /\ wire' = wire
                   \/ cur \notin file' \/ cur \in contested' \/ Stream' = wire
<1>1. ASSUME NEW d \in Kinds, WriteForTelem(d) PROVE Ends
  BY <1>1 DEF WriteForTelem, fate, sip, buffer, loop, lists
<1>2. CASE LosdDies
  BY <1>2, StreamCut DEF LosdDies
<1>3. CASE SipDies
  BY <1>3 DEF SipDies, buffer, fate, loop, lists, ramdisk
<1>4. CASE NextRound
  BY <1>4 DEF NextRound, Round, mainKeeps, fate, sip, buffer, ramdisk, Fill
<1>5. CASE RefreshLinks
  BY <1>5 DEF RefreshLinks, Round, mainKeeps, fate, sip, buffer, ramdisk, Fill
<1>6. CASE CheckLinks
  BY <1>6 DEF CheckLinks, mainKeeps, fate, sip, buffer, ramdisk, loop
<1>7. CASE CheckNoLinks
  BY <1>7 DEF CheckNoLinks, mainKeeps, fate, sip, buffer, ramdisk, loop, lists
<1>8. CASE TakeEvent
  BY <1>8 DEF TakeEvent, mainKeeps, fate, sip, buffer, ramdisk, GetLastLink
<1>9. CASE NoEvent
  BY <1>9 DEF NoEvent, mainKeeps, fate, sip, buffer, ramdisk, lists, Fill
<1>10. CASE MakeRoomForRequests
  BY <1>10 DEF MakeRoomForRequests, hkKeeps, sip, buffer, Write
<1>11. CASE FillFrom
  BY <1>11 DEF FillFrom, hkKeeps, sip, buffer
<1>12. CASE Filled
  BY <1>12 DEF Filled, hkKeeps, sip, buffer, Write
<1>13. CASE TakeHk
  BY <1>13 DEF TakeHk, hkKeeps, sip, buffer, GetLastLink
<1>14. CASE NoMoreHk
  BY <1>14 DEF NoMoreHk, hkKeeps, sip, buffer
<1>15. CASE TouchHk
  BY <1>15 DEF TouchHk, hkKeeps, sip, buffer, TouchedToo
<1>16. CASE ReadHk
  BY <1>16 DEF ReadHk, hkKeeps, sip, Put, loop
<1>17. CASE CannotReadHk
  BY <1>17 DEF CannotReadHk, hkKeeps, sip, buffer, RemoveFiles
<1>18. CASE UnlinkHk
  BY <1>18 DEF UnlinkHk, Contention, RemoveFiles
<1>19. CASE CheckEvent
  BY <1>19 DEF CheckEvent, eventKeeps, sip, lists, buffer, Fill
<1>20. CASE TouchEvent
  BY <1>20 DEF TouchEvent, eventKeeps, sip, lists, buffer, TouchedToo
<1>21. CASE UnlinkEvent
  BY <1>21 DEF UnlinkEvent, eventKeeps, sip, lists, buffer, Write
<1>22. CASE ReadHeader
  BY <1>22 DEF ReadHeader, eventKeeps, sip, lists, Put, loop
<1>23. CASE CannotReadHeader
  BY <1>23 DEF CannotReadHeader, eventKeeps, sip, lists, Fill, RemoveFiles, Put, loop
<1>24. CASE ReadBody
  BY <1>24 DEF ReadBody, eventKeeps, sip, lists, buffer
<1>25. CASE CannotReadBody
  BY <1>25 DEF CannotReadBody, eventKeeps, sip, lists, buffer, Fill, RemoveFiles
<1>26. CASE MakeRoomForPart
  BY <1>26 DEF MakeRoomForPart, eventKeeps, sip, lists, buffer, Write
<1>27. CASE SendPart
  BY <1>27 DEF SendPart, eventKeeps, sip, lists, Put, loop
<1>28. CASE EventSent
  BY <1>28 DEF EventSent, eventKeeps, sip, lists, buffer, Fill, RemoveFiles
<1>29. CASE PollFails
  BY <1>29 DEF PollFails, writeKeeps, sip, loop, lists, ramdisk, Emptied
<1>30. CASE PollReady
  BY <1>30 DEF PollReady, writeKeeps, sip, loop, lists, ramdisk, buffer
<1>31. CASE WriteReturns
  BY <1>31 DEF WriteReturns, writeKeeps, sip, loop, lists, ramdisk, Emptied
<1>32. CASE WatchdogRaises
  BY <1>32, StreamCut DEF WatchdogRaises
<1>33. ASSUME NEW j \in Items, SipTake(j) PROVE Ends
  BY <1>33 DEF SipTake, sipKeeps, buffer, loop, lists
<1>34. CASE SipTouch
  BY <1>34 DEF SipTouch, sipKeeps, buffer, loop, lists, TouchedToo
<1>35. CASE SipRecheck
  BY <1>35 DEF SipRecheck, sipKeeps, buffer, loop, lists
<1>36. CASE SipSend
  BY <1>36 DEF SipSend, sipKeeps, buffer, loop, lists
<1>37. CASE SipRemove
  BY <1>37 DEF SipRemove, sipKeeps, buffer, loop, lists
<1>38. CASE UNCHANGED vars
  BY <1>38 DEF vars, fate, sip, buffer, loop, lists, ramdisk
<1> QED
  BY <1>1, <1>2, <1>3, <1>4, <1>5, <1>6, <1>7, <1>8, <1>9, <1>10, <1>11, <1>12, <1>13, <1>14,
     <1>15, <1>16, <1>17, <1>18, <1>19, <1>20, <1>21, <1>22, <1>23, <1>24, <1>25, <1>26, <1>27,
     <1>28, <1>29, <1>30, <1>31, <1>32, <1>33, <1>34, <1>35, <1>36, <1>37, <1>38 DEF Next,
     World, Loop, Housekeeping, SendEvent, SipGoesOn, Losd

\* The steps that change what has been put, or where.
LEMMA StreamStep ==
    [Next]_vars => \/ UNCHANGED <<wire, buf>> \/ Emptied \/ Exit
                   \/ ReadHk \/ ReadHeader \/ CannotReadHeader \/ SendPart
<1> SUFFICES ASSUME [Next]_vars PROVE
        \/ UNCHANGED <<wire, buf>> \/ Emptied \/ Exit
        \/ ReadHk \/ ReadHeader \/ CannotReadHeader \/ SendPart
  OBVIOUS
<1> DEFINE Changes == \/ UNCHANGED <<wire, buf>> \/ Emptied \/ Exit
                      \/ ReadHk \/ ReadHeader \/ CannotReadHeader \/ SendPart
<1>1. ASSUME NEW d \in Kinds, WriteForTelem(d) PROVE Changes
  BY <1>1 DEF WriteForTelem, fate, sip, buffer, loop, lists
<1>2. CASE LosdDies
  BY <1>2 DEF LosdDies
<1>3. CASE SipDies
  BY <1>3 DEF SipDies, buffer, fate, loop, lists, ramdisk
<1>4. CASE NextRound
  BY <1>4 DEF NextRound, Round, mainKeeps, fate, sip, buffer, ramdisk, Fill
<1>5. CASE RefreshLinks
  BY <1>5 DEF RefreshLinks, Round, mainKeeps, fate, sip, buffer, ramdisk, Fill
<1>6. CASE CheckLinks
  BY <1>6 DEF CheckLinks, mainKeeps, fate, sip, buffer, ramdisk, loop
<1>7. CASE CheckNoLinks
  BY <1>7 DEF CheckNoLinks, mainKeeps, fate, sip, buffer, ramdisk, loop, lists
<1>8. CASE TakeEvent
  BY <1>8 DEF TakeEvent, mainKeeps, fate, sip, buffer, ramdisk, GetLastLink
<1>9. CASE NoEvent
  BY <1>9 DEF NoEvent, mainKeeps, fate, sip, buffer, ramdisk, lists, Fill
<1>10. CASE MakeRoomForRequests
  BY <1>10 DEF MakeRoomForRequests, hkKeeps, sip, buffer, Write
<1>11. CASE FillFrom
  BY <1>11 DEF FillFrom, hkKeeps, sip, buffer
<1>12. CASE Filled
  BY <1>12 DEF Filled, hkKeeps, sip, buffer, Write
<1>13. CASE TakeHk
  BY <1>13 DEF TakeHk, hkKeeps, sip, buffer, GetLastLink
<1>14. CASE NoMoreHk
  BY <1>14 DEF NoMoreHk, hkKeeps, sip, buffer
<1>15. CASE TouchHk
  BY <1>15 DEF TouchHk, hkKeeps, sip, buffer, TouchedToo
<1>16. CASE ReadHk
  BY <1>16
<1>17. CASE CannotReadHk
  BY <1>17 DEF CannotReadHk, hkKeeps, sip, buffer, RemoveFiles
<1>18. CASE UnlinkHk
  BY <1>18 DEF UnlinkHk, hkKeeps, sip, buffer, RemoveFiles
<1>19. CASE CheckEvent
  BY <1>19 DEF CheckEvent, eventKeeps, sip, lists, buffer, Fill
<1>20. CASE TouchEvent
  BY <1>20 DEF TouchEvent, eventKeeps, sip, lists, buffer, TouchedToo
<1>21. CASE UnlinkEvent
  BY <1>21 DEF UnlinkEvent, eventKeeps, sip, lists, buffer, Write
<1>22. CASE ReadHeader
  BY <1>22
<1>23. CASE CannotReadHeader
  BY <1>23
<1>24. CASE ReadBody
  BY <1>24 DEF ReadBody, eventKeeps, sip, lists, buffer
<1>25. CASE CannotReadBody
  BY <1>25 DEF CannotReadBody, eventKeeps, sip, lists, buffer, Fill, RemoveFiles
<1>26. CASE MakeRoomForPart
  BY <1>26 DEF MakeRoomForPart, eventKeeps, sip, lists, buffer, Write
<1>27. CASE SendPart
  BY <1>27
<1>28. CASE EventSent
  BY <1>28 DEF EventSent, eventKeeps, sip, lists, buffer, Fill, RemoveFiles
<1>29. CASE PollFails
  BY <1>29 DEF PollFails
<1>30. CASE PollReady
  BY <1>30 DEF PollReady, writeKeeps, sip, loop, lists, ramdisk, buffer
<1>31. CASE WriteReturns
  BY <1>31 DEF WriteReturns
<1>32. CASE WatchdogRaises
  BY <1>32 DEF WatchdogRaises
<1>33. ASSUME NEW j \in Items, SipTake(j) PROVE Changes
  BY <1>33 DEF SipTake, sipKeeps, buffer, loop, lists
<1>34. CASE SipTouch
  BY <1>34 DEF SipTouch, sipKeeps, buffer, loop, lists, TouchedToo
<1>35. CASE SipRecheck
  BY <1>35 DEF SipRecheck, sipKeeps, buffer, loop, lists
<1>36. CASE SipSend
  BY <1>36 DEF SipSend, sipKeeps, buffer, loop, lists
<1>37. CASE SipRemove
  BY <1>37 DEF SipRemove, sipKeeps, buffer, loop, lists
<1>38. CASE UNCHANGED vars
  BY <1>38 DEF vars, fate, sip, buffer, loop, lists, ramdisk
<1> QED
  BY <1>1, <1>2, <1>3, <1>4, <1>5, <1>6, <1>7, <1>8, <1>9, <1>10, <1>11, <1>12, <1>13, <1>14,
     <1>15, <1>16, <1>17, <1>18, <1>19, <1>20, <1>21, <1>22, <1>23, <1>24, <1>25, <1>26, <1>27,
     <1>28, <1>29, <1>30, <1>31, <1>32, <1>33, <1>34, <1>35, <1>36, <1>37, <1>38 DEF Next,
     World, Loop, Housekeeping, SendEvent, SipGoesOn, Losd

-----------------------------------------------------------------------------
(* The order of the packets *)

\* A beginning of what is in order is in order, whatever is contested besides.
LEMMA OrderStays ==
    ASSUME NEW s \in Seq(Packets), NEW t \in Seq(Packets), Len(t) <= Len(s),
           \A n \in DOMAIN t : t[n] = s[n],
           NEW K, NEW L, NEW C, NEW D,
           \A n \in DOMAIN s : L[s[n][1]] = K[s[n][1]] /\ (s[n][1] \in C => s[n][1] \in D),
           Ordered(s, K, C)
    PROVE  Ordered(t, L, D)
<1>1. DOMAIN s = 1 .. Len(s) /\ DOMAIN t = 1 .. Len(t) /\ Len(s) \in Nat /\ Len(t) \in Nat
  BY LenProperties
<1> SUFFICES ASSUME NEW p \in DOMAIN t, NEW q \in DOMAIN t, p < q, t[p][1] = t[q][1],
                    Stale \notin {t[p][2], t[q][2]}
             PROVE  IF L[t[p][1]] = Event
                      THEN t[p][2] < t[q][2] /\ \A m \in p .. q : t[m][1] = t[p][1]
                      ELSE t[p][1] \in D
  BY DEF Ordered
<1>2. p \in DOMAIN s /\ q \in DOMAIN s /\ t[p] = s[p] /\ t[q] = s[q]
  BY <1>1
<1>3. IF K[s[p][1]] = Event
        THEN s[p][2] < s[q][2] /\ \A m \in p .. q : s[m][1] = s[p][1]
        ELSE s[p][1] \in C
  BY <1>2 DEF Ordered
<1>4. \A m \in p .. q : m \in DOMAIN t
  BY <1>1
<1> QED
  BY <1>2, <1>3, <1>4

\* A packet keeps the order if it is the next of an event whose packets are the
\* last ones, or contested, or the first of its item.
LEMMA OrderAppends ==
    ASSUME NEW s \in Seq(Packets), NEW e \in Packets, NEW K, NEW C, Ordered(s, K, C),
           e[2] # Stale => \A n \in DOMAIN s : s[n][1] = e[1] /\ s[n][2] # Stale =>
               IF K[e[1]] = Event
                 THEN s[n][2] < e[2] /\ \A m \in n .. Len(s) : s[m][1] = e[1]
                 ELSE e[1] \in C
    PROVE  Ordered(Append(s, e), K, C)
<1> DEFINE t == Append(s, e)
<1>1. /\ t \in Seq(Packets) /\ Len(t) = Len(s) + 1
      /\ \A n \in 1 .. Len(s) : t[n] = s[n]
      /\ t[Len(s) + 1] = e
  BY AppendProperties
<1>2. /\ DOMAIN t = 1 .. Len(s) + 1 /\ DOMAIN s = 1 .. Len(s) /\ Len(s) \in Nat
  BY <1>1, LenProperties
<1> HIDE DEF t
<1>3. SUFFICES Ordered(t, K, C)
  BY DEF t
<1>4. SUFFICES ASSUME NEW p \in DOMAIN t, NEW q \in DOMAIN t, p < q, t[p][1] = t[q][1],
                      Stale \notin {t[p][2], t[q][2]}
               PROVE  IF K[t[p][1]] = Event
                        THEN t[p][2] < t[q][2] /\ \A m \in p .. q : t[m][1] = t[p][1]
                        ELSE t[p][1] \in C
  BY DEF Ordered
<1>5. p \in DOMAIN s /\ t[p] = s[p]
  BY <1>1, <1>2, <1>4
<1>6. CASE q \in DOMAIN s
  <2>1. t[q] = s[q] /\ \A m \in p .. q : m \in DOMAIN s /\ t[m] = s[m]
    BY <1>1, <1>2, <1>6
  <2>2. IF K[s[p][1]] = Event
          THEN s[p][2] < s[q][2] /\ \A m \in p .. q : s[m][1] = s[p][1]
          ELSE s[p][1] \in C
    BY <1>4, <1>5, <1>6, <2>1 DEF Ordered
  <2> QED
    BY <1>5, <2>1, <2>2
<1>7. CASE q = Len(s) + 1
  <2>1. t[q] = e /\ s[p][1] = e[1] /\ s[p][2] # Stale /\ e[2] # Stale
    BY <1>1, <1>4, <1>5, <1>7
  <2>2. IF K[e[1]] = Event
          THEN s[p][2] < e[2] /\ \A m \in p .. Len(s) : s[m][1] = e[1]
          ELSE e[1] \in C
    BY <1>5, <2>1
  <2>3. \A m \in p .. q : t[m] = e \/ (m \in p .. Len(s) /\ t[m] = s[m])
    BY <1>1, <1>2, <1>5, <1>7
  <2> QED
    BY <1>5, <2>1, <2>2, <2>3
<1> QED
  BY <1>2, <1>6, <1>7

\* The items of the packets put are items written, with their kinds.
LEMMA StreamItems ==
    ASSUME TypeOK, Lasting, \A n \in DOMAIN Stream : NotAgain(n)
    PROVE  \A n \in DOMAIN Stream :
               /\ kind'[Stream[n][1]] = kind[Stream[n][1]]
               /\ Stream[n][1] \in contested => Stream[n][1] \in contested'
  BY DEF Lasting, NotAgain

\* The same when nothing is put, or the buffer is lost.
LEMMA OrderUnput ==
    ASSUME TypeOK, TypeOK', Lasting, \A n \in DOMAIN Stream : NotAgain(n),
           Ordered(Stream, kind, contested), Stream' = Stream \/ Stream' = wire
    PROVE  Ordered(Stream', kind', contested')
<1>1. /\ Stream \in Seq(Packets) /\ wire \in Seq(Packets)
      /\ Len(wire) <= Len(Stream) /\ \A n \in DOMAIN wire : wire[n] = Stream[n]
      /\ Len(Stream) <= Len(Stream)
  BY StreamType DEF TypeOK, BufferType
<1>2. PICK t : t = Stream'
  OBVIOUS
<1>3. t \in Seq(Packets) /\ Len(t) <= Len(Stream) /\ \A n \in DOMAIN t : t[n] = Stream[n]
  BY <1>1, <1>2
<1>4. PICK s : s = Stream
  OBVIOUS
<1>5. \A n \in DOMAIN s : kind'[s[n][1]] = kind[s[n][1]] /\ (s[n][1] \in contested => s[n][1] \in contested')
  BY <1>4, StreamItems
<1>6. Ordered(t, kind', contested')
  BY <1>1, <1>3, <1>4, <1>5, OrderStays
<1> QED
  BY <1>2, <1>6

\* Whatever is put keeps the order.
LEMMA OrderStep ==
    ASSUME TypeOK, TypeOK', Places, Sorted, Lasting, WireInv, [Next]_vars
    PROVE  Ordered(Stream, kind, contested)'
<1>0. /\ Ordered(Stream, kind, contested) /\ EventNext /\ \A n \in DOMAIN Stream : NotAgain(n)
      /\ Stream \in Seq(Packets) /\ DOMAIN Stream = 1 .. Len(Stream) /\ 1 .. made \subseteq Items
  BY StreamType, LosAssumption DEF WireInv, TypeOK, ItemsType, Items
<1>1. SUFFICES Ordered(Stream', kind', contested')
  OBVIOUS
<1>2. CASE UNCHANGED <<wire, buf>>
  <2>1. Stream' = Stream
    BY <1>2 DEF Stream
  <2> QED
    BY <1>0, <2>1, OrderUnput
<1>3. CASE Emptied
  <2>1. Stream' = Stream
    BY <1>3, StreamWritten DEF Emptied
  <2> QED
    BY <1>0, <2>1, OrderUnput
<1>4. CASE Exit
  BY <1>0, <1>4, StreamCut, OrderUnput
<1>5. ASSUME NEW e \in Packets, Stream' = Append(Stream, e), UNCHANGED <<kind, contested>>,
             e[2] # Stale => \A n \in DOMAIN Stream : Stream[n][1] = e[1] /\ Stream[n][2] # Stale =>
                 IF kind[e[1]] = Event
                   THEN Stream[n][2] < e[2] /\ \A m \in n .. Len(Stream) : Stream[m][1] = e[1]
                   ELSE e[1] \in contested
      PROVE  Ordered(Stream', kind', contested')
  <2>1. PICK s : s = Stream
    OBVIOUS
  <2>2. /\ s \in Seq(Packets) /\ Ordered(s, kind, contested)
        /\ e[2] # Stale => \A n \in DOMAIN s : s[n][1] = e[1] /\ s[n][2] # Stale =>
              IF kind[e[1]] = Event
                THEN s[n][2] < e[2] /\ \A m \in n .. Len(s) : s[m][1] = e[1]
                ELSE e[1] \in contested
    BY <1>0, <1>5, <2>1
  <2>3. Ordered(Append(s, e), kind, contested)
    BY <2>2, OrderAppends
  <2> QED
    BY <1>5, <2>1, <2>3
<1>6. CASE ReadHk
  <2>1. PICK k \in Sizes(hkInd) : Put(<<cur, 0>>, k)
    BY <1>6 DEF ReadHk
  <2>2. cur \in 1 .. made /\ hkInd \in Dirs /\ kind[cur] = hkInd /\ pc = "hkRead" /\ cur \in file
        /\ UNCHANGED <<wire, kind, contested>>
    BY <1>6 DEF ReadHk, hkKeeps, Places, Sorted, Stage, AtItem
  <2>3. kind[cur] # Event /\ k \in Nat
    BY <2>2, LosAssumption, DirsAreKinds DEF Dirs, Sizes
  <2>4. <<cur, 0>> \in Packets
    BY <1>0, <2>2, LosAssumption DEF Packets, Stale
  <2>5. Stream' = Append(Stream, <<cur, 0>>)
    BY <2>1, <2>2, <2>3, <2>4, StreamAppends
  <2>6. \A n \in DOMAIN Stream : Stream[n][1] = cur /\ Stream[n][2] # Stale => cur \in contested
    BY <1>0, <2>2, <2>3 DEF NotAgain
  <2> QED
    BY <1>5, <2>2, <2>3, <2>4, <2>5, <2>6
<1>7. CASE ReadHeader
  <2>1. /\ Put(<<cur, 0>>, HeaderSize) /\ cur \in 1 .. made /\ cur \in file /\ Stage = "header"
        /\ UNCHANGED <<wire, kind, contested>>
    BY <1>7 DEF ReadHeader, eventKeeps, Places, Stage, AtItem
  <2>2. <<cur, 0>> \in Packets /\ HeaderSize \in Nat
    BY <1>0, <2>1, LosAssumption DEF Packets, Stale
  <2>3. Stream' = Append(Stream, <<cur, 0>>)
    BY <2>1, <2>2, StreamAppends
  <2>4. \A n \in DOMAIN Stream : ~(Stream[n][1] = cur /\ Stream[n][2] # Stale)
    BY <1>0, <2>1 DEF EventNext, HasPut
  <2> QED
    BY <1>5, <2>1, <2>2, <2>3, <2>4
<1>8. CASE CannotReadHeader
  <2>1. /\ Put(<<cur, Stale>>, HeaderSize) /\ cur \in 1 .. made
        /\ UNCHANGED <<wire, kind, contested>>
    BY <1>8 DEF CannotReadHeader, eventKeeps, Places, Stage, AtItem
  <2>2. <<cur, Stale>> \in Packets /\ HeaderSize \in Nat
    BY <1>0, <2>1, LosAssumption DEF Packets, Stale
  <2>3. Stream' = Append(Stream, <<cur, Stale>>)
    BY <2>1, <2>2, StreamAppends
  <2> QED
    BY <1>5, <2>1, <2>2, <2>3
<1>9. CASE SendPart
  <2>1. /\ Put(<<cur, part>>, PartSize) /\ cur \in 1 .. made /\ part \in 0 .. NumParts
        /\ Stage = "parts" /\ UNCHANGED <<wire, kind, contested>>
    BY <1>9, LosAssumption DEF SendPart, eventKeeps, Places, Stage, AtItem, TypeOK, ControlType
  <2>2. <<cur, part>> \in Packets /\ PartSize \in Nat
    BY <1>0, <2>1, LosAssumption DEF Packets, Stale
  <2>3. Stream' = Append(Stream, <<cur, part>>)
    BY <2>1, <2>2, StreamAppends
  <2>4. kind[cur] = Event /\ EndsWith(Stream, cur, part)
    BY <1>0, <2>1 DEF EventNext
  <2>5. \A n \in DOMAIN Stream : Stream[n][1] = cur /\ Stream[n][2] # Stale =>
           Stream[n][2] < part /\ \A m \in n .. Len(Stream) : Stream[m][1] = cur
    BY <2>4 DEF EndsWith
  <2> QED
    BY <1>5, <2>1, <2>2, <2>3, <2>4, <2>5
<1> QED
  BY <1>2, <1>3, <1>4, <1>6, <1>7, <1>8, <1>9, StreamStep

-----------------------------------------------------------------------------
(* No packet comes again *)

\* What has been put stays so.
LEMMA OldNotAgain ==
    ASSUME TypeOK, ItemsType', Places, Lasting, EventNext, Contention, [Next]_vars,
           NEW n \in DOMAIN Stream, NotAgain(n), Stream'[n] = Stream[n], n \in DOMAIN Stream'
    PROVE  NotAgain(n)'
<1> DEFINE i == Stream[n][1]
<1>1. /\ i \in 1 .. made /\ i \in 1 .. made' /\ Stream'[n][1] = i
      /\ kind'[i] = kind[i] /\ (i \notin file => i \notin file')
      /\ (i \in contested => i \in contested')
  BY DEF NotAgain, Lasting, TypeOK, ItemsType
<1>2. PICK j \in 1 .. made : j = i
  BY <1>1
<1> HIDE DEF i
<1>3. SUFFICES ASSUME Stream[n][2] # Stale
               PROVE \/ j \notin file'
                     \/ kind'[j] = Event /\ (j \in sipd' \/ ~Offered(j)' \/ Sending(j)')
                     \/ kind'[j] # Event /\ (j \in contested' \/ (pc' = "hkUnlink" /\ j = cur' /\ n > Len(wire')))
  BY <1>1, <1>2 DEF NotAgain
<1>4. \/ j \notin file
      \/ kind[j] = Event /\ (j \in sipd \/ ~Offered(j) \/ Sending(j))
      \/ kind[j] # Event /\ (j \in contested \/ (pc = "hkUnlink" /\ j = cur /\ n > Len(wire)))
  BY <1>2, <1>3 DEF NotAgain, i
<1>5. CASE j \notin file \/ j \in contested
  BY <1>1, <1>2, <1>4, <1>5, TouchStays, NotOffered, SendingEnds
<1>6. CASE kind[j] = Event /\ j \in sipd
  BY <1>1, <1>2, <1>6, TouchStays
<1>7. CASE kind[j] = Event /\ ~Offered(j)
  BY <1>1, <1>2, <1>7, NotOffered
<1>8. CASE kind[j] = Event /\ Sending(j)
  BY <1>1, <1>2, <1>8, SendingEnds
<1>9. CASE kind[j] # Event /\ pc = "hkUnlink" /\ j = cur /\ n > Len(wire)
  <2>1. CASE Stream' = wire
    <3>1. n \in 1 .. Len(wire) /\ Len(wire) \in Nat
      BY <2>1, StreamType
    <3> QED
      BY <1>9, <3>1
  <2> QED
    BY <1>1, <1>2, <1>9, <2>1, HkUnlinkEnds
<1> QED
  BY <1>4, <1>5, <1>6, <1>7, <1>8, <1>9

\* What is put does not come again either.
LEMMA NewNotAgain ==
    ASSUME TypeOK, ItemsType', Places, Sorted, EventNext, [Next]_vars, NEW e \in Packets,
           Stream' = Append(Stream, e), ReadHk \/ ReadHeader \/ CannotReadHeader \/ SendPart,
           e[1] = cur, CannotReadHeader => e[2] = Stale, NEW n, n = Len(Stream) + 1
    PROVE  NotAgain(n)'
<1>1. Stream \in Seq(Packets) /\ Stream'[n] = e /\ n > Len(wire)
  BY StreamType, AppendProperties
<1>2. cur \in 1 .. made /\ made' = made /\ kind' = kind /\ wire' = wire
  BY DEF ReadHk, ReadHeader, CannotReadHeader, SendPart, hkKeeps, eventKeeps, Places, Stage, AtItem
<1>4. CASE ReadHk
  <2>1. pc' = "hkUnlink" /\ cur' = cur /\ kind[cur] # Event
    BY <1>4, DirsAreKinds DEF ReadHk, Sorted, Places
  <2> QED
    BY <1>1, <1>2, <2>1 DEF NotAgain
<1>5. CASE ReadHeader
  <2>1. pc' = "body" /\ cur' = cur /\ kind[cur] = Event
    BY <1>5 DEF ReadHeader, EventNext, Stage
  <2> QED
    BY <1>1, <1>2, <2>1 DEF NotAgain, Sending, Stage
<1>6. CASE CannotReadHeader
  BY <1>1, <1>2, <1>6 DEF NotAgain
<1>7. CASE SendPart
  <2>1. pc' = "parts" /\ cur' = cur /\ kind[cur] = Event
    BY <1>7 DEF SendPart, EventNext, Stage
  <2> QED
    BY <1>1, <1>2, <2>1 DEF NotAgain, Sending, Stage
<1> QED
  BY <1>4, <1>5, <1>6, <1>7

-----------------------------------------------------------------------------
(* The packets of an event at the end of what is put *)

\* The first packet of an item is the last one.
LEMMA EndsAppended ==
    ASSUME NEW s \in Seq(Packets), NEW i, <<i, 0>> \in Packets,
           \A n \in DOMAIN s : ~(s[n][1] = i /\ s[n][2] # Stale)
    PROVE  EndsWith(Append(s, <<i, 0>>), i, 1)
<1> DEFINE t == Append(s, <<i, 0>>)
<1>1. /\ t \in Seq(Packets) /\ Len(t) = Len(s) + 1
      /\ \A n \in 1 .. Len(s) : t[n] = s[n]
      /\ t[Len(s) + 1] = <<i, 0>>
  BY AppendProperties
<1>2. /\ DOMAIN t = 1 .. Len(s) + 1 /\ DOMAIN s = 1 .. Len(s) /\ Len(s) \in Nat
  BY <1>1, LenProperties
<1> HIDE DEF t
<1>3. ASSUME NEW p \in DOMAIN t, t[p][1] = i, t[p][2] # Stale PROVE p = Len(s) + 1
  BY <1>1, <1>2, <1>3
<1>4. EndsWith(t, i, 1)
  BY <1>1, <1>2, <1>3 DEF EndsWith
<1> QED
  BY <1>4 DEF t

\* With the next part they stay at the end.
LEMMA EndsContinued ==
    ASSUME NEW s \in Seq(Packets), NEW i, NEW k \in Nat, <<i, k>> \in Packets, EndsWith(s, i, k)
    PROVE  EndsWith(Append(s, <<i, k>>), i, k + 1)
<1> DEFINE t == Append(s, <<i, k>>)
<1>1. /\ t \in Seq(Packets) /\ Len(t) = Len(s) + 1
      /\ \A n \in 1 .. Len(s) : t[n] = s[n]
      /\ t[Len(s) + 1] = <<i, k>>
  BY AppendProperties
<1>2. /\ DOMAIN t = 1 .. Len(s) + 1 /\ DOMAIN s = 1 .. Len(s) /\ Len(s) \in Nat
  BY <1>1, LenProperties
<1> HIDE DEF t
<1>3. SUFFICES ASSUME NEW p \in DOMAIN t, t[p][1] = i, t[p][2] # Stale
               PROVE  t[p][2] < k + 1 /\ \A m \in p .. Len(t) : t[m][1] = i
  BY DEF EndsWith, t
<1>4. CASE p \in DOMAIN s
  <2>1. t[p] = s[p] /\ s[p] \in Packets
    BY <1>1, <1>2, <1>4
  <2>2. s[p][2] < k /\ \A m \in p .. Len(s) : s[m][1] = i
    BY <1>3, <1>4, <2>1 DEF EndsWith
  <2>3. s[p][2] \in Int
    BY <2>1, LosAssumption DEF Packets, Stale
  <2>4. \A m \in p .. Len(t) : (m \in p .. Len(s) /\ t[m] = s[m]) \/ t[m] = <<i, k>>
    BY <1>1, <1>2, <1>4
  <2> QED
    BY <2>1, <2>2, <2>3, <2>4
<1>5. CASE p = Len(s) + 1
  BY <1>1, <1>2, <1>5
<1> QED
  BY <1>2, <1>4, <1>5

\* No step makes a packet that has been put come again.
LEMMA NotAgainStep ==
    ASSUME TypeOK, TypeOK', Places, Sorted, Lasting, WireInv, [Next]_vars
    PROVE  (\A n \in DOMAIN Stream : NotAgain(n))'
<1>a. /\ EventNext /\ Contention /\ \A n \in DOMAIN Stream : NotAgain(n)
      /\ ItemsType' /\ 1 .. made \subseteq Items
  BY LosAssumption DEF WireInv, TypeOK, ItemsType, Items
<1>b. /\ Stream \in Seq(Packets) /\ DOMAIN Stream = 1 .. Len(Stream) /\ Len(Stream) \in Nat
      /\ \A n \in DOMAIN wire : n \in DOMAIN Stream /\ wire[n] = Stream[n]
  BY StreamType
<1>0. /\ EventNext /\ Contention /\ \A n \in DOMAIN Stream : NotAgain(n)
      /\ ItemsType' /\ 1 .. made \subseteq Items /\ Stream \in Seq(Packets)
      /\ DOMAIN Stream = 1 .. Len(Stream) /\ Len(Stream) \in Nat
      /\ \A n \in DOMAIN wire : n \in DOMAIN Stream /\ wire[n] = Stream[n]
  BY <1>a, <1>b
<1>1. SUFFICES ASSUME NEW n \in DOMAIN Stream' PROVE NotAgain(n)'
  OBVIOUS
<1>2. ASSUME n \in DOMAIN Stream, Stream'[n] = Stream[n] PROVE NotAgain(n)'
  BY <1>0, <1>2, OldNotAgain
<1>3. CASE UNCHANGED <<wire, buf>> \/ Emptied
  <2>1. Stream' = Stream
    BY <1>3, StreamWritten DEF Emptied, Stream
  <2> QED
    BY <1>2, <2>1
<1>4. CASE Exit
  <2>1. Stream' = Stream \/ Stream' = wire
    BY <1>4, StreamCut
  <2> QED
    BY <1>0, <1>2, <2>1
<1>5. ASSUME NEW e \in Packets, Stream' = Append(Stream, e), e[1] = cur,
             ReadHk \/ ReadHeader \/ CannotReadHeader \/ SendPart,
             CannotReadHeader => e[2] = Stale
      PROVE  NotAgain(n)'
  <2>1. /\ n \in 1 .. Len(Stream) + 1
        /\ \A m \in 1 .. Len(Stream) : Stream'[m] = Stream[m]
    <3>1. PICK s \in Seq(Packets) : s = Stream
      BY <1>0
    <3>2. /\ Append(s, e) \in Seq(Packets) /\ Len(Append(s, e)) = Len(s) + 1
          /\ \A m \in 1 .. Len(s) : Append(s, e)[m] = s[m]
      BY AppendProperties
    <3>3. DOMAIN Append(s, e) = 1 .. Len(s) + 1
      BY <3>2, LenProperties
    <3> QED
      BY <1>5, <3>1, <3>2, <3>3
  <2>2. CASE n \in 1 .. Len(Stream)
    BY <1>0, <1>2, <2>1, <2>2
  <2>3. CASE n = Len(Stream) + 1
    BY <1>0, <1>5, <2>3, NewNotAgain
  <2> QED
    BY <1>0, <2>1, <2>2, <2>3
<1>6. ASSUME ReadHk \/ ReadHeader \/ CannotReadHeader \/ SendPart PROVE cur \in Items /\ wire' = wire
  BY <1>0, <1>6 DEF ReadHk, ReadHeader, CannotReadHeader, SendPart, hkKeeps, eventKeeps, Places,
     Stage, AtItem
<1>7. CASE ReadHk
  <2>1. PICK k \in Sizes(hkInd) : Put(<<cur, 0>>, k)
    BY <1>7 DEF ReadHk
  <2>2. k \in Nat /\ ~CannotReadHeader
    BY <1>7, LosAssumption DEF ReadHk, CannotReadHeader, Places, Sizes, Dirs
  <2>3. <<cur, 0>> \in Packets
    BY <1>6, <1>7, LosAssumption DEF Packets, Stale
  <2>4. Stream' = Append(Stream, <<cur, 0>>)
    BY <1>6, <1>7, <2>1, <2>2, <2>3, StreamAppends
  <2> QED
    BY <1>5, <1>7, <2>2, <2>3, <2>4
<1>8. CASE ReadHeader
  <2>1. <<cur, 0>> \in Packets /\ HeaderSize \in Nat /\ ~CannotReadHeader
    BY <1>6, <1>8, LosAssumption DEF Packets, Stale, ReadHeader, CannotReadHeader
  <2>2. Stream' = Append(Stream, <<cur, 0>>)
    BY <1>6, <1>8, <2>1, StreamAppends DEF ReadHeader
  <2> QED
    BY <1>5, <1>8, <2>1, <2>2
<1>9. CASE CannotReadHeader
  <2>1. <<cur, Stale>> \in Packets /\ HeaderSize \in Nat
    BY <1>6, <1>9, LosAssumption DEF Packets, Stale
  <2>2. Stream' = Append(Stream, <<cur, Stale>>)
    BY <1>6, <1>9, <2>1, StreamAppends DEF CannotReadHeader
  <2> QED
    BY <1>5, <1>9, <2>1, <2>2
<1>10. CASE SendPart
  <2>1. part \in 0 .. Stale /\ PartSize \in Nat /\ ~CannotReadHeader
    BY <1>10, LosAssumption DEF SendPart, CannotReadHeader, TypeOK, ControlType, Stale
  <2>2. <<cur, part>> \in Packets
    BY <1>6, <1>10, <2>1 DEF Packets
  <2>3. Stream' = Append(Stream, <<cur, part>>)
    BY <1>6, <1>10, <2>1, <2>2, StreamAppends DEF SendPart
  <2> QED
    BY <1>5, <1>10, <2>1, <2>2, <2>3
<1> QED
  BY <1>3, <1>4, <1>7, <1>8, <1>9, <1>10, StreamStep

-----------------------------------------------------------------------------
(* The event that is sent *)

\* How LOSd gets on with an event, the writes in between included.
LEMMA EventSteps ==
    ASSUME TypeOK, [Next]_vars
    PROVE  /\ Stage' \in {"evCheck", "evTouch", "evLink", "header", "body", "parts"} =>
                \/ TakeEvent
                \/ cur' = cur /\ Stage \in {"evCheck", "evTouch", "evLink", "header", "body", "parts"}
           /\ pc' = "evCheck" =>
                TakeEvent \/ (cur' = cur /\ pc = "evCheck" /\ UNCHANGED <<wire, buf>>)
           /\ Stage' \in {"evTouch", "evLink", "header"} =>
                /\ cur' = cur /\ (UNCHANGED <<wire, buf>> \/ Emptied)
                /\ \/ pc = "evCheck" /\ cur \notin sipd
                   \/ Stage \in {"evTouch", "evLink", "header"}
           /\ Stage' \in {"header", "body", "parts"} =>
                cur' = cur /\ (cur \notin link' \/ Stage \in {"header", "body", "parts"})
           /\ Stage' \in {"body", "parts"} =>
                \/ ReadHeader \/ SendPart
                \/ /\ cur' = cur /\ part' = part /\ Stage \in {"body", "parts"}
                   /\ UNCHANGED <<wire, buf>> \/ Emptied
<1> DEFINE Goes ==
       /\ Stage' \in {"evCheck", "evTouch", "evLink", "header", "body", "parts"} =>
            \/ TakeEvent
            \/ cur' = cur /\ Stage \in {"evCheck", "evTouch", "evLink", "header", "body", "parts"}
       /\ pc' = "evCheck" =>
            TakeEvent \/ (cur' = cur /\ pc = "evCheck" /\ UNCHANGED <<wire, buf>>)
       /\ Stage' \in {"evTouch", "evLink", "header"} =>
            /\ cur' = cur /\ (UNCHANGED <<wire, buf>> \/ Emptied)
            /\ \/ pc = "evCheck" /\ cur \notin sipd
               \/ Stage \in {"evTouch", "evLink", "header"}
       /\ Stage' \in {"header", "body", "parts"} =>
            cur' = cur /\ (cur \notin link' \/ Stage \in {"header", "body", "parts"})
       /\ Stage' \in {"body", "parts"} =>
            \/ ReadHeader \/ SendPart
            \/ /\ cur' = cur /\ part' = part /\ Stage \in {"body", "parts"}
               /\ UNCHANGED <<wire, buf>> \/ Emptied
<1>0. /\ after \in {"top", "check", "fill", "header", "parts"} /\ back \in {"top", "check"}
  BY DEF TypeOK, ControlType
<1>1. ASSUME NEW d \in Kinds, WriteForTelem(d) PROVE Goes
  BY <1>1, <1>0 DEF Stage, WriteForTelem, fate, sip, buffer, loop, lists
<1>2. CASE LosdDies
  <2>1. pc' = "poll" /\ after' = "top"
    BY <1>2 DEF LosdDies, Exit, Restarted
  <2> QED
    BY <2>1 DEF Stage
<1>3. CASE SipDies
  BY <1>3, <1>0 DEF Stage, SipDies, buffer, fate, loop, lists, ramdisk
<1>4. CASE NextRound
  BY <1>4, <1>0 DEF Stage, NextRound, Round, mainKeeps, fate, sip, buffer, ramdisk, Fill
<1>5. CASE RefreshLinks
  BY <1>5, <1>0 DEF Stage, RefreshLinks, Round, mainKeeps, fate, sip, buffer, ramdisk, Fill
<1>6. CASE CheckLinks
  BY <1>6, <1>0 DEF Stage, CheckLinks, mainKeeps, fate, sip, buffer, ramdisk, loop
<1>7. CASE CheckNoLinks
  BY <1>7, <1>0 DEF Stage, CheckNoLinks, mainKeeps, fate, sip, buffer, ramdisk, loop, lists
<1>8. CASE TakeEvent
  <2>1. pc' = "evCheck"
    BY <1>8 DEF TakeEvent
  <2> QED
    BY <1>8, <2>1 DEF Stage
<1>9. CASE NoEvent
  BY <1>9, <1>0 DEF Stage, NoEvent, mainKeeps, fate, sip, buffer, ramdisk, lists, Fill
<1>10. CASE MakeRoomForRequests
  BY <1>10, <1>0 DEF Stage, MakeRoomForRequests, hkKeeps, sip, buffer, Write
<1>11. CASE FillFrom
  BY <1>11, <1>0 DEF Stage, FillFrom, hkKeeps, sip, buffer
<1>12. CASE Filled
  BY <1>12, <1>0 DEF Stage, Filled, hkKeeps, sip, buffer, Write
<1>13. CASE TakeHk
  BY <1>13, <1>0 DEF Stage, TakeHk, hkKeeps, sip, buffer, GetLastLink
<1>14. CASE NoMoreHk
  BY <1>14, <1>0 DEF Stage, NoMoreHk, hkKeeps, sip, buffer
<1>15. CASE TouchHk
  BY <1>15, <1>0 DEF Stage, TouchHk, hkKeeps, sip, buffer, TouchedToo
<1>16. CASE ReadHk
  BY <1>16, <1>0 DEF Stage, ReadHk, hkKeeps, sip, Put, loop
<1>17. CASE CannotReadHk
  BY <1>17, <1>0 DEF Stage, CannotReadHk, hkKeeps, sip, buffer, RemoveFiles
<1>18. CASE UnlinkHk
  BY <1>18, <1>0 DEF Stage, UnlinkHk, hkKeeps, sip, buffer, RemoveFiles
<1>19. CASE CheckEvent
  BY <1>19, <1>0 DEF Stage, CheckEvent, eventKeeps, sip, lists, buffer, Fill
<1>20. CASE TouchEvent
  BY <1>20, <1>0 DEF Stage, TouchEvent, eventKeeps, sip, lists, buffer, TouchedToo
<1>21. CASE UnlinkEvent
  BY <1>21, <1>0 DEF Stage, UnlinkEvent, eventKeeps, sip, lists, buffer, Write
<1>22. CASE ReadHeader
  <2>1. /\ pc \in {"header", "parts"} /\ pc' \in {"body", "parts"} /\ cur' = cur
    BY <1>22 DEF ReadHeader
  <2> QED
    BY <1>22, <2>1 DEF Stage
<1>23. CASE CannotReadHeader
  BY <1>23, <1>0 DEF Stage, CannotReadHeader, eventKeeps, sip, lists, Fill, RemoveFiles, Put,
     loop
<1>24. CASE ReadBody
  BY <1>24, <1>0 DEF Stage, ReadBody, eventKeeps, sip, lists, buffer
<1>25. CASE CannotReadBody
  BY <1>25, <1>0 DEF Stage, CannotReadBody, eventKeeps, sip, lists, buffer, Fill, RemoveFiles
<1>26. CASE MakeRoomForPart
  BY <1>26, <1>0 DEF Stage, MakeRoomForPart, eventKeeps, sip, lists, buffer, Write
<1>27. CASE SendPart
  <2>1. /\ pc \in {"header", "parts"} /\ pc' \in {"body", "parts"} /\ cur' = cur
    BY <1>27 DEF SendPart
  <2> QED
    BY <1>27, <2>1 DEF Stage
<1>28. CASE EventSent
  BY <1>28, <1>0 DEF Stage, EventSent, eventKeeps, sip, lists, buffer, Fill, RemoveFiles
<1>29. CASE PollFails
  <2>1. pc \in {"poll", "write"} /\ pc' = after /\ cur' = cur /\ part' = part /\ Emptied
    BY <1>29 DEF PollFails, Emptied, writeKeeps, loop
  <2> QED
    BY <1>0, <2>1 DEF Stage
<1>30. CASE PollReady
  BY <1>30, <1>0 DEF Stage, PollReady, writeKeeps, sip, loop, lists, ramdisk, buffer
<1>31. CASE WriteReturns
  <2>1. pc \in {"poll", "write"} /\ pc' = after /\ cur' = cur /\ part' = part /\ Emptied
    BY <1>31 DEF WriteReturns, Emptied, writeKeeps, loop
  <2> QED
    BY <1>0, <2>1 DEF Stage
<1>32. CASE WatchdogRaises
  <2>1. pc' = "poll" /\ after' = "top"
    BY <1>32 DEF WatchdogRaises, Exit, Restarted
  <2> QED
    BY <2>1 DEF Stage
<1>33. ASSUME NEW j \in Items, SipTake(j) PROVE Goes
  BY <1>33, <1>0 DEF Stage, SipTake, sipKeeps, buffer, loop, lists
<1>34. CASE SipTouch
  BY <1>34, <1>0 DEF Stage, SipTouch, sipKeeps, buffer, loop, lists, TouchedToo
<1>35. CASE SipRecheck
  BY <1>35, <1>0 DEF Stage, SipRecheck, sipKeeps, buffer, loop, lists
<1>36. CASE SipSend
  BY <1>36, <1>0 DEF Stage, SipSend, sipKeeps, buffer, loop, lists
<1>37. CASE SipRemove
  BY <1>37, <1>0 DEF Stage, SipRemove, sipKeeps, buffer, loop, lists
<1>38. CASE UNCHANGED vars
  BY <1>38, <1>0 DEF Stage, vars, fate, sip, buffer, loop, lists, ramdisk
<1> QED
  BY <1>1, <1>2, <1>3, <1>4, <1>5, <1>6, <1>7, <1>8, <1>9, <1>10, <1>11, <1>12, <1>13, <1>14,
     <1>15, <1>16, <1>17, <1>18, <1>19, <1>20, <1>21, <1>22, <1>23, <1>24, <1>25, <1>26, <1>27,
     <1>28, <1>29, <1>30, <1>31, <1>32, <1>33, <1>34, <1>35, <1>36, <1>37, <1>38 DEF Next,
     World, Loop, Housekeeping, SendEvent, SipGoesOn, Losd

\* No step disturbs the event that is sent.
LEMMA EventNextStep ==
    ASSUME TypeOK, TypeOK', Places, Sorted, Sent, Lasting, WireInv, [Next]_vars
    PROVE  EventNext'
<1>0. /\ EventNext /\ Contention /\ \A n \in DOMAIN Stream : NotAgain(n)
      /\ 1 .. made \subseteq Items
      /\ \A i \in 1 .. made : kind'[i] = kind[i] /\ (i \notin file => i \notin file') /\ (i \notin link => i \notin link')
  BY LosAssumption DEF WireInv, TypeOK, ItemsType, Items, Lasting
<1>1. Stage \in AtItem => cur \in 1 .. made
  BY DEF Places
<1>2. UNCHANGED <<wire, buf>> \/ Emptied => Stream' = Stream
  BY StreamWritten DEF Emptied, Stream
<1>3. ASSUME TakeEvent
      PROVE  /\ kind'[cur'] = Event /\ pc' = "evCheck" /\ Stream' = Stream
             /\ cur' \notin file' \/ cur' \in sipd' \/ ~HasPut(cur)'
  <2>1. PICK i \in Items : GetLastLink(Event, i) /\ cur' = i
    BY <1>3 DEF TakeEvent
  <2>2. i \in 1 .. made /\ i \in list[Event] /\ kind[i] = Event
    BY <2>1, Taken, DirsAreKinds DEF Sorted
  <2>3. /\ pc' = "evCheck" /\ Stage = "event" /\ Stream' = Stream /\ UNCHANGED <<kind, file, sipd>>
    BY <1>3, <1>2 DEF TakeEvent, mainKeeps, ramdisk, buffer, fate, Stage
  <2>4. ASSUME NEW p \in DOMAIN Stream, Stream[p][1] = i, Stream[p][2] # Stale
        PROVE  i \notin file \/ i \in sipd
    <3>1. NotAgain(p)
      BY <1>0
    <3> QED
      BY <2>2, <2>3, <2>4, <3>1 DEF NotAgain, Sending, Offered
  <2> QED
    BY <2>1, <2>2, <2>3, <2>4 DEF HasPut
<1>4. Stage' \in {"evCheck", "evTouch", "evLink", "header", "body", "parts"} => kind'[cur'] = Event
  BY <1>0, <1>1, <1>3, EventSteps DEF EventNext, AtItem
<1>5. pc' = "evCheck" => cur' \notin file' \/ cur' \in sipd' \/ ~HasPut(cur)'
  <2>1. SUFFICES ASSUME cur' = cur, pc = "evCheck", UNCHANGED <<wire, buf>>
                 PROVE  cur' \notin file' \/ cur' \in sipd' \/ ~HasPut(cur)'
    BY <1>3, EventSteps
  <2>2. cur \in 1 .. made /\ kind[cur] = Event /\ Stream' = Stream
    BY <1>0, <1>1, <1>2, <2>1 DEF EventNext, Stage, AtItem
  <2>3. cur \in sipd => cur \in sipd' \/ cur \notin file'
    BY <1>0, <2>2, TouchStays
  <2>4. cur \notin file \/ cur \in sipd \/ ~HasPut(cur)
    BY <1>0, <2>1 DEF EventNext
  <2>5. ~HasPut(cur) => ~HasPut(cur)'
    BY <2>1, <2>2 DEF HasPut
  <2> QED
    BY <1>0, <2>1, <2>2, <2>3, <2>4, <2>5
<1>6. Stage' \in {"evTouch", "evLink", "header"} => cur' \notin file' \/ ~HasPut(cur)'
  <2>1. SUFFICES ASSUME cur' = cur, UNCHANGED <<wire, buf>> \/ Emptied,
                        (pc = "evCheck" /\ cur \notin sipd) \/ Stage \in {"evTouch", "evLink", "header"}
                 PROVE  cur' \notin file' \/ ~HasPut(cur)'
    BY EventSteps
  <2>2. cur \in 1 .. made /\ Stream' = Stream
    BY <1>1, <1>2, <2>1 DEF Stage, AtItem
  <2>3. cur \notin file \/ ~HasPut(cur)
    BY <1>0, <2>1 DEF EventNext
  <2>4. ~HasPut(cur) => ~HasPut(cur)'
    BY <2>1, <2>2 DEF HasPut
  <2> QED
    BY <1>0, <2>1, <2>2, <2>3, <2>4
<1>7. Stage' \in {"header", "body", "parts"} => cur' \notin link'
  <2>1. SUFFICES ASSUME cur' = cur, Stage \in {"header", "body", "parts"} PROVE cur' \notin link'
    BY EventSteps
  <2>2. cur \in 1 .. made /\ cur \notin link
    BY <1>0, <1>1, <2>1 DEF EventNext, AtItem
  <2> QED
    BY <1>0, <2>1, <2>2
<1>8. Stage' \in {"body", "parts"} => EndsWith(Stream', cur', part')
  <2>1. CASE ReadHeader
    <3>1. /\ Put(<<cur, 0>>, HeaderSize) /\ cur \in 1 .. made /\ cur \in file /\ Stage = "header"
          /\ wire' = wire /\ cur' = cur /\ part' = part
      BY <2>1, <1>1 DEF ReadHeader, eventKeeps, Stage, AtItem
    <3>2. <<cur, 0>> \in Packets /\ HeaderSize \in Nat
      BY <1>0, <3>1, LosAssumption DEF Packets, Stale
    <3>3. Stream' = Append(Stream, <<cur, 0>>)
      BY <3>1, <3>2, StreamAppends
    <3>4. \A n \in DOMAIN Stream : ~(Stream[n][1] = cur /\ Stream[n][2] # Stale)
      BY <1>0, <3>1 DEF EventNext, HasPut
    <3>5. part = 1
      BY <3>1 DEF Sent
    <3>6. EndsWith(Append(Stream, <<cur, 0>>), cur, 1)
      BY <3>2, <3>4, StreamType, EndsAppended
    <3> QED
      BY <3>1, <3>3, <3>5, <3>6
  <2>2. CASE SendPart
    <3>1. /\ Put(<<cur, part>>, PartSize) /\ cur \in 1 .. made /\ part \in 1 .. NumParts
          /\ Stage = "parts" /\ wire' = wire /\ cur' = cur /\ part' = part + 1
      BY <2>2, <1>1, LosAssumption DEF SendPart, eventKeeps, Stage, AtItem, TypeOK, ControlType
    <3>2. <<cur, part>> \in Packets /\ PartSize \in Nat /\ part \in Nat
      BY <1>0, <3>1, LosAssumption DEF Packets, Stale
    <3>3. Stream' = Append(Stream, <<cur, part>>)
      BY <3>1, <3>2, StreamAppends
    <3>4. EndsWith(Stream, cur, part)
      BY <1>0, <3>1 DEF EventNext
    <3>5. EndsWith(Append(Stream, <<cur, part>>), cur, part + 1)
      BY <3>2, <3>4, StreamType, EndsContinued
    <3> QED
      BY <3>1, <3>3, <3>5
  <2>3. CASE cur' = cur /\ part' = part /\ Stage \in {"body", "parts"} /\ (UNCHANGED <<wire, buf>> \/ Emptied)
    BY <1>0, <1>2, <2>3 DEF EventNext
  <2> QED
    BY <2>1, <2>2, <2>3, EventSteps
<1> QED
  BY <1>4, <1>5, <1>6, <1>7, <1>8 DEF EventNext

-----------------------------------------------------------------------------
(* Who has touched what *)

\* No step makes the two readers overlook each other.
LEMMA ContentionStep == TypeOK /\ Places /\ Sorted /\ Contention /\ [Next]_vars => Contention'
<1> SUFFICES ASSUME TypeOK, Places, Sorted, Contention, [Next]_vars PROVE Contention'
  OBVIOUS
<1>0. /\ pc \in {"hkTouch", "hkRead", "hkUnlink"} => cur \in 1 .. made /\ kind[cur] # Event
      /\ spc # "idle" => scur \in 1 .. made
      /\ after \in {"top", "check", "fill", "header", "parts"} /\ back \in {"top", "check"}
      /\ made \in Nat /\ 1 .. made \subseteq Items /\ link \subseteq 1 .. made
      /\ contested \subseteq 1 .. made
  BY DirsAreKinds, LosAssumption DEF TypeOK, ControlType, ItemsType, Places, Sorted, Stage, AtItem, Items
<1>1. ASSUME NEW d \in Kinds, WriteForTelem(d) PROVE Contention'
  <2>1. /\ kind' = [kind EXCEPT ![made + 1] = d] /\ made + 1 \notin 1 .. made
        /\ file' = file \cup {made + 1} /\ link' = link \cup {made + 1}
        /\ UNCHANGED <<losd, sipd, pc, cur, spc, scur, contested>>
    BY <1>1, <1>0 DEF WriteForTelem, loop, sip, fate
  <2>2. \A i \in 1 .. made : kind'[i] = kind[i] /\ i # made + 1
    BY <1>0, <2>1
  <2> QED
    BY <1>0, <2>1, <2>2 DEF Contention
<1>2. CASE LosdDies
  <2>1. pc' = "poll" /\ UNCHANGED <<kind, spc, scur>>
    BY <1>2 DEF LosdDies, Exit, Restarted, ramdisk, sip
  <2> QED
    BY <2>1 DEF Contention
<1>3. CASE SipDies
  BY <1>3, <1>0 DEF Contention, SipDies, buffer, fate, loop, lists, ramdisk
<1>4. CASE NextRound
  BY <1>4, <1>0 DEF Contention, NextRound, Round, mainKeeps, fate, sip, buffer, ramdisk, Fill
<1>5. CASE RefreshLinks
  BY <1>5, <1>0 DEF Contention, RefreshLinks, Round, mainKeeps, fate, sip, buffer, ramdisk, Fill
<1>6. CASE CheckLinks
  BY <1>6, <1>0 DEF Contention, CheckLinks, mainKeeps, fate, sip, buffer, ramdisk, loop
<1>7. CASE CheckNoLinks
  BY <1>7, <1>0 DEF Contention, CheckNoLinks, mainKeeps, fate, sip, buffer, ramdisk, loop, lists
<1>8. CASE TakeEvent
  BY <1>8, <1>0 DEF Contention, TakeEvent, mainKeeps, fate, sip, buffer, ramdisk, GetLastLink
<1>9. CASE NoEvent
  BY <1>9, <1>0 DEF Contention, NoEvent, mainKeeps, fate, sip, buffer, ramdisk, lists, Fill
<1>10. CASE MakeRoomForRequests
  BY <1>10, <1>0 DEF Contention, MakeRoomForRequests, hkKeeps, sip, buffer, Write
<1>11. CASE FillFrom
  BY <1>11, <1>0 DEF Contention, FillFrom, hkKeeps, sip, buffer
<1>12. CASE Filled
  BY <1>12, <1>0 DEF Contention, Filled, hkKeeps, sip, buffer, Write
<1>13. CASE TakeHk
  BY <1>13, <1>0 DEF Contention, TakeHk, hkKeeps, sip, buffer, GetLastLink
<1>14. CASE NoMoreHk
  BY <1>14, <1>0 DEF Contention, NoMoreHk, hkKeeps, sip, buffer
<1>15. CASE TouchHk
  BY <1>15, <1>0 DEF Contention, TouchHk, hkKeeps, sip, buffer, TouchedToo
<1>16. CASE ReadHk
  BY <1>16, <1>0 DEF Contention, ReadHk, hkKeeps, sip, Put, loop
<1>17. CASE CannotReadHk
  BY <1>17, <1>0 DEF Contention, CannotReadHk, hkKeeps, sip, buffer, RemoveFiles
<1>18. CASE UnlinkHk
  BY <1>18, <1>0 DEF Contention, UnlinkHk, hkKeeps, sip, buffer, RemoveFiles
<1>19. CASE CheckEvent
  BY <1>19, <1>0 DEF Contention, CheckEvent, eventKeeps, sip, lists, buffer, Fill
<1>20. CASE TouchEvent
  BY <1>20, <1>0 DEF Contention, TouchEvent, eventKeeps, sip, lists, buffer, TouchedToo
<1>21. CASE UnlinkEvent
  BY <1>21, <1>0 DEF Contention, UnlinkEvent, eventKeeps, sip, lists, buffer, Write
<1>22. CASE ReadHeader
  BY <1>22, <1>0 DEF Contention, ReadHeader, eventKeeps, sip, lists, Put, loop
<1>23. CASE CannotReadHeader
  BY <1>23, <1>0 DEF Contention, CannotReadHeader, eventKeeps, sip, lists, Fill, RemoveFiles,
     Put, loop
<1>24. CASE ReadBody
  BY <1>24, <1>0 DEF Contention, ReadBody, eventKeeps, sip, lists, buffer
<1>25. CASE CannotReadBody
  BY <1>25, <1>0 DEF Contention, CannotReadBody, eventKeeps, sip, lists, buffer, Fill,
     RemoveFiles
<1>26. CASE MakeRoomForPart
  BY <1>26, <1>0 DEF Contention, MakeRoomForPart, eventKeeps, sip, lists, buffer, Write
<1>27. CASE SendPart
  BY <1>27, <1>0 DEF Contention, SendPart, eventKeeps, sip, lists, Put, loop
<1>28. CASE EventSent
  BY <1>28, <1>0 DEF Contention, EventSent, eventKeeps, sip, lists, buffer, Fill, RemoveFiles
<1>29. CASE PollFails
  BY <1>29, <1>0 DEF Contention, PollFails, writeKeeps, sip, loop, lists, ramdisk, Emptied
<1>30. CASE PollReady
  BY <1>30, <1>0 DEF Contention, PollReady, writeKeeps, sip, loop, lists, ramdisk, buffer
<1>31. CASE WriteReturns
  BY <1>31, <1>0 DEF Contention, WriteReturns, writeKeeps, sip, loop, lists, ramdisk, Emptied
<1>32. CASE WatchdogRaises
  <2>1. pc' = "poll" /\ UNCHANGED <<kind, spc, scur>>
    BY <1>32 DEF WatchdogRaises, Exit, Restarted, ramdisk, sip
  <2> QED
    BY <2>1 DEF Contention
<1>33. ASSUME NEW j \in Items, SipTake(j) PROVE Contention'
  BY <1>33, <1>0 DEF Contention, SipTake, sipKeeps, buffer, loop, lists
<1>34. CASE SipTouch
  BY <1>34, <1>0 DEF Contention, SipTouch, sipKeeps, buffer, loop, lists, TouchedToo
<1>35. CASE SipRecheck
  BY <1>35, <1>0 DEF Contention, SipRecheck, sipKeeps, buffer, loop, lists
<1>36. CASE SipSend
  BY <1>36, <1>0 DEF Contention, SipSend, sipKeeps, buffer, loop, lists
<1>37. CASE SipRemove
  BY <1>37, <1>0 DEF Contention, SipRemove, sipKeeps, buffer, loop, lists
<1>38. CASE UNCHANGED vars
  BY <1>38, <1>0 DEF Contention, vars, fate, sip, buffer, loop, lists, ramdisk
<1> QED
  BY <1>1, <1>2, <1>3, <1>4, <1>5, <1>6, <1>7, <1>8, <1>9, <1>10, <1>11, <1>12, <1>13, <1>14,
     <1>15, <1>16, <1>17, <1>18, <1>19, <1>20, <1>21, <1>22, <1>23, <1>24, <1>25, <1>26, <1>27,
     <1>28, <1>29, <1>30, <1>31, <1>32, <1>33, <1>34, <1>35, <1>36, <1>37, <1>38 DEF Next,
     World, Loop, Housekeeping, SendEvent, SipGoesOn, Losd

\* Nothing has been put at the start.
LEMMA WireStart == Init => WireInv
<1> SUFFICES ASSUME Init PROVE WireInv
  OBVIOUS
<1>1. Stream = <<>> /\ DOMAIN Stream = {}
  BY DEF Init, Stream
<1>2. Stage = "top" /\ pc = "poll" /\ spc = "idle"
  BY DEF Init, Stage
<1> QED
  BY <1>1, <1>2 DEF WireInv, Ordered, EventNext, Contention

-----------------------------------------------------------------------------
(* The theorems *)

\* Nothing has been written yet.
LEMMA Start == Init => Inv
<1> SUFFICES ASSUME Init PROVE Inv
  OBVIOUS
<1>1. ItemsType
  BY LosAssumption DEF Init, Items, Kinds, Event
<1>2. ControlType
  BY LosAssumption DEF Init, ControlType
<1>3. BufferType
  BY LosAssumption DEF Init, BufferType
<1>4. Sorted /\ Places /\ Room /\ Sent
  BY DEF Init, Sorted, Places, Room, Sent, Stage, AtItem
<1>5. Accounted
  BY DEF Init, Accounted
<1> QED
  BY <1>1, <1>2, <1>3, <1>4, <1>5 DEF Inv, TypeOK

\* Every step keeps the invariant.
LEMMA Inductive == Inv /\ [Next]_vars => Inv'
  BY ItemsStep, ControlStep, BufferStep, PlacesStep, SortedStep, RoomStep, SentStep,
     AccountedStep DEF Inv, TypeOK

\* The invariant holds in every state.
LEMMA Invariance == Spec => []Inv
  BY Start, Inductive, PTL DEF Spec

\* Every variable stays in its type, and losBuffer is never filled beyond
\* LOS_MAX_BYTES: not by housekeeping, whose test for room is made once per
\* directory and then after each packet (LOSd.c:849, 756), nor by an event, whose
\* parts make room for themselves (1113).
THEOREM Typing == Spec => []TypeOK
<1>1. Inv => TypeOK
  BY DEF Inv
<1> QED
  BY <1>1, Invariance, PTL

\* A file is gone only when SIPd has sent it or all its packets have got into the
\* buffer (LOSd.c:746, where a packet of housekeeping is unlinked right after it
\* has been put, and 1017, where an event's header is): from there they go on the
\* wire or are lost with the buffer.
THEOREM NothingForgotten == Spec => []Accounted
<1>1. Inv => Accounted
  BY DEF Inv
<1> QED
  BY <1>1, Invariance, PTL

\* The packets put are in order in every state, and nothing comes again.
LEMMA WireInductive == Inv /\ WireInv /\ [Next]_vars => WireInv'
<1> SUFFICES ASSUME Inv, WireInv, [Next]_vars PROVE WireInv'
  OBVIOUS
<1>1. TypeOK /\ Places /\ Sorted /\ Sent /\ TypeOK'
  BY Inductive DEF Inv
<1>2. Lasting /\ Contention
  BY <1>1, Lasts DEF WireInv
<1> QED
  BY <1>1, <1>2, OrderStep, NotAgainStep, EventNextStep, ContentionStep DEF WireInv

\* The packets of an event follow one another on the wire, header first, however
\* often the buffer is written between them (LOSd.c:1113), and none is sent twice:
\* its link is gone before the header is put (1004), so neither a refresh nor a
\* restart offers it again.  Housekeeping is read twice only when SIPd had touched
\* it, too, and each left it to the other (LOSd.c:746, SIPd.c:1718).
THEOREM OnceInOrder == Spec => []WireInOrder
<1>1. Inv /\ WireInv => WireInOrder
  <2> SUFFICES ASSUME Inv, WireInv PROVE WireInOrder
    OBVIOUS
  <2>1. /\ Stream \in Seq(Packets) /\ wire \in Seq(Packets) /\ Len(wire) <= Len(Stream)
        /\ \A n \in DOMAIN wire : wire[n] = Stream[n]
    BY StreamType DEF Inv, TypeOK, BufferType
  <2>2. PICK s \in Seq(Packets) : s = Stream
    BY <2>1
  <2>3. Ordered(wire, kind, contested)
    BY <2>1, <2>2, OrderStays DEF WireInv
  <2> QED
    BY <2>3 DEF Ordered, WireInOrder
<1> QED
  BY <1>1, Start, Inductive, WireStart, WireInductive, PTL DEF Spec

=============================================================================
