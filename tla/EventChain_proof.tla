-------------------------- MODULE EventChain_proof -------------------------
(***************************************************************************)
(* For any number of events, any size of the batches and of the queue that *)
(* makes Prioritizerd panic.  Whatever dies but Archived: no header is     *)
(* lost, waveforms are written once, and they keep their number.  In       *)
(* steady running: waveforms no decimation is meant to drop stay on the    *)
(* ramdisk until they are written, and the ramdisk is clean at rest.       *)
(***************************************************************************)
EXTENDS EventChain, SequenceTheorems, FiniteSetTheorems, TLAPS

\* The events there are, and 0.
Known == 0 .. made

Positions ==
    {"idle", "hd", "link", "rmHd", "rmLink", "read", "panic", "psev", "telem", "process", "rmBody"}

\* EventChain.TypeOK, in three parts.  The daemons know only events that exist,
\* and of the others there are no files; a daemon that is about to take a link
\* has one.
FilesType ==
    /\ made \in 0 .. MaxEvent
    /\ acqd \in [Ids -> SUBSET {"psev", "hd", "link"}]
    /\ eventd \in [Ids -> SUBSET {"hd", "link"}]
    /\ prio \in [Ids -> SUBSET {"psev", "hd", "link"}]
    /\ headers \in [Ids -> Nat] /\ waves \in [Ids -> Nat]
    /\ \A e \in Ids \ Known : acqd[e] = {} /\ eventd[e] = {} /\ prio[e] = {} /\ waves[e] = 0

QueueType ==
    /\ queue \in [Daemons -> Seq(Known)] /\ left \in [Daemons -> Nat]
    /\ \A d \in Daemons : left[d] <= Len(queue[d])
    /\ left["Eventd"] = 0

MemoryType ==
    /\ phase \in [Daemons -> {"down", "watching", "up"}]
    /\ pc \in [Daemons -> Positions]
    /\ cur \in [Daemons -> Known]
    /\ slots \in [1 .. NumEvents -> Known] /\ bodies \in [1 .. NumEvents -> Known]
    /\ body \in Known
    /\ nread \in 0 .. NumEvents /\ count \in 0 .. nread
    /\ pc["Archived"] = "read" => left["Archived"] > 0
    /\ pc["Prioritizerd"] = "panic" => left["Prioritizerd"] > 0 /\ nread = 0
    /\ pc["Prioritizerd"] = "read" => left["Prioritizerd"] > 0 \/ nread > 0

ChainType == FilesType /\ QueueType /\ MemoryType

\* How far the header of e has come, at least.
Done(e) == headers[e] > 0 \/ InArchived(e)
AtArchived(e) == "hd" \in prio[e] \/ Done(e)
PastPrioritizerd(e) == {"hd", "link"} \subseteq prio[e] \/ Done(e)
PastEventd(e) == {"hd", "link"} \subseteq eventd[e] \/ PastPrioritizerd(e)

\* A link for Archived is of a header that is there or that it has had; and who
\* unlinks a header has passed it on.
PassedOn ==
    /\ \A e \in Ids : "link" \in prio[e] => AtArchived(e)
    /\ \A e \in Range(queue["Archived"]) : AtArchived(e)
    /\ pc["Archived"] \in {"rmHd", "rmLink"} => Done(cur["Archived"])
    /\ pc["Prioritizerd"] = "link" => AtArchived(cur["Prioritizerd"])
    /\ pc["Prioritizerd"] \in {"telem", "rmLink", "rmHd"} =>
          PastPrioritizerd(cur["Prioritizerd"])
    /\ pc["Eventd"] = "link" =>
          "hd" \in eventd[cur["Eventd"]] \/ PastPrioritizerd(cur["Eventd"])
    /\ pc["Eventd"] \in {"rmHd", "rmLink"} => PastEventd(cur["Eventd"])

\* The header of e can be read as long as its waveforms are to be moved.
Readable(e) == "hd" \in eventd[e] \/ "psev" \notin acqd[e]

\* The slots of the batch that Prioritizerd has still to write out.
Ahead(i) ==
    \/ pc["Prioritizerd"] = "read" /\ i <= nread
    \/ pc["Prioritizerd"] \in {"psev", "hd", "link", "telem", "rmLink", "rmHd"}
          /\ count < i /\ i <= nread

\* A header read and its waveforms have the same number, or the waveforms of
\* both numbers have been moved before.
Match(e, f) == e = f \/ ("psev" \notin acqd[e] /\ "psev" \notin acqd[f])

Matching ==
    /\ "psev" \notin acqd[0]
    /\ \A e \in Ids : "link" \in eventd[e] => Readable(e)
    /\ \A e \in Range(queue["Prioritizerd"]) : Readable(e)
    /\ pc["Eventd"] = "link" => Readable(cur["Eventd"])
    /\ pc["Prioritizerd"] = "psev" => Match(cur["Prioritizerd"], body)
    /\ pc["Prioritizerd"] # "psev" => "psev" \notin acqd[cur["Prioritizerd"]]
    /\ \A i \in 1 .. NumEvents :
          IF Ahead(i) THEN Match(slots[i], bodies[i])
          ELSE "psev" \notin acqd[slots[i]]
                  \/ (pc["Prioritizerd"] = "psev" /\ slots[i] = cur["Prioritizerd"])

\* The waveforms of an event are in one place.
OnePlace ==
    \A e \in Ids :
        /\ ~("psev" \in acqd[e] /\ "psev" \in prio[e])
        /\ waves[e] <= 1
        /\ waves[e] = 1 =>
              /\ "psev" \notin acqd[e]
              /\ "psev" \notin prio[e] \/ (pc["Archived"] = "rmBody" /\ cur["Archived"] = e)

-----------------------------------------------------------------------------
(* Queues *)

\* A link is offered: its name may come last, in one queue.
LEMMA Offered ==
    ASSUME NEW S, queue \in [Daemons -> Seq(S)], NEW d \in Daemons, NEW e \in S, Offer(d, e)
    PROVE  /\ queue' \in [Daemons -> Seq(S)]
           /\ \A c \in Daemons : /\ Len(queue'[c]) \in Nat /\ Len(queue[c]) \in Nat
                                 /\ Len(queue'[c]) >= Len(queue[c])
                                 /\ Range(queue'[c]) \subseteq Range(queue[c]) \cup {e}
                                 /\ c # d => queue'[c] = queue[c]
<1>1. CASE queue' = queue
  BY <1>1, LenProperties
<1>2. CASE queue' = [queue EXCEPT ![d] = Append(@, e)]
  <2> DEFINE s == queue[d]
             t == Append(s, e)
  <2>1. s \in Seq(S)
    OBVIOUS
  <2>2. /\ t \in Seq(S) /\ Len(t) = Len(s) + 1
        /\ \A i \in 1 .. Len(s) : t[i] = s[i]
        /\ t[Len(s) + 1] = e
    BY <2>1, AppendProperties
  <2>3. DOMAIN t = 1 .. Len(t) /\ DOMAIN s = 1 .. Len(s) /\ Len(s) \in Nat
    BY <2>1, <2>2, LenProperties
  <2> HIDE DEF t, s
  <2>4. \A i \in DOMAIN t : t[i] = e \/ (i \in DOMAIN s /\ t[i] = s[i])
    BY <2>2, <2>3
  <2>5. Range(t) \subseteq Range(s) \cup {e}
    BY <2>4 DEF Range
  <2>6. queue'[d] = t /\ s = queue[d]
    BY <1>2 DEF s, t
  <2>7. \A c \in Daemons \ {d} : queue'[c] = queue[c]
    BY <1>2
  <2>8. queue' \in [Daemons -> Seq(S)]
    BY <1>2, <2>2, <2>6
  <2>9. \A c \in Daemons : Len(queue'[c]) \in Nat /\ Len(queue[c]) \in Nat
    BY <2>8, LenProperties
  <2> QED
    BY <2>2, <2>3, <2>5, <2>6, <2>7, <2>8, <2>9
<1> QED
  BY <1>1, <1>2 DEF Offer

\* The first name is taken from a queue.
LEMMA Popped ==
    ASSUME NEW S, queue \in [Daemons -> Seq(S)], NEW d \in Daemons, queue[d] # <<>>, Pop(d)
    PROVE  /\ Head(queue[d]) \in S /\ Head(queue[d]) \in Range(queue[d])
           /\ queue' \in [Daemons -> Seq(S)]
           /\ Len(queue[d]) \in Nat /\ Len(queue[d]) > 0
           /\ Len(queue'[d]) = Len(queue[d]) - 1
           /\ Range(queue'[d]) \subseteq Range(queue[d])
           /\ \A c \in Daemons \ {d} : queue'[c] = queue[c]
<1> DEFINE s == queue[d]
           t == Tail(s)
<1>1. s \in Seq(S) /\ s # <<>>
  OBVIOUS
<1>2. /\ t \in Seq(S) /\ Len(t) = Len(s) - 1 /\ Head(s) \in S
      /\ \A i \in 1 .. Len(t) : t[i] = s[i + 1]
  BY <1>1, HeadTailProperties
<1>3. /\ DOMAIN t = 1 .. Len(t) /\ DOMAIN s = 1 .. Len(s)
      /\ Len(s) \in Nat /\ Len(t) \in Nat
  BY <1>1, <1>2, LenProperties
<1>4. Head(s) = s[1] /\ Len(s) > 0
  BY <1>1, <1>3, EmptySeq
<1>5. queue' = [queue EXCEPT ![d] = t]
  BY DEF Pop
<1> HIDE DEF t
<1>6. \A i \in DOMAIN t : i + 1 \in DOMAIN s /\ t[i] = s[i + 1]
  BY <1>2, <1>3
<1>7. Range(t) \subseteq Range(s)
  BY <1>6 DEF Range
<1>8. Head(s) \in Range(s)
  <2>1. 1 \in DOMAIN s
    BY <1>3, <1>4
  <2> QED
    BY <1>4, <2>1 DEF Range
<1> QED
  BY <1>2, <1>3, <1>4, <1>5, <1>7, <1>8

\* scandir returns every link there is.
LEMMA ListingHolds ==
    ASSUME NEW L \in SUBSET Ids, NEW s \in Listings(L)
    PROVE  s \in Seq(L) /\ Range(s) \subseteq L
<1> DEFINE n == Cardinality(L)
<1>1. n \in Nat
  <2>1. IsFiniteSet(0 .. MaxEvent)
    BY FS_Interval, ChainAssumption
  <2> QED
    BY <2>1, FS_Subset, FS_CardinalityType DEF Ids
<1>2. s \in [1 .. n -> L]
  BY DEF Listings
<1>3. Range(s) \subseteq L
  BY <1>2 DEF Range
<1> QED
  BY <1>1, <1>2, <1>3

\* The links found go before those reported.
LEMMA Scanned ==
    ASSUME NEW S \in SUBSET Ids, queue \in [Daemons -> Seq(S)], NEW d \in Daemons, Scan(d),
           Inbox(d) \subseteq S
    PROVE  /\ queue' \in [Daemons -> Seq(S)]
           /\ Len(queue'[d]) \in Nat /\ Len(queue[d]) \in Nat
           /\ Len(queue'[d]) >= Len(queue[d])
           /\ Range(queue'[d]) \subseteq Inbox(d) \cup Range(queue[d])
           /\ \A c \in Daemons \ {d} : queue'[c] = queue[c]
<1>1. PICK s \in Listings(Inbox(d)) : queue' = [queue EXCEPT ![d] = s \o @]
  BY DEF Scan
<1> DEFINE t == queue[d]
           u == s \o t
<1>2. s \in Seq(S) /\ Range(s) \subseteq Inbox(d) /\ t \in Seq(S)
  BY ListingHolds DEF Inbox
<1>3. /\ u \in Seq(S) /\ Len(u) = Len(s) + Len(t)
      /\ \A i \in 1 .. Len(s) + Len(t) : u[i] = IF i <= Len(s) THEN s[i] ELSE t[i - Len(s)]
  BY <1>2, ConcatProperties
<1>4. /\ DOMAIN u = 1 .. Len(u) /\ DOMAIN s = 1 .. Len(s) /\ DOMAIN t = 1 .. Len(t)
      /\ Len(s) \in Nat /\ Len(t) \in Nat
  BY <1>2, <1>3, LenProperties
<1>5. queue' = [queue EXCEPT ![d] = u] /\ queue'[d] = u
  BY <1>1
<1> HIDE DEF u
<1>6. \A i \in DOMAIN u : (i \in DOMAIN s /\ u[i] = s[i])
                             \/ (i - Len(s) \in DOMAIN t /\ u[i] = t[i - Len(s)])
  BY <1>3, <1>4
<1>7. Range(u) \subseteq Range(s) \cup Range(t)
  BY <1>6 DEF Range
<1> QED
  BY <1>2, <1>3, <1>4, <1>5, <1>7

-----------------------------------------------------------------------------
(* Types *)

\* What is known is part of Ids, and a step forgets nothing.
LEMMA KnownIds == ASSUME FilesType PROVE Known \subseteq Ids /\ 0 \in Known /\ Known \subseteq Nat
  BY ChainAssumption DEF FilesType, Known, Ids

LEMMA TypesImply == ChainType => TypeOK
<1> SUFFICES ASSUME ChainType PROVE TypeOK
  OBVIOUS
<1>1. Known \subseteq Ids
  BY KnownIds DEF ChainType
<1>2. \A d \in Daemons : queue[d] \in Seq(Ids)
  <2> TAKE d \in Daemons
  <2>1. queue[d] \in Seq(Known)
    BY DEF ChainType, QueueType
  <2> QED
    BY <1>1, <2>1
<1>3. \A d \in Daemons : left[d] <= Len(queue[d])
  BY DEF ChainType, QueueType
<1> QED
  BY <1>1, <1>2, <1>3 DEF ChainType, FilesType, QueueType, MemoryType, TypeOK

\* Whoever makes a step, the files stay in their types.
LEMMA FilesStep == ChainType /\ [Next]_vars => FilesType'
<1> SUFFICES ASSUME ChainType, [Next]_vars PROVE FilesType'
  OBVIOUS
<1> USE DEF ChainType, FilesType
<1>0. Known \subseteq Ids /\ 0 \in Known
  BY KnownIds
<1>1. CASE WriteEventAndMakeLink
  <2>1. made + 1 \in Ids /\ made' \in 0 .. MaxEvent /\ Known' = Known \cup {made + 1}
    BY <1>1, ChainAssumption DEF WriteEventAndMakeLink, Ids, Known
  <2> QED
    BY <1>1, <2>1 DEF WriteEventAndMakeLink, disk
<1>2. ASSUME NEW d \in Daemons, AddWatch(d) \/ Scan(d) \/ Die(d) PROVE FilesType'
  BY <1>2 DEF AddWatch, Scan, Die, files, disk, Known
<1>3. CASE EventdTake
  <2>1. /\ acqd' = acqd \/ \E e : acqd' = [acqd EXCEPT ![e] = @ \ {"hd", "link"}]
        /\ UNCHANGED <<made, eventd, prio, headers, waves>>
    BY <1>3 DEF EventdTake, eventdKeeps, disk
  <2> QED
    BY <2>1 DEF Known
<1>4. CASE WriteHeader
  BY <1>0, <1>4 DEF WriteHeader, Add, eventdKeeps, disk, Known, MemoryType, Daemons
<1>5. CASE MakeLink
  BY <1>0, <1>5 DEF MakeLink, Add, eventdKeeps, disk, Known, MemoryType, Daemons
<1>6. CASE RemoveInput
  BY <1>6 DEF RemoveInput, Del, eventdKeeps, disk, Known
<1>7. CASE PrioritizerdBegin
  BY <1>7 DEF PrioritizerdBegin, prioKeeps, disk, Known
<1>8. CASE ReadIn
  BY <1>8 DEF ReadIn, prioKeeps, disk, Known
<1>9. CASE ReadAll
  BY <1>9 DEF ReadAll, prioKeeps, disk, Known
<1>10. CASE PanicRead
  BY <1>10 DEF PanicRead, prioKeeps, disk, Known
<1>11. CASE RenameBody
  <2>1. cur["Prioritizerd"] \in Known
    BY DEF MemoryType, Daemons
  <2>2. /\ \/ UNCHANGED <<acqd, prio>>
           \/ /\ acqd' = [acqd EXCEPT ![body] = @ \ {"psev"}]
              /\ prio' = [prio EXCEPT ![cur["Prioritizerd"]] = @ \cup {"psev"}]
        /\ UNCHANGED <<made, eventd, headers, waves>>
    BY <1>11 DEF RenameBody, Add, Del, disk
  <2> QED
    BY <1>0, <2>1, <2>2 DEF Known
<1>12. CASE WriteForArchived
  <2>1. cur["Prioritizerd"] \in Known
    BY DEF MemoryType, Daemons
  <2>2. /\ \E f \in {"hd", "link"} :
              prio' = [prio EXCEPT ![cur["Prioritizerd"]] = @ \cup {f}]
        /\ UNCHANGED <<made, acqd, eventd, headers, waves>>
    BY <1>12 DEF WriteForArchived, Add, disk
  <2> QED
    BY <1>0, <2>1, <2>2 DEF Known
<1>13. CASE HeaderTelemetry
  BY <1>13 DEF HeaderTelemetry, files, disk, Known
<1>14. CASE DeleteInput
  BY <1>14 DEF DeleteInput, Del, disk, Known
<1>15. CASE ArchivedBegin
  BY <1>15 DEF ArchivedBegin, archKeeps, disk, Known
<1>16. CASE ArchivedRead
  BY <1>16 DEF ArchivedRead, archKeeps, disk, Known
<1>17. CASE UnlinkHeader
  BY <1>17 DEF UnlinkHeader, Del, archKeeps, disk, Known
<1>18. CASE ProcessEvent
  <2>1. cur["Archived"] \in Known
    BY DEF MemoryType, Daemons
  <2>2. /\ headers' = [headers EXCEPT ![cur["Archived"]] = @ + 1]
        /\ waves' = waves \/ waves' = [waves EXCEPT ![cur["Archived"]] = @ + 1]
        /\ UNCHANGED <<made, acqd, eventd, prio>>
    BY <1>18 DEF ProcessEvent, archKeeps
  <2> QED
    BY <1>0, <2>1, <2>2 DEF Known
<1>19. CASE UnlinkBody
  BY <1>19 DEF UnlinkBody, Del, archKeeps, disk, Known
<1>20. CASE UNCHANGED vars
  BY <1>20 DEF vars, files, disk, Known
<1> QED
  BY <1>1, <1>2, <1>3, <1>4, <1>5, <1>6, <1>7, <1>8, <1>9, <1>10, <1>11, <1>12, <1>13,
     <1>14, <1>15, <1>16, <1>17, <1>18, <1>19, <1>20
  DEF Next, Eventd, WriteHeaderAndMakeLink, Prioritizerd, Archived

\* Whoever makes a step, the queues stay in their types.
LEMMA QueueStep == ChainType /\ [Next]_vars => QueueType'
<1> SUFFICES ASSUME ChainType, [Next]_vars PROVE QueueType'
  OBVIOUS
<1> USE DEF ChainType, QueueType
<1>0. Known \subseteq Ids /\ 0 \in Known /\ \A d \in Daemons : Len(queue[d]) \in Nat /\ left[d] \in Nat
  BY KnownIds, LenProperties
<1>1. CASE WriteEventAndMakeLink
  <2>1. made + 1 \in Known' /\ Known \subseteq Known' /\ left' = left
    BY <1>1 DEF WriteEventAndMakeLink, FilesType, Known
  <2>2. queue \in [Daemons -> Seq(Known')] /\ Offer("Eventd", made + 1)
    BY <1>1, <2>1 DEF WriteEventAndMakeLink
  <2>3. /\ queue' \in [Daemons -> Seq(Known')]
        /\ \A c \in Daemons : Len(queue'[c]) \in Nat /\ Len(queue'[c]) >= Len(queue[c])
    BY <2>1, <2>2, Offered DEF Daemons
  <2> QED
    BY <1>0, <2>1, <2>3
<1>2. ASSUME NEW d \in Daemons, AddWatch(d) PROVE QueueType'
  BY <1>2 DEF AddWatch, Known
<1>3. ASSUME NEW d \in Daemons, Scan(d) PROVE QueueType'
  <2>1. Inbox(d) \subseteq Known
    BY DEF FilesType, Inbox, InFiles, Daemons
  <2>2. /\ queue' \in [Daemons -> Seq(Known)]
        /\ \A c \in Daemons : Len(queue'[c]) \in Nat /\ Len(queue'[c]) >= Len(queue[c])
    <3>1. /\ queue' \in [Daemons -> Seq(Known)] /\ Len(queue'[d]) \in Nat
          /\ Len(queue'[d]) >= Len(queue[d]) /\ \A c \in Daemons \ {d} : queue'[c] = queue[c]
      BY <1>0, <1>3, <2>1, Scanned
    <3>2. ASSUME NEW c \in Daemons
          PROVE  Len(queue'[c]) \in Nat /\ Len(queue'[c]) >= Len(queue[c])
      <4>1. CASE c = d
        BY <3>1, <4>1
      <4>2. CASE c # d
        <5>1. queue'[c] = queue[c] /\ Len(queue[c]) \in Nat
          BY <1>0, <3>1, <4>2
        <5> QED
          BY <5>1
      <4> QED
        BY <4>1, <4>2
    <3> QED
      BY <3>1, <3>2
  <2>3. left' = left /\ made' = made
    BY <1>3 DEF Scan
  <2> QED
    BY <1>0, <2>2, <2>3 DEF Known
<1>4. ASSUME NEW d \in Daemons, Die(d) PROVE QueueType'
  <2>1. <<>> \in Seq(Known) /\ Len(<<>>) = 0
    OBVIOUS
  <2> QED
    BY <1>4, <2>1 DEF Die, Known
<1>5. CASE EventdTake
  <2>1. queue["Eventd"] # <<>> /\ Pop("Eventd") /\ left' = left /\ made' = made
    BY <1>5 DEF EventdTake, eventdKeeps
  <2> QED
    BY <1>0, <2>1, Popped DEF Known, Daemons
<1>6. CASE WriteHeader
  BY <1>6 DEF WriteHeader, eventdKeeps, Known
<1>7. CASE MakeLink
  <2>1. Offer("Prioritizerd", cur["Eventd"]) /\ cur["Eventd"] \in Known /\ left' = left /\ made' = made
    BY <1>7 DEF MakeLink, eventdKeeps, MemoryType, Daemons
  <2>2. /\ queue' \in [Daemons -> Seq(Known)]
        /\ \A c \in Daemons : Len(queue'[c]) \in Nat /\ Len(queue'[c]) >= Len(queue[c])
    BY <2>1, Offered DEF Daemons
  <2> QED
    BY <1>0, <2>1, <2>2 DEF Known
<1>8. CASE RemoveInput
  BY <1>8 DEF RemoveInput, eventdKeeps, Known
<1>9. CASE PrioritizerdBegin
  BY <1>0, <1>9 DEF PrioritizerdBegin, prioKeeps, Known, Daemons
<1>10. CASE ReadIn
  <2>1. /\ left["Prioritizerd"] > 0 /\ Pop("Prioritizerd") /\ made' = made
        /\ left' = [left EXCEPT !["Prioritizerd"] = @ - 1]
    BY <1>10 DEF ReadIn, prioKeeps
  <2>2. queue["Prioritizerd"] # <<>>
    BY <1>0, <2>1 DEF Daemons
  <2> QED
    BY <1>0, <2>1, <2>2, Popped DEF Known, Daemons
<1>11. CASE ReadAll
  BY <1>11 DEF ReadAll, prioKeeps, Known
<1>12. CASE PanicRead
  <2>1. /\ left["Prioritizerd"] > 0 /\ Pop("Prioritizerd") /\ made' = made
        /\ left' = [left EXCEPT !["Prioritizerd"] = @ - 1]
    BY <1>12 DEF PanicRead, Step, prioKeeps, MemoryType
  <2>2. queue["Prioritizerd"] # <<>>
    BY <1>0, <2>1 DEF Daemons
  <2> QED
    BY <1>0, <2>1, <2>2, Popped DEF Known, Daemons
<1>13. CASE RenameBody
  BY <1>13 DEF RenameBody, watch, Known
<1>14. CASE WriteForArchived
  <2>1. /\ left' = left /\ made' = made /\ cur["Prioritizerd"] \in Known
        /\ UNCHANGED queue \/ Offer("Archived", cur["Prioritizerd"])
    BY <1>14 DEF WriteForArchived, MemoryType, Daemons
  <2>2. /\ queue' \in [Daemons -> Seq(Known)]
        /\ \A c \in Daemons : Len(queue'[c]) \in Nat /\ Len(queue'[c]) >= Len(queue[c])
    BY <1>0, <2>1, Offered DEF Daemons
  <2> QED
    BY <1>0, <2>1, <2>2 DEF Known
<1>15. CASE HeaderTelemetry
  BY <1>15 DEF HeaderTelemetry, watch, Known
<1>16. CASE DeleteInput
  BY <1>16 DEF DeleteInput, watch, Known
<1>17. CASE ArchivedBegin
  BY <1>0, <1>17 DEF ArchivedBegin, archKeeps, Known, Daemons
<1>18. CASE ArchivedRead
  <2>1. /\ left["Archived"] > 0 /\ Pop("Archived") /\ made' = made
        /\ left' = [left EXCEPT !["Archived"] = @ - 1]
    BY <1>18 DEF ArchivedRead, Step, archKeeps, MemoryType
  <2>2. queue["Archived"] # <<>>
    BY <1>0, <2>1 DEF Daemons
  <2> QED
    BY <1>0, <2>1, <2>2, Popped DEF Known, Daemons
<1>19. CASE UnlinkHeader
  BY <1>19 DEF UnlinkHeader, archKeeps, Known
<1>20. CASE ProcessEvent
  BY <1>20 DEF ProcessEvent, archKeeps, Known
<1>21. CASE UnlinkBody
  BY <1>21 DEF UnlinkBody, archKeeps, Known
<1>22. CASE UNCHANGED vars
  BY <1>22 DEF vars, watch, Known
<1> QED
  BY <1>1, <1>2, <1>3, <1>4, <1>5, <1>6, <1>7, <1>8, <1>9, <1>10, <1>11, <1>12, <1>13,
     <1>14, <1>15, <1>16, <1>17, <1>18, <1>19, <1>20, <1>21, <1>22
  DEF Next, Eventd, WriteHeaderAndMakeLink, Prioritizerd, Archived

\* Whoever makes a step, the daemons' memories stay in their types.
LEMMA MemoryStep == ChainType /\ [Next]_vars => MemoryType'
<1> SUFFICES ASSUME ChainType, [Next]_vars PROVE MemoryType'
  OBVIOUS
<1> USE DEF ChainType, MemoryType
<1>0. /\ Known \subseteq Ids /\ 0 \in Known /\ Known \subseteq Nat /\ left \in [Daemons -> Nat]
      /\ NumEvents \in Nat \ {0} /\ nread \in Nat /\ count \in Nat
  BY KnownIds, ChainAssumption DEF QueueType
<1>1. CASE WriteEventAndMakeLink
  <2>1. Known \subseteq Known'
    BY <1>1 DEF WriteEventAndMakeLink, FilesType, Known
  <2> QED
    BY <1>1, <2>1 DEF WriteEventAndMakeLink, batch
<1>2. ASSUME NEW d \in Daemons, AddWatch(d) PROVE MemoryType'
  BY <1>2 DEF AddWatch, batch, Known
<1>3. ASSUME NEW d \in Daemons, Scan(d) PROVE MemoryType'
  BY <1>3 DEF Scan, batch, Known
<1>4. ASSUME NEW d \in Daemons, Die(d) PROVE MemoryType'
  <2>1. /\ phase' \in [Daemons -> {"down", "watching", "up"}]
        /\ pc' \in [Daemons -> Positions] /\ cur' \in [Daemons -> Known]
        /\ made' = made
    BY <1>0, <1>4 DEF Die, Goto, Positions
  <2>2. /\ slots' \in [1 .. NumEvents -> Known] /\ bodies' \in [1 .. NumEvents -> Known]
        /\ body' \in Known /\ nread' \in 0 .. NumEvents /\ count' \in 0 .. nread'
    BY <1>0, <1>4 DEF Die, batch
  <2>3. /\ pc'["Archived"] = "read" => left'["Archived"] > 0
        /\ pc'["Prioritizerd"] = "panic" => left'["Prioritizerd"] > 0 /\ nread' = 0
        /\ pc'["Prioritizerd"] = "read" => left'["Prioritizerd"] > 0 \/ nread' > 0
    BY <1>0, <1>4 DEF Die, Goto, batch, Daemons
  <2> QED
    BY <2>1, <2>2, <2>3 DEF Known
<1>5. CASE EventdTake
  <2>1. queue["Eventd"] # <<>> /\ Pop("Eventd")
    BY <1>5 DEF EventdTake
  <2>2. Head(queue["Eventd"]) \in Known
    BY <2>1, Popped DEF Daemons, QueueType
  <2> QED
    BY <1>5, <2>2 DEF EventdTake, eventdKeeps, batch, Goto, Positions, Daemons, Known
<1>6. CASE WriteHeader
  BY <1>6 DEF WriteHeader, eventdKeeps, batch, Step, Goto, Positions, Daemons, Known
<1>7. CASE MakeLink
  BY <1>7 DEF MakeLink, eventdKeeps, batch, Step, Goto, Positions, Daemons, Known
<1>8. CASE RemoveInput
  BY <1>8 DEF RemoveInput, eventdKeeps, batch, Step, Goto, Positions, Daemons, Known
<1>9. CASE PrioritizerdBegin
  <2>1. queue["Prioritizerd"] # <<>> /\ Len(queue["Prioritizerd"]) > 0
    <3>1. queue["Prioritizerd"] \in Seq(Known) /\ queue["Prioritizerd"] # <<>>
      BY <1>9 DEF PrioritizerdBegin, QueueType, Daemons
    <3> QED
      BY <3>1, EmptySeq, LenProperties
  <2>2. /\ nread' = 0 /\ count' = 0
        /\ left' = [left EXCEPT !["Prioritizerd"] = Len(queue["Prioritizerd"])]
        /\ UNCHANGED <<made, phase, cur, slots, bodies, body>>
    BY <1>9 DEF PrioritizerdBegin, prioKeeps
  <2>3. \E p \in {"panic", "read"} : pc' = [pc EXCEPT !["Prioritizerd"] = p]
    BY <1>9 DEF PrioritizerdBegin, Step, Goto
  <2>4. left'["Prioritizerd"] > 0 /\ left'["Archived"] = left["Archived"]
    BY <1>0, <2>1, <2>2 DEF Daemons
  <2>5. pc' \in [Daemons -> Positions] /\ pc'["Archived"] = pc["Archived"]
    BY <2>3 DEF Daemons, Positions
  <2>6. /\ pc'["Archived"] = "read" => left'["Archived"] > 0
        /\ pc'["Prioritizerd"] = "panic" => left'["Prioritizerd"] > 0 /\ nread' = 0
        /\ pc'["Prioritizerd"] = "read" => left'["Prioritizerd"] > 0 \/ nread' > 0
    BY <2>2, <2>4, <2>5
  <2>7. Known' = Known /\ count' \in 0 .. nread' /\ nread' \in 0 .. NumEvents
    BY <1>0, <2>2 DEF Known
  <2> QED
    BY <2>2, <2>5, <2>6, <2>7
<1>10. CASE ReadIn
  <2>1. left["Prioritizerd"] > 0 /\ Pop("Prioritizerd")
    BY <1>10 DEF ReadIn
  <2>2. queue["Prioritizerd"] # <<>>
    BY <2>1 DEF QueueType, Daemons
  <2>3. Head(queue["Prioritizerd"]) \in Known
    BY <2>1, <2>2, Popped DEF Daemons, QueueType
  <2>4. nread' \in 0 .. NumEvents /\ count' \in 0 .. nread' /\ nread' > 0
    BY <1>0, <1>10 DEF ReadIn
  <2>5. slots' \in [1 .. NumEvents -> Known] /\ bodies' \in [1 .. NumEvents -> Known]
    BY <1>10, <2>3 DEF ReadIn
  <2>6. UNCHANGED <<made, phase, pc, cur, body>> /\ left'["Archived"] = left["Archived"]
    BY <1>0, <1>10 DEF ReadIn, prioKeeps, Daemons
  <2> QED
    BY <1>10, <2>4, <2>5, <2>6 DEF ReadIn, Known
<1>11. CASE ReadAll
  <2>1. 1 \in 1 .. NumEvents /\ 1 \in 0 .. nread
    BY <1>0, <1>11 DEF ReadAll, Step, Daemons
  <2> QED
    BY <1>11, <2>1
    DEF ReadAll, TakeSlot, prioKeeps, Step, Goto, Positions, Daemons, Known
<1>12. CASE PanicRead
  <2>1. left["Prioritizerd"] > 0 /\ Pop("Prioritizerd")
    BY <1>12 DEF PanicRead, Step
  <2>2. queue["Prioritizerd"] # <<>>
    BY <2>1 DEF QueueType, Daemons
  <2>3. Head(queue["Prioritizerd"]) \in Known
    BY <2>1, <2>2, Popped DEF Daemons, QueueType
  <2>4. Range(slots) \subseteq Known /\ cur["Prioritizerd"] \in Known
    BY DEF Range, Daemons
  <2>5. cur' \in [Daemons -> Known] /\ body' \in Known
    <3>1. PICK junk \in {0, cur["Prioritizerd"]} \cup Range(slots) :
             LET e == Head(queue["Prioritizerd"]) IN
             /\ cur' = [cur EXCEPT !["Prioritizerd"] = IF "hd" \in eventd[e] THEN e ELSE junk]
             /\ body' = e
      BY <1>12 DEF PanicRead
    <3>2. junk \in Known
      BY <1>0, <2>4
    <3>3. body' \in Known
      BY <2>3, <3>1
    <3>4. cur' \in [Daemons -> Known]
      BY <2>3, <3>1, <3>2
    <3> QED
      BY <3>3, <3>4
  <2> QED
    BY <1>0, <1>12, <2>5 DEF PanicRead, prioKeeps, Step, Goto, Positions, Daemons, Known
<1>13. CASE RenameBody
  BY <1>13 DEF RenameBody, watch, batch, Step, Goto, Positions, Daemons, Known
<1>14. CASE WriteForArchived
  BY <1>14 DEF WriteForArchived, batch, Step, Goto, Positions, Daemons, Known
<1>15. CASE HeaderTelemetry
  BY <1>15 DEF HeaderTelemetry, watch, batch, Step, Goto, Positions, Daemons, Known
<1>16. CASE DeleteInput
  <2>1. CASE Step("Prioritizerd", "rmLink", "rmHd") /\ UNCHANGED <<cur, count, body>>
    BY <1>16, <2>1 DEF DeleteInput, watch, Step, Goto, Positions, Daemons, Known
  <2>2. CASE count < nread /\ Step("Prioritizerd", "rmHd", "psev") /\ TakeSlot(count + 1)
    <3>1. count + 1 \in 1 .. NumEvents /\ count + 1 \in 0 .. nread
      BY <1>0, <2>2
    <3> QED
      BY <1>16, <2>2, <3>1
      DEF DeleteInput, watch, TakeSlot, Step, Goto, Positions, Daemons, Known
  <2>3. CASE /\ Step("Prioritizerd", "rmHd",
                     IF nread = 0 /\ left["Prioritizerd"] > 0 THEN "panic" ELSE "idle")
             /\ UNCHANGED <<cur, count, body>>
    BY <1>16, <2>3 DEF DeleteInput, watch, Step, Goto, Positions, Daemons, Known
  <2> QED
    BY <1>16, <2>1, <2>2, <2>3 DEF DeleteInput
<1>17. CASE ArchivedBegin
  <2>1. Len(queue["Archived"]) > 0
    <3>1. queue["Archived"] \in Seq(Known) /\ queue["Archived"] # <<>>
      BY <1>17 DEF ArchivedBegin, QueueType, Daemons
    <3> QED
      BY <3>1, EmptySeq, LenProperties
  <2> QED
    BY <1>0, <1>17, <2>1
    DEF ArchivedBegin, archKeeps, batch, Step, Goto, Positions, Daemons, Known
<1>18. CASE ArchivedRead
  <2>1. left["Archived"] > 0 /\ Pop("Archived")
    BY <1>18 DEF ArchivedRead, Step
  <2>2. queue["Archived"] # <<>>
    BY <2>1 DEF QueueType, Daemons
  <2>3. Head(queue["Archived"]) \in Known
    BY <2>1, <2>2, Popped DEF Daemons, QueueType
  <2> QED
    BY <1>0, <1>18, <2>3
    DEF ArchivedRead, archKeeps, batch, Step, Goto, Positions, Daemons, Known
<1>19. CASE UnlinkHeader
  BY <1>0, <1>19 DEF UnlinkHeader, archKeeps, batch, Step, Goto, NextOfBatch, Positions, Daemons, Known
<1>20. CASE ProcessEvent
  BY <1>20 DEF ProcessEvent, archKeeps, batch, Step, Goto, Positions, Daemons, Known
<1>21. CASE UnlinkBody
  BY <1>0, <1>21 DEF UnlinkBody, archKeeps, batch, Step, Goto, NextOfBatch, Positions, Daemons, Known
<1>22. CASE UNCHANGED vars
  BY <1>22 DEF vars, watch, batch, Known
<1> QED
  BY <1>1, <1>2, <1>3, <1>4, <1>5, <1>6, <1>7, <1>8, <1>9, <1>10, <1>11, <1>12, <1>13,
     <1>14, <1>15, <1>16, <1>17, <1>18, <1>19, <1>20, <1>21, <1>22
  DEF Next, Eventd, WriteHeaderAndMakeLink, Prioritizerd, Archived

-----------------------------------------------------------------------------
(* Who changes what *)

\* Files go only in the steps that unlink or rename.
LEMMA FilesGo ==
    ASSUME ChainType, [Next]_vars
    PROVE  /\ DeleteInput \/ \A e \in Ids : eventd[e] \subseteq eventd'[e]
           /\ UnlinkHeader \/ UnlinkBody \/ \A e \in Ids : prio[e] \subseteq prio'[e]
           /\ EventdTake \/ RemoveInput \/ RenameBody \/ \A e \in Ids : acqd[e] \subseteq acqd'[e]
           /\ ProcessEvent \/ UNCHANGED <<headers, waves>>
<1> DEFINE Keeps == UNCHANGED <<files, headers, waves>>
<1>1. CASE WriteEventAndMakeLink
  <2>1. made + 1 \notin Known
    BY DEF Known, ChainType, FilesType
  <2> QED
    BY <1>1, <2>1 DEF WriteEventAndMakeLink, disk, ChainType, FilesType
<1>2. CASE \E d \in Daemons : AddWatch(d) \/ Scan(d) \/ Die(d)
  <2>1. Keeps
    BY <1>2 DEF AddWatch, Scan, Die, disk
  <2> QED
    BY <2>1 DEF files
<1>3. CASE Eventd
  <2>1. UNCHANGED <<prio, headers, waves>>
    BY <1>3 DEF Eventd, EventdTake, WriteHeaderAndMakeLink, WriteHeader, MakeLink, RemoveInput,
           eventdKeeps, disk
  <2>2. EventdTake \/ RemoveInput \/ UNCHANGED acqd
    BY <1>3 DEF Eventd, WriteHeaderAndMakeLink, WriteHeader, MakeLink
  <2>3. \A e \in Ids : eventd[e] \subseteq eventd'[e]
    BY <1>3 DEF Eventd, EventdTake, WriteHeaderAndMakeLink, WriteHeader, MakeLink, RemoveInput,
           Add, ChainType, FilesType
  <2> QED
    BY <2>1, <2>2, <2>3
<1>4. CASE Prioritizerd
  <2>1. UNCHANGED <<headers, waves>>
    BY <1>4 DEF Prioritizerd, PrioritizerdBegin, ReadIn, ReadAll, PanicRead, RenameBody,
           WriteForArchived, HeaderTelemetry, DeleteInput, prioKeeps, disk
  <2>2. DeleteInput \/ UNCHANGED eventd
    BY <1>4 DEF Prioritizerd, PrioritizerdBegin, ReadIn, ReadAll, PanicRead, RenameBody,
           WriteForArchived, HeaderTelemetry, prioKeeps, files
  <2>3. RenameBody \/ UNCHANGED acqd
    BY <1>4 DEF Prioritizerd, PrioritizerdBegin, ReadIn, ReadAll, PanicRead,
           WriteForArchived, HeaderTelemetry, DeleteInput, prioKeeps, files
  <2>4. \A e \in Ids : prio[e] \subseteq prio'[e]
    <3>1. UNCHANGED prio \/ \E e, f : prio' = Add(prio, e, f)
      BY <1>4 DEF Prioritizerd, PrioritizerdBegin, ReadIn, ReadAll, PanicRead, RenameBody,
             WriteForArchived, HeaderTelemetry, DeleteInput, prioKeeps, files
    <3> QED
      BY <3>1 DEF Add, ChainType, FilesType
  <2> QED
    BY <2>1, <2>2, <2>3, <2>4
<1>5. CASE Archived
  <2>1. UNCHANGED <<acqd, eventd>>
    BY <1>5 DEF Archived, ArchivedBegin, ArchivedRead, UnlinkHeader, ProcessEvent, UnlinkBody,
           archKeeps
  <2>2. UnlinkHeader \/ UnlinkBody \/ UNCHANGED prio
    BY <1>5 DEF Archived, ArchivedBegin, ArchivedRead, ProcessEvent
  <2>3. ProcessEvent \/ UNCHANGED <<headers, waves>>
    BY <1>5 DEF Archived, ArchivedBegin, ArchivedRead, UnlinkHeader, UnlinkBody, disk
  <2> QED
    BY <2>1, <2>2, <2>3
<1>6. CASE UNCHANGED vars
  BY <1>6 DEF vars, files, disk
<1> QED
  BY <1>1, <1>2, <1>3, <1>4, <1>5, <1>6 DEF Next

\* What Eventd knows changes in its own steps and when it dies.
LEMMA EventdAlone ==
    ASSUME ChainType, [Next]_vars, ~Eventd, ~Die("Eventd")
    PROVE  UNCHANGED <<pc["Eventd"], cur["Eventd"]>>
<1> USE DEF Daemons
<1>0. cur \in [Daemons -> Known] /\ pc \in [Daemons -> Positions]
  BY DEF ChainType, MemoryType
<1>1. CASE WriteEventAndMakeLink
  BY <1>1 DEF WriteEventAndMakeLink
<1>2. CASE \E d \in Daemons : AddWatch(d) \/ Scan(d) \/ Die(d)
  <2>1. PICK d \in Daemons : AddWatch(d) \/ Scan(d) \/ (Die(d) /\ d # "Eventd")
    BY <1>2
  <2> QED
    BY <1>0, <2>1 DEF AddWatch, Scan, Die, Goto
<1>3. CASE Prioritizerd
  <2>1. /\ UNCHANGED pc \/ \E l : pc' = [pc EXCEPT !["Prioritizerd"] = l]
        /\ UNCHANGED cur \/ \E e : cur' = [cur EXCEPT !["Prioritizerd"] = e]
    BY <1>3 DEF Prioritizerd, PrioritizerdBegin, ReadIn, ReadAll, PanicRead, RenameBody,
           WriteForArchived, HeaderTelemetry, DeleteInput, TakeSlot, Step, Goto
  <2> QED
    BY <1>0, <2>1
<1>4. CASE Archived
  <2>1. /\ UNCHANGED pc \/ \E l : pc' = [pc EXCEPT !["Archived"] = l]
        /\ UNCHANGED cur \/ \E e : cur' = [cur EXCEPT !["Archived"] = e]
    BY <1>4 DEF Archived, ArchivedBegin, ArchivedRead, UnlinkHeader, ProcessEvent, UnlinkBody,
           Step, Goto
  <2> QED
    BY <1>0, <2>1
<1>5. CASE UNCHANGED vars
  BY <1>5 DEF vars
<1> QED
  BY <1>1, <1>2, <1>3, <1>4, <1>5 DEF Next

\* What Prioritizerd knows changes in its own steps and when it dies.
LEMMA PrioritizerdAlone ==
    ASSUME ChainType, [Next]_vars, ~Prioritizerd, ~Die("Prioritizerd")
    PROVE  UNCHANGED <<pc["Prioritizerd"], cur["Prioritizerd"], batch>>
<1> USE DEF Daemons
<1>0. cur \in [Daemons -> Known] /\ pc \in [Daemons -> Positions]
  BY DEF ChainType, MemoryType
<1>1. CASE WriteEventAndMakeLink
  BY <1>1 DEF WriteEventAndMakeLink
<1>2. CASE \E d \in Daemons : AddWatch(d) \/ Scan(d) \/ Die(d)
  <2>1. PICK d \in Daemons : AddWatch(d) \/ Scan(d) \/ (Die(d) /\ d # "Prioritizerd")
    BY <1>2
  <2> QED
    BY <1>0, <2>1 DEF AddWatch, Scan, Die, Goto
<1>3. CASE Eventd
  <2>1. /\ UNCHANGED pc \/ \E l : pc' = [pc EXCEPT !["Eventd"] = l]
        /\ UNCHANGED cur \/ \E e : cur' = [cur EXCEPT !["Eventd"] = e]
        /\ UNCHANGED batch
    BY <1>3 DEF Eventd, EventdTake, WriteHeaderAndMakeLink, WriteHeader, MakeLink, RemoveInput,
           Step, Goto, eventdKeeps
  <2> QED
    BY <1>0, <2>1
<1>4. CASE Archived
  <2>1. /\ UNCHANGED pc \/ \E l : pc' = [pc EXCEPT !["Archived"] = l]
        /\ UNCHANGED cur \/ \E e : cur' = [cur EXCEPT !["Archived"] = e]
        /\ UNCHANGED batch
    BY <1>4 DEF Archived, ArchivedBegin, ArchivedRead, UnlinkHeader, ProcessEvent, UnlinkBody,
           Step, Goto, archKeeps
  <2> QED
    BY <1>0, <2>1
<1>5. CASE UNCHANGED vars
  BY <1>5 DEF vars
<1> QED
  BY <1>1, <1>2, <1>3, <1>4, <1>5 DEF Next

\* What Archived knows changes in its own steps and when it dies.
LEMMA ArchivedAlone ==
    ASSUME ChainType, [Next]_vars, ~Archived, ~Die("Archived")
    PROVE  UNCHANGED <<pc["Archived"], cur["Archived"], readOk>>
<1> USE DEF Daemons
<1>0. cur \in [Daemons -> Known] /\ pc \in [Daemons -> Positions]
  BY DEF ChainType, MemoryType
<1>1. CASE WriteEventAndMakeLink
  BY <1>1 DEF WriteEventAndMakeLink
<1>2. CASE \E d \in Daemons : AddWatch(d) \/ Scan(d) \/ Die(d)
  <2>1. PICK d \in Daemons : AddWatch(d) \/ Scan(d) \/ (Die(d) /\ d # "Archived")
    BY <1>2
  <2> QED
    BY <1>0, <2>1 DEF AddWatch, Scan, Die, Goto
<1>3. CASE Eventd
  <2>1. /\ UNCHANGED pc \/ \E l : pc' = [pc EXCEPT !["Eventd"] = l]
        /\ UNCHANGED cur \/ \E e : cur' = [cur EXCEPT !["Eventd"] = e]
        /\ UNCHANGED readOk
    BY <1>3 DEF Eventd, EventdTake, WriteHeaderAndMakeLink, WriteHeader, MakeLink, RemoveInput,
           Step, Goto, eventdKeeps
  <2> QED
    BY <1>0, <2>1
<1>4. CASE Prioritizerd
  <2>1. /\ UNCHANGED pc \/ \E l : pc' = [pc EXCEPT !["Prioritizerd"] = l]
        /\ UNCHANGED cur \/ \E e : cur' = [cur EXCEPT !["Prioritizerd"] = e]
        /\ UNCHANGED readOk
    BY <1>4 DEF Prioritizerd, PrioritizerdBegin, ReadIn, ReadAll, PanicRead, RenameBody,
           WriteForArchived, HeaderTelemetry, DeleteInput, TakeSlot, Step, Goto, prioKeeps
  <2> QED
    BY <1>0, <2>1
<1>5. CASE UNCHANGED vars
  BY <1>5 DEF vars
<1> QED
  BY <1>1, <1>2, <1>3, <1>4, <1>5 DEF Next

\* A name comes into a queue when its link is made or found.
LEMMA QueuesFill ==
    ASSUME ChainType, [Next]_vars, NEW d \in Daemons
    PROVE  \/ Range(queue'[d]) \subseteq Range(queue[d])
           \/ Scan(d) /\ Range(queue'[d]) \subseteq Inbox(d) \cup Range(queue[d])
           \/ /\ d = "Eventd" /\ WriteEventAndMakeLink
              /\ Range(queue'[d]) \subseteq Range(queue[d]) \cup {made + 1}
           \/ /\ d = "Prioritizerd" /\ MakeLink
              /\ Range(queue'[d]) \subseteq Range(queue[d]) \cup {cur["Eventd"]}
           \/ /\ d = "Archived" /\ WriteForArchived /\ pc["Prioritizerd"] = "link"
              /\ Range(queue'[d]) \subseteq Range(queue[d]) \cup {cur["Prioritizerd"]}
<1> USE DEF Daemons
<1>0. /\ queue \in [Daemons -> Seq(Known)] /\ cur \in [Daemons -> Known]
      /\ Known \subseteq Ids /\ made + 1 \in Known \cup {made + 1}
  BY KnownIds DEF ChainType, QueueType, MemoryType
<1>1. CASE WriteEventAndMakeLink
  <2>1. queue \in [Daemons -> Seq(Known \cup {made + 1})] /\ Offer("Eventd", made + 1)
    BY <1>0, <1>1 DEF WriteEventAndMakeLink
  <2>2. \A c \in Daemons : /\ Range(queue'[c]) \subseteq Range(queue[c]) \cup {made + 1}
                           /\ c # "Eventd" => queue'[c] = queue[c]
    BY <2>1, Offered
  <2> QED
    BY <1>1, <2>2
<1>2. ASSUME NEW c \in Daemons, AddWatch(c) \/ Die(c)
      PROVE  Range(queue'[d]) \subseteq Range(queue[d])
  <2>1. queue' = queue \/ queue' = [queue EXCEPT ![c] = <<>>]
    BY <1>2 DEF AddWatch, Die
  <2>2. Range(<<>>) = {}
    BY DEF Range
  <2>3. queue'[d] = queue[d] \/ queue'[d] = <<>>
    BY <1>0, <2>1
  <2> QED
    BY <2>2, <2>3
<1>3. ASSUME NEW c \in Daemons, Scan(c)
      PROVE  \/ Range(queue'[d]) \subseteq Range(queue[d])
             \/ Scan(d) /\ Range(queue'[d]) \subseteq Inbox(d) \cup Range(queue[d])
  <2>1. Inbox(c) \subseteq Known
    BY DEF ChainType, FilesType, Inbox, InFiles
  <2>2. /\ Range(queue'[c]) \subseteq Inbox(c) \cup Range(queue[c])
        /\ \A b \in Daemons \ {c} : queue'[b] = queue[b]
    BY <1>0, <1>3, <2>1, Scanned
  <2> QED
    BY <1>3, <2>2
<1>4. ASSUME NEW c \in Daemons, queue[c] # <<>>, Pop(c)
      PROVE  Range(queue'[d]) \subseteq Range(queue[d])
  BY <1>0, <1>4, Popped
<1>5. CASE EventdTake
  BY <1>4, <1>5 DEF EventdTake
<1>6. CASE MakeLink
  <2>1. Offer("Prioritizerd", cur["Eventd"])
    BY <1>6 DEF MakeLink
  <2>2. \A c \in Daemons : /\ Range(queue'[c]) \subseteq Range(queue[c]) \cup {cur["Eventd"]}
                           /\ c # "Prioritizerd" => queue'[c] = queue[c]
    BY <1>0, <2>1, Offered
  <2> QED
    BY <1>6, <2>2
<1>7. CASE WriteForArchived
  <2>1. UNCHANGED queue \/ (pc["Prioritizerd"] = "link" /\ Offer("Archived", cur["Prioritizerd"]))
    BY <1>7 DEF WriteForArchived, Step
  <2>2. CASE Offer("Archived", cur["Prioritizerd"])
    <3>1. \A c \in Daemons :
             /\ Range(queue'[c]) \subseteq Range(queue[c]) \cup {cur["Prioritizerd"]}
             /\ c # "Archived" => queue'[c] = queue[c]
      BY <1>0, <2>2, Offered
    <3> QED
      BY <1>7, <2>1, <3>1
  <2> QED
    BY <2>1, <2>2
<1>8. CASE ReadIn \/ PanicRead \/ ArchivedRead
  <2>1. \E c \in Daemons : Pop(c) /\ left[c] > 0
    BY <1>8 DEF ReadIn, PanicRead, ArchivedRead, Step, ChainType, MemoryType
  <2>2. PICK c \in Daemons : Pop(c) /\ left[c] > 0
    BY <2>1
  <2>3. queue[c] # <<>>
    <3>1. left[c] \in Nat /\ left[c] <= Len(queue[c])
      BY DEF ChainType, QueueType
    <3> QED
      BY <2>2, <3>1
  <2> QED
    BY <1>4, <2>2, <2>3
<1>9. CASE WriteHeader \/ RemoveInput \/ UNCHANGED vars
  BY <1>9 DEF WriteHeader, RemoveInput, vars, watch
<1>10. CASE PrioritizerdBegin \/ ReadAll \/ RenameBody \/ HeaderTelemetry \/ DeleteInput
  BY <1>10 DEF PrioritizerdBegin, ReadAll, RenameBody, HeaderTelemetry, DeleteInput, watch
<1>11. CASE ArchivedBegin \/ UnlinkHeader \/ ProcessEvent \/ UnlinkBody
  BY <1>11 DEF ArchivedBegin, UnlinkHeader, ProcessEvent, UnlinkBody
<1> QED
  BY <1>1, <1>2, <1>3, <1>5, <1>6, <1>7, <1>8, <1>9, <1>10, <1>11
  DEF Next, Eventd, WriteHeaderAndMakeLink, Prioritizerd, Archived

-----------------------------------------------------------------------------
(* Headers *)

\* An event that has got somewhere does not go back.
LEMMA NothingGoesBack ==
    ASSUME ChainType, PassedOn, [Next]_vars, "Archived" \notin Mortal, NEW e \in Ids
    PROVE  /\ Done(e) => Done(e)'
           /\ AtArchived(e) => AtArchived(e)'
           /\ PastPrioritizerd(e) => PastPrioritizerd(e)'
           /\ PastEventd(e) => PastEventd(e)'
<1>0. /\ ~Die("Archived")
      /\ headers[e] \in Nat /\ pc \in [Daemons -> Positions] /\ cur \in [Daemons -> Known]
      /\ "Archived" \in Daemons /\ "Prioritizerd" \in Daemons
  BY DEF Die, ChainType, FilesType, MemoryType, Daemons
<1>1. Done(e) => Done(e)'
  <2>1. CASE ProcessEvent
    <3>1. headers' = [headers EXCEPT ![cur["Archived"]] = @ + 1] /\ pc["Archived"] = "process"
      BY <2>1 DEF ProcessEvent, Step
    <3> QED
      BY <1>0, <3>1 DEF ChainType, FilesType, Done, InArchived
  <2>2. CASE ~Archived
    <3>1. UNCHANGED <<pc["Archived"], cur["Archived"], readOk, headers>>
      BY <1>0, <2>2, ArchivedAlone, FilesGo DEF Archived
    <3> QED
      BY <3>1 DEF Done, InArchived
  <2>3. CASE ArchivedBegin \/ ArchivedRead \/ UnlinkBody
    <3>1. UNCHANGED headers /\ pc["Archived"] \in {"idle", "read", "rmBody"}
      BY <2>3 DEF ArchivedBegin, ArchivedRead, UnlinkBody, Step, disk
    <3> QED
      BY <3>1 DEF Done, InArchived
  <2>4. CASE UnlinkHeader
    <3>1. UNCHANGED <<headers, cur, readOk>>
      BY <2>4 DEF UnlinkHeader, disk
    <3>2. InArchived(e) => pc'["Archived"] \in {"rmLink", "process"}
      BY <1>0, <2>4 DEF UnlinkHeader, Step, Goto, InArchived
    <3> QED
      BY <3>1, <3>2 DEF Done, InArchived
  <2> QED
    BY <2>1, <2>2, <2>3, <2>4 DEF Archived
\* Archived unlinks the header and the link of an event that it has.
<1>2. "hd" \in prio[e] => "hd" \in prio'[e] \/ Done(e)
  <2>1. CASE UnlinkHeader
    <3>1. \/ /\ prio' = Del(prio, cur["Archived"], "hd") /\ pc["Archived"] = "rmHd"
          \/ prio' = Del(prio, cur["Archived"], "link")
      BY <2>1 DEF UnlinkHeader, Step
    <3> QED
      BY <3>1 DEF Del, ChainType, FilesType, PassedOn
  <2>2. CASE UnlinkBody
    BY <2>2 DEF UnlinkBody, Del, ChainType, FilesType
  <2> QED
    BY <2>1, <2>2, FilesGo
<1>3. "link" \in prio[e] => "link" \in prio'[e] \/ Done(e)
  <2>1. CASE UnlinkHeader
    <3>1. \/ prio' = Del(prio, cur["Archived"], "hd")
          \/ prio' = Del(prio, cur["Archived"], "link") /\ pc["Archived"] = "rmLink"
      BY <2>1 DEF UnlinkHeader, Step
    <3> QED
      BY <3>1 DEF Del, ChainType, FilesType, PassedOn
  <2>2. CASE UnlinkBody
    BY <2>2 DEF UnlinkBody, Del, ChainType, FilesType
  <2> QED
    BY <2>1, <2>2, FilesGo
\* Prioritizerd those of an event that it has passed on.
<1>4. {"hd", "link"} \subseteq eventd[e] =>
         {"hd", "link"} \subseteq eventd'[e] \/ PastPrioritizerd(e)
  <2>1. CASE DeleteInput
    <3>1. /\ \E f : eventd' = Del(eventd, cur["Prioritizerd"], f)
          /\ pc["Prioritizerd"] \in {"rmLink", "rmHd"}
      BY <2>1 DEF DeleteInput, Step
    <3>2. PastPrioritizerd(cur["Prioritizerd"])
      BY <3>1 DEF PassedOn
    <3> QED
      BY <3>1, <3>2 DEF Del, ChainType, FilesType
  <2> QED
    BY <2>1, FilesGo
<1> QED
  BY <1>1, <1>2, <1>3, <1>4 DEF AtArchived, PastPrioritizerd, PastEventd

\* Every daemon's place in its work says how far the header has come.
LEMMA PassedOnStep ==
    ASSUME ChainType, PassedOn, [Next]_vars, "Archived" \notin Mortal
    PROVE  PassedOn'
<1> USE DEF Daemons
<1>0. /\ ~Die("Archived") /\ Known \subseteq Ids
      /\ pc \in [Daemons -> Positions] /\ cur \in [Daemons -> Known]
      /\ \A d \in Daemons : cur[d] \in Ids /\ Range(queue[d]) \subseteq Ids
  <2>1. Known \subseteq Ids
    BY KnownIds DEF ChainType
  <2>2. \A d \in Daemons : Range(queue[d]) \subseteq Known
    BY DEF ChainType, QueueType, Range
  <2> QED
    BY <2>1, <2>2 DEF Die, ChainType, MemoryType
<1>1. \A e \in Ids : "link" \in prio'[e] => AtArchived(e)'
  <2> SUFFICES ASSUME NEW e \in Ids, "link" \in prio'[e] PROVE AtArchived(e)'
    OBVIOUS
  <2>1. CASE "link" \in prio[e]
    BY <2>1, NothingGoesBack DEF PassedOn
  <2>2. CASE "link" \notin prio[e]
    <3>1. WriteForArchived /\ pc["Prioritizerd"] = "link" /\ e = cur["Prioritizerd"]
      <4>1. prio' # prio
        BY <2>2
      <4>2. RenameBody \/ WriteForArchived \/ UnlinkHeader \/ UnlinkBody
        BY <4>1 DEF Next, vars, files, WriteEventAndMakeLink, AddWatch, Scan, Die,
           Eventd, EventdTake, WriteHeaderAndMakeLink, WriteHeader, MakeLink, RemoveInput,
           Prioritizerd, PrioritizerdBegin, ReadIn, ReadAll, PanicRead, HeaderTelemetry,
           DeleteInput, prioKeeps, Archived, ArchivedBegin, ArchivedRead, ProcessEvent
      <4> QED
        BY <2>2, <4>2
        DEF RenameBody, WriteForArchived, UnlinkHeader, UnlinkBody, Step, Add, Del,
            ChainType, FilesType
    <3> QED
      BY <1>0, <3>1, NothingGoesBack DEF PassedOn
  <2> QED
    BY <2>1, <2>2
<1>2. \A e \in Range(queue'["Archived"]) : AtArchived(e)'
  <2> SUFFICES ASSUME NEW e \in Range(queue'["Archived"]) PROVE AtArchived(e)'
    OBVIOUS
  <2>1. CASE e \in Range(queue["Archived"])
    BY <1>0, <2>1, NothingGoesBack DEF PassedOn
  <2>2. CASE e \in Inbox("Archived")
    BY <2>2, NothingGoesBack DEF PassedOn, Inbox, InFiles
  <2>3. CASE pc["Prioritizerd"] = "link" /\ e = cur["Prioritizerd"]
    BY <1>0, <2>3, NothingGoesBack DEF PassedOn
  <2> QED
    BY <2>1, <2>2, <2>3, QueuesFill
<1>3. \A e \in Ids : pc'["Archived"] \in {"rmHd", "rmLink"} /\ e = cur'["Archived"] => Done(e)'
  <2> SUFFICES ASSUME NEW e \in Ids, pc'["Archived"] \in {"rmHd", "rmLink"}, e = cur'["Archived"]
               PROVE  Done(e)'
    OBVIOUS
  <2>1. CASE ~Archived \/ ArchivedBegin \/ UnlinkBody \/ ProcessEvent \/ UnlinkHeader
    <3>1. pc["Archived"] \in {"rmHd", "rmLink"} /\ e = cur["Archived"]
      BY <1>0, <2>1, ArchivedAlone
      DEF ArchivedBegin, UnlinkBody, ProcessEvent, UnlinkHeader, Step, Goto, NextOfBatch
    <3> QED
      BY <3>1, NothingGoesBack DEF PassedOn
  <2>2. CASE ArchivedRead
    <3>1. /\ pc["Archived"] = "read" /\ e = Head(queue["Archived"])
          /\ readOk' = ("hd" \in prio[e]) /\ UNCHANGED headers /\ Pop("Archived")
      BY <1>0, <2>2 DEF ArchivedRead, Step, disk
    <3>2. pc'["Archived"] = "rmHd"
      BY <1>0, <2>2 DEF ArchivedRead, Step, Goto
    <3>3. queue["Archived"] # <<>>
      <4>1. left["Archived"] > 0 /\ left["Archived"] \in Nat
            /\ left["Archived"] <= Len(queue["Archived"])
        BY <3>1 DEF ChainType, MemoryType, QueueType
      <4> QED
        BY <4>1
    <3>4. e \in Range(queue["Archived"])
      BY <3>1, <3>3, Popped DEF ChainType, QueueType
    <3>5. AtArchived(e)
      BY <3>4 DEF PassedOn
    <3> QED
      BY <3>1, <3>2, <3>5 DEF AtArchived, Done, InArchived
  <2> QED
    BY <2>1, <2>2 DEF Archived
<1>4. \A e \in Ids : pc'["Prioritizerd"] = "link" /\ e = cur'["Prioritizerd"] => AtArchived(e)'
  <2> SUFFICES ASSUME NEW e \in Ids, pc'["Prioritizerd"] = "link", e = cur'["Prioritizerd"]
               PROVE  AtArchived(e)'
    OBVIOUS
  <2>1. CASE ~Prioritizerd
    <3>1. pc["Prioritizerd"] = "link" /\ e = cur["Prioritizerd"]
      BY <1>0, <2>1, PrioritizerdAlone DEF Die, Goto
    <3> QED
      BY <3>1, NothingGoesBack DEF PassedOn
  <2>2. CASE Prioritizerd
    <3>1. prio' = Add(prio, e, "hd")
      BY <1>0, <2>2 DEF Prioritizerd, PrioritizerdBegin, ReadIn, ReadAll, PanicRead, RenameBody,
             WriteForArchived, HeaderTelemetry, DeleteInput, Step, Goto
    <3> QED
      BY <3>1 DEF Add, AtArchived, ChainType, FilesType
  <2> QED
    BY <2>1, <2>2
<1>5. \A e \in Ids : pc'["Prioritizerd"] \in {"telem", "rmLink", "rmHd"} /\ e = cur'["Prioritizerd"]
                      => PastPrioritizerd(e)'
  <2> SUFFICES ASSUME NEW e \in Ids, pc'["Prioritizerd"] \in {"telem", "rmLink", "rmHd"},
                      e = cur'["Prioritizerd"]
               PROVE  PastPrioritizerd(e)'
    OBVIOUS
  <2>1. CASE ~Prioritizerd
    <3>1. pc["Prioritizerd"] \in {"telem", "rmLink", "rmHd"} /\ e = cur["Prioritizerd"]
      BY <1>0, <2>1, PrioritizerdAlone DEF Die, Goto
    <3> QED
      BY <3>1, NothingGoesBack DEF PassedOn
  <2>2. CASE HeaderTelemetry \/ DeleteInput
    <3>1. pc["Prioritizerd"] \in {"telem", "rmLink"} /\ e = cur["Prioritizerd"]
      BY <1>0, <2>2 DEF HeaderTelemetry, DeleteInput, Step, Goto
    <3> QED
      BY <3>1, NothingGoesBack DEF PassedOn
  <2>3. CASE WriteForArchived
    <3>1. pc["Prioritizerd"] = "link" /\ e = cur["Prioritizerd"] /\ prio' = Add(prio, e, "link")
      BY <1>0, <2>3 DEF WriteForArchived, Step, Goto
    <3>2. AtArchived(e) /\ (Done(e) => Done(e)')
      BY <3>1, NothingGoesBack DEF PassedOn
    <3> QED
      BY <3>1, <3>2 DEF Add, AtArchived, PastPrioritizerd, ChainType, FilesType
  <2>4. CASE PrioritizerdBegin \/ ReadIn \/ ReadAll \/ PanicRead \/ RenameBody
    BY <1>0, <2>4 DEF PrioritizerdBegin, ReadIn, ReadAll, PanicRead, RenameBody, Step, Goto
  <2> QED
    BY <2>1, <2>2, <2>3, <2>4 DEF Prioritizerd
<1>6. \A e \in Ids : pc'["Eventd"] = "link" /\ e = cur'["Eventd"]
                      => "hd" \in eventd'[e] \/ PastPrioritizerd(e)'
  <2> SUFFICES ASSUME NEW e \in Ids, pc'["Eventd"] = "link", e = cur'["Eventd"]
               PROVE  "hd" \in eventd'[e] \/ PastPrioritizerd(e)'
    OBVIOUS
  <2>1. CASE ~Eventd
    <3>1. pc["Eventd"] = "link" /\ e = cur["Eventd"]
      BY <1>0, <2>1, EventdAlone DEF Die, Goto
    <3>2. CASE "hd" \in eventd[e] /\ "hd" \notin eventd'[e]
      <4>1. DeleteInput
        BY <3>2, FilesGo
      <4>2. pc["Prioritizerd"] \in {"rmLink", "rmHd"} /\ e = cur["Prioritizerd"]
        BY <3>2, <4>1 DEF DeleteInput, Step, Del, ChainType, FilesType
      <4> QED
        BY <4>2, NothingGoesBack DEF PassedOn
    <3> QED
      BY <3>1, <3>2, NothingGoesBack DEF PassedOn
  <2>2. CASE Eventd
    <3>1. eventd' = Add(eventd, e, "hd")
      BY <1>0, <2>2 DEF Eventd, EventdTake, WriteHeaderAndMakeLink, WriteHeader, MakeLink,
             RemoveInput, Step, Goto
    <3> QED
      BY <3>1 DEF Add, ChainType, FilesType
  <2> QED
    BY <2>1, <2>2
<1>7. \A e \in Ids : pc'["Eventd"] \in {"rmHd", "rmLink"} /\ e = cur'["Eventd"] => PastEventd(e)'
  <2> SUFFICES ASSUME NEW e \in Ids, pc'["Eventd"] \in {"rmHd", "rmLink"}, e = cur'["Eventd"]
               PROVE  PastEventd(e)'
    OBVIOUS
  <2>1. CASE ~Eventd
    <3>1. pc["Eventd"] \in {"rmHd", "rmLink"} /\ e = cur["Eventd"]
      BY <1>0, <2>1, EventdAlone DEF Die, Goto
    <3> QED
      BY <3>1, NothingGoesBack DEF PassedOn
  <2>2. CASE MakeLink
    <3>1. pc["Eventd"] = "link" /\ e = cur["Eventd"] /\ eventd' = Add(eventd, e, "link")
      BY <1>0, <2>2 DEF MakeLink, Step
    <3>2. "hd" \in eventd[e] \/ PastPrioritizerd(e)'
      BY <3>1, NothingGoesBack DEF PassedOn
    <3> QED
      BY <3>1, <3>2 DEF Add, PastEventd, ChainType, FilesType
  <2>3. CASE RemoveInput
    <3>1. pc["Eventd"] = "rmHd" /\ e = cur["Eventd"]
      BY <1>0, <2>3 DEF RemoveInput, Step, Goto
    <3> QED
      BY <3>1, NothingGoesBack DEF PassedOn
  <2>4. CASE EventdTake \/ WriteHeader
    <3>1. pc["Eventd"] \in {"idle", "hd"} /\ pc'["Eventd"] \in {"idle", "hd", "link"}
      BY <1>0, <2>4 DEF EventdTake, WriteHeader, Step, Goto
    <3> QED
      BY <3>1
  <2> QED
    BY <2>1, <2>2, <2>3, <2>4 DEF Eventd, WriteHeaderAndMakeLink
<1>8. \A d \in Daemons : cur'[d] \in Ids
  <2>1. MemoryType' /\ FilesType'
    BY MemoryStep, FilesStep
  <2>2. Known' \subseteq Ids
    BY <2>1, ChainAssumption DEF FilesType, Known, Ids
  <2> QED
    BY <2>1, <2>2 DEF MemoryType
<1> QED
  BY <1>1, <1>2, <1>3, <1>4, <1>5, <1>6, <1>7, <1>8 DEF PassedOn

\* The next header is not lost either: Acqd's files go when Eventd has passed
\* it on.
LEMMA HeaderStep ==
    ASSUME ChainType, PassedOn, HeaderNeverLost, [Next]_vars, "Archived" \notin Mortal
    PROVE  HeaderNeverLost'
<1> SUFFICES ASSUME NEW e \in 1 .. made' PROVE (Waiting(e) \/ InArchived(e) \/ headers[e] > 0)'
  BY DEF HeaderNeverLost
<1>1. CASE e \notin 1 .. made
  <2>1. WriteEventAndMakeLink
    BY <1>1 DEF Next, vars, AddWatch, Scan, Die,
       Eventd, EventdTake, WriteHeaderAndMakeLink, WriteHeader, MakeLink, RemoveInput, eventdKeeps,
       Prioritizerd, PrioritizerdBegin, ReadIn, ReadAll, PanicRead, RenameBody, WriteForArchived,
       HeaderTelemetry, DeleteInput, prioKeeps,
       Archived, ArchivedBegin, ArchivedRead, UnlinkHeader, ProcessEvent, UnlinkBody, archKeeps
  <2>2. e = made + 1 /\ e \in Ids
    BY <1>1, <2>1, ChainAssumption DEF WriteEventAndMakeLink, ChainType, FilesType, Ids
  <2> QED
    BY <2>1, <2>2 DEF WriteEventAndMakeLink, Waiting, ChainType, FilesType
<1>2. CASE e \in 1 .. made
  <2>0. e \in Ids
    BY <1>2, KnownIds DEF Known, ChainType, FilesType
  <2>1. CASE PastEventd(e)
    <3>1. PastEventd(e)'
      BY <2>0, <2>1, NothingGoesBack
    <3> QED
      BY <3>1 DEF PastEventd, PastPrioritizerd, Done, Waiting
  <2>2. CASE ~PastEventd(e)
    <3>1. {"hd", "link"} \subseteq acqd[e]
      BY <1>2, <2>2 DEF HeaderNeverLost, Waiting, PastEventd, PastPrioritizerd, Done
    <3>2. {"hd", "link"} \subseteq acqd'[e]
      <4>1. CASE EventdTake
        BY <2>0, <3>1, <4>1 DEF EventdTake, ChainType, FilesType
      <4>2. CASE RemoveInput
        <5>1. e # cur["Eventd"]
          BY <2>2, <4>2 DEF RemoveInput, Step, PassedOn
        <5> QED
          BY <2>0, <3>1, <4>2, <5>1 DEF RemoveInput, Del, ChainType, FilesType
      <4>3. CASE RenameBody
        BY <2>0, <3>1, <4>3 DEF RenameBody, Del, ChainType, FilesType
      <4> QED
        BY <2>0, <3>1, <4>1, <4>2, <4>3, FilesGo
    <3> QED
      BY <3>2 DEF Waiting
  <2> QED
    BY <2>1, <2>2
<1> QED
  BY <1>1, <1>2

-----------------------------------------------------------------------------
(* Waveforms *)

\* The waveforms of events there are do not come back to Acqd's directory, and
\* a header that is unlinked is one whose waveforms have been moved.
LEMMA ReadableStays ==
    ASSUME ChainType, Matching, [Next]_vars, NEW e \in Known
    PROVE  /\ "psev" \notin acqd[e] => "psev" \notin acqd'[e]
           /\ Readable(e) => Readable(e)'
<1>0. e \in Ids /\ e # made + 1
  BY KnownIds DEF Known, ChainType, FilesType
<1>1. "psev" \notin acqd[e] => "psev" \notin acqd'[e]
  <2>1. CASE WriteEventAndMakeLink
    BY <1>0, <2>1 DEF WriteEventAndMakeLink, ChainType, FilesType
  <2>2. CASE ~WriteEventAndMakeLink
    <3>1. acqd' = acqd \/ \E f, s : acqd' = [acqd EXCEPT ![f] = @ \ s]
      <4>1. CASE EventdTake
        BY <4>1 DEF EventdTake
      <4>2. CASE RemoveInput
        BY <4>2 DEF RemoveInput, Del
      <4>3. CASE RenameBody
        BY <4>3 DEF RenameBody, Del
      <4> QED
        BY <2>2, <4>1, <4>2, <4>3 DEF Next, vars, files, AddWatch, Scan, Die,
           Eventd, WriteHeaderAndMakeLink, WriteHeader, MakeLink,
           Prioritizerd, PrioritizerdBegin, ReadIn, ReadAll, PanicRead, WriteForArchived,
           HeaderTelemetry, DeleteInput, prioKeeps,
           Archived, ArchivedBegin, ArchivedRead, UnlinkHeader, ProcessEvent, UnlinkBody, archKeeps
    <3> QED
      BY <1>0, <3>1 DEF ChainType, FilesType
  <2> QED
    BY <2>1, <2>2
<1>2. "hd" \in eventd[e] => "hd" \in eventd'[e] \/ "psev" \notin acqd[e]
  <2>1. CASE DeleteInput
    <3>1. pc["Prioritizerd"] # "psev" /\ \E f : eventd' = Del(eventd, cur["Prioritizerd"], f)
      BY <2>1 DEF DeleteInput, Step
    <3>2. "psev" \notin acqd[cur["Prioritizerd"]]
      BY <3>1 DEF Matching
    <3> QED
      BY <1>0, <3>1, <3>2 DEF Del, ChainType, FilesType
  <2> QED
    BY <1>0, <2>1, FilesGo
<1> QED
  BY <1>1, <1>2 DEF Readable

\* A batch pairs headers and waveforms of the same event, or of two whose
\* waveforms have been moved already.
LEMMA MatchingStep ==
    ASSUME ChainType, Matching, [Next]_vars
    PROVE  Matching'
<1> USE DEF Daemons
<1>0. /\ Known \subseteq Ids /\ 0 \in Known
      /\ pc \in [Daemons -> Positions] /\ cur \in [Daemons -> Known]
      /\ \A d \in Daemons : Range(queue[d]) \subseteq Known
      /\ slots \in [1 .. NumEvents -> Known] /\ bodies \in [1 .. NumEvents -> Known]
      /\ body \in Known /\ nread \in Nat /\ nread <= NumEvents /\ NumEvents \in Nat \ {0}
      /\ count \in Nat /\ count <= nread
  <2>1. Known \subseteq Ids /\ 0 \in Known
    BY KnownIds DEF ChainType
  <2>2. \A d \in Daemons : Range(queue[d]) \subseteq Known
    BY DEF ChainType, QueueType, Range
  <2> QED
    BY <2>1, <2>2, ChainAssumption DEF ChainType, MemoryType
<1>1. "psev" \notin acqd'[0]
  BY <1>0, ReadableStays DEF Matching
<1>2. \A e \in Ids : "link" \in eventd'[e] => Readable(e)'
  <2> SUFFICES ASSUME NEW e \in Ids, "link" \in eventd'[e] PROVE Readable(e)'
    OBVIOUS
  <2>1. CASE "link" \in eventd[e]
    <3>1. e \in Known
      BY <2>1 DEF ChainType, FilesType
    <3> QED
      BY <2>1, <3>1, ReadableStays DEF Matching
  <2>2. CASE "link" \notin eventd[e]
    <3>1. WriteHeader \/ MakeLink \/ DeleteInput
      BY <2>2 DEF Next, vars, files, WriteEventAndMakeLink, AddWatch, Scan, Die,
         Eventd, EventdTake, WriteHeaderAndMakeLink, RemoveInput,
         Prioritizerd, PrioritizerdBegin, ReadIn, ReadAll, PanicRead, RenameBody, WriteForArchived,
         HeaderTelemetry, prioKeeps,
         Archived, ArchivedBegin, ArchivedRead, UnlinkHeader, ProcessEvent, UnlinkBody, archKeeps
    <3>2. pc["Eventd"] = "link" /\ e = cur["Eventd"]
      BY <2>2, <3>1
      DEF WriteHeader, MakeLink, DeleteInput, Step, Add, Del, ChainType, FilesType
    <3> QED
      BY <1>0, <3>2, ReadableStays DEF Matching
  <2> QED
    BY <2>1, <2>2
<1>3. \A e \in Range(queue'["Prioritizerd"]) : Readable(e)'
  <2> SUFFICES ASSUME NEW e \in Range(queue'["Prioritizerd"]) PROVE Readable(e)'
    OBVIOUS
  <2>1. CASE e \in Range(queue["Prioritizerd"])
    BY <1>0, <2>1, ReadableStays DEF Matching
  <2>2. CASE e \in Inbox("Prioritizerd")
    <3>1. e \in Known /\ Readable(e)
      BY <2>2 DEF Inbox, InFiles, Matching, ChainType, FilesType
    <3> QED
      BY <3>1, ReadableStays
  <2>3. CASE MakeLink /\ e = cur["Eventd"]
    <3>1. pc["Eventd"] = "link"
      BY <2>3 DEF MakeLink, Step
    <3> QED
      BY <1>0, <2>3, <3>1, ReadableStays DEF Matching
  <2> QED
    BY <2>1, <2>2, <2>3, QueuesFill
<1>4. \A e \in Ids : pc'["Eventd"] = "link" /\ e = cur'["Eventd"] => Readable(e)'
  <2> SUFFICES ASSUME NEW e \in Ids, pc'["Eventd"] = "link", e = cur'["Eventd"]
               PROVE  Readable(e)'
    OBVIOUS
  <2>1. CASE ~Eventd
    <3>1. pc["Eventd"] = "link" /\ e = cur["Eventd"]
      BY <1>0, <2>1, EventdAlone DEF Die, Goto
    <3> QED
      BY <1>0, <3>1, ReadableStays DEF Matching
  <2>2. CASE Eventd
    <3>1. eventd' = Add(eventd, e, "hd")
      BY <1>0, <2>2 DEF Eventd, EventdTake, WriteHeaderAndMakeLink, WriteHeader, MakeLink,
             RemoveInput, Step, Goto
    <3> QED
      BY <3>1 DEF Add, Readable, ChainType, FilesType
  <2> QED
    BY <2>1, <2>2
\* What stays as it was, for the rest: a pair matches, and a moved body is moved.
<1>5. \A e, f \in Known : Match(e, f) => Match(e, f)'
  BY ReadableStays DEF Match
<1>6. \A e \in Known : "psev" \notin acqd[e] => "psev" \notin acqd'[e]
  BY ReadableStays
<1> DEFINE At == pc["Prioritizerd"]
           c == cur["Prioritizerd"]
           Fine(i) == IF Ahead(i) THEN Match(slots[i], bodies[i])
                      ELSE "psev" \notin acqd[slots[i]] \/ (At = "psev" /\ slots[i] = c)
           Goal == /\ At = "psev" => Match(c, body)
                   /\ At # "psev" => "psev" \notin acqd[c]
                   /\ \A i \in 1 .. NumEvents : Fine(i)
<1>7. Goal
  BY DEF Matching
<1>8. Goal'
  <2>1. CASE ~Prioritizerd /\ ~Die("Prioritizerd")
    <3>1. UNCHANGED <<At, c, batch>>
      BY <2>1, PrioritizerdAlone
    <3> QED
      BY <1>0, <1>5, <1>6, <1>7, <3>1 DEF Ahead, Match, batch
  <2>2. CASE Die("Prioritizerd")
    <3>1. /\ At' = "idle" /\ c' = 0 /\ acqd' = acqd
          /\ \A i \in 1 .. NumEvents : slots'[i] = 0
      BY <1>0, <2>2 DEF Die, Goto, files
    <3> QED
      BY <1>1, <3>1 DEF Ahead
  <2>3. CASE PrioritizerdBegin
    <3>1. /\ At = "idle" /\ At' \in {"panic", "read"} /\ nread' = 0
          /\ UNCHANGED <<cur, slots, acqd>>
      BY <1>0, <2>3 DEF PrioritizerdBegin, Step, Goto, prioKeeps
    <3>2. \A i \in 1 .. NumEvents : ~Ahead(i) /\ ~Ahead(i)'
      BY <3>1 DEF Ahead
    <3> QED
      BY <1>7, <3>1, <3>2
  <2>4. CASE ReadIn
    <3> DEFINE e == Head(queue["Prioritizerd"])
               n == nread + 1
    <3>1. /\ At = "read" /\ nread' = n /\ n \in 1 .. NumEvents /\ Pop("Prioritizerd")
          /\ bodies' = [bodies EXCEPT ![n] = e]
          /\ slots' = IF "hd" \in eventd[e] THEN [slots EXCEPT ![n] = e] ELSE slots
          /\ UNCHANGED <<pc, cur, acqd>>
          /\ left["Prioritizerd"] > 0
      BY <1>0, <2>4 DEF ReadIn, prioKeeps
    <3>2. queue["Prioritizerd"] # <<>>
      BY <3>1 DEF ChainType, QueueType
    <3>3. e \in Known /\ Readable(e)
      BY <1>0, <3>1, <3>2, Popped DEF Matching, ChainType, QueueType
    <3>4. \A i \in 1 .. NumEvents : /\ Ahead(i) <=> i <= nread
                                    /\ Ahead(i)' <=> i <= nread + 1
      BY <3>1 DEF Ahead
    <3>5. "psev" \notin acqd[slots[n]]
      BY <1>0, <1>7, <3>1, <3>4
    <3>6. \A i \in 1 .. NumEvents : Fine(i)'
      <4> SUFFICES ASSUME NEW i \in 1 .. NumEvents PROVE Fine(i)'
        OBVIOUS
      <4>1. CASE i = n
        <5>1. bodies'[i] = e /\ slots'[i] = IF "hd" \in eventd[e] THEN e ELSE slots[n]
          BY <1>0, <3>1, <4>1
        <5>2. Match(slots'[i], bodies'[i])
          BY <3>3, <3>5, <5>1 DEF Match, Readable
        <5> QED
          BY <1>0, <3>1, <3>4, <4>1, <5>2 DEF Match
      <4>2. CASE i # n
        <5>1. bodies'[i] = bodies[i] /\ slots'[i] = slots[i]
          BY <1>0, <3>1, <4>2
        <5>2. Ahead(i)' <=> Ahead(i)
          BY <1>0, <3>4, <4>2
        <5> QED
          BY <1>7, <3>1, <5>1, <5>2 DEF Match
      <4> QED
        BY <4>1, <4>2
    <3> QED
      BY <1>7, <3>1, <3>6
  <2>5. CASE ReadAll
    <3>1. /\ At = "read" /\ At' = "psev" /\ c' = slots[1] /\ body' = bodies[1] /\ count' = 1
          /\ UNCHANGED <<slots, bodies, nread, acqd>> /\ nread >= 1
      BY <1>0, <2>5 DEF ReadAll, TakeSlot, Step, Goto, prioKeeps, ChainType, MemoryType
    <3>2. \A i \in 1 .. NumEvents : /\ Ahead(i) <=> i <= nread
                                    /\ Ahead(i)' <=> 1 < i /\ i <= nread
      BY <3>1 DEF Ahead
    <3>3. Match(slots[1], bodies[1])
      BY <1>0, <1>7, <3>1, <3>2
    <3>4. \A i \in 1 .. NumEvents : Fine(i)'
      <4> SUFFICES ASSUME NEW i \in 1 .. NumEvents PROVE Fine(i)'
        OBVIOUS
      <4>1. CASE i = 1
        BY <3>1, <3>2, <4>1
      <4>2. CASE i # 1
        <5>1. Ahead(i)' <=> Ahead(i)
          BY <3>2, <4>2
        <5> QED
          BY <1>7, <3>1, <5>1 DEF Match
      <4> QED
        BY <4>1, <4>2
    <3> QED
      BY <3>1, <3>3, <3>4 DEF Match
  <2>6. CASE PanicRead
    <3> DEFINE e == Head(queue["Prioritizerd"])
    <3>1. /\ At = "panic" /\ At' = "psev" /\ body' = e /\ Pop("Prioritizerd")
          /\ UNCHANGED <<slots, bodies, nread, count, acqd>>
          /\ left["Prioritizerd"] > 0 /\ nread = 0
      BY <1>0, <2>6 DEF PanicRead, Step, Goto, prioKeeps, ChainType, MemoryType
    <3>2. queue["Prioritizerd"] # <<>>
      BY <3>1 DEF ChainType, QueueType
    <3>3. e \in Known /\ Readable(e)
      BY <1>0, <3>1, <3>2, Popped DEF Matching, ChainType, QueueType
    <3>4. PICK junk \in {0, cur["Prioritizerd"]} \cup Range(slots) :
             c' = IF "hd" \in eventd[e] THEN e ELSE junk
      BY <1>0, <2>6 DEF PanicRead
    <3>5. \A i \in 1 .. NumEvents : ~Ahead(i) /\ ~Ahead(i)' /\ "psev" \notin acqd[slots[i]]
      BY <1>0, <1>7, <3>1 DEF Ahead
    <3>6. "psev" \notin acqd[junk]
      BY <1>0, <1>7, <3>1, <3>5 DEF Matching, Range
    <3>7. Match(c', body')
      BY <3>1, <3>3, <3>4, <3>6 DEF Match, Readable
    <3> QED
      BY <3>1, <3>5, <3>7 DEF Match
  <2>7. CASE RenameBody
    <3>1. /\ At = "psev" /\ At' = "hd" /\ UNCHANGED <<cur, batch>>
          /\ acqd' = IF "psev" \in acqd[body] THEN Del(acqd, body, "psev") ELSE acqd
      BY <1>0, <2>7 DEF RenameBody, Step, Goto
    <3>2. "psev" \notin acqd'[body]
      BY <1>0, <3>1 DEF Del, ChainType, FilesType
    <3>3. "psev" \notin acqd'[c]
      BY <1>0, <1>5, <1>7, <3>1, <3>2 DEF Match, batch
    <3>4. \A i \in 1 .. NumEvents : Ahead(i)' <=> Ahead(i)
      BY <3>1 DEF Ahead, batch
    <3> QED
      BY <1>0, <1>5, <1>6, <1>7, <3>1, <3>3, <3>4 DEF Match, batch
  <2>8. CASE WriteForArchived \/ HeaderTelemetry
    <3>1. /\ At \in {"hd", "link", "telem"} /\ At' \in {"link", "telem", "rmLink"}
          /\ UNCHANGED <<cur, batch, acqd>>
      BY <1>0, <2>8 DEF WriteForArchived, HeaderTelemetry, Step, Goto, files
    <3>2. \A i \in 1 .. NumEvents : Ahead(i)' <=> Ahead(i)
      BY <3>1 DEF Ahead, batch
    <3> QED
      BY <1>7, <3>1, <3>2 DEF Match, batch
  <2>9. CASE DeleteInput
    <3>1. UNCHANGED <<slots, bodies, nread, acqd>>
      BY <2>9 DEF DeleteInput
    <3>2. CASE /\ UNCHANGED <<cur, count, body>>
               /\ \/ At = "rmLink" /\ At' = "rmHd"
                  \/ At = "rmHd" /\ At' \in {"panic", "idle"} /\ count = nread
      <4>1. \A i \in 1 .. NumEvents : Ahead(i)' <=> Ahead(i)
        BY <1>0, <3>1, <3>2 DEF Ahead
      <4> QED
        BY <1>7, <3>1, <3>2, <4>1 DEF Match
    <3>3. CASE count < nread /\ At = "rmHd" /\ At' = "psev" /\ TakeSlot(count + 1)
      <4> DEFINE n == count + 1
      <4>1. /\ n \in 1 .. NumEvents /\ count' = n /\ c' = slots[n] /\ body' = bodies[n]
        BY <1>0, <3>3 DEF TakeSlot
      <4>2. \A i \in 1 .. NumEvents : /\ Ahead(i) <=> count < i /\ i <= nread
                                      /\ Ahead(i)' <=> n < i /\ i <= nread
        BY <3>1, <3>3, <4>1 DEF Ahead
      <4>3. Match(slots[n], bodies[n])
        BY <1>0, <1>7, <3>3, <4>1, <4>2
      <4>4. \A i \in 1 .. NumEvents : Fine(i)'
        <5> SUFFICES ASSUME NEW i \in 1 .. NumEvents PROVE Fine(i)'
          OBVIOUS
        <5>1. CASE i = n
          BY <1>0, <3>1, <3>3, <4>1, <4>2, <5>1
        <5>2. CASE i # n
          <6>1. Ahead(i)' <=> Ahead(i)
            BY <1>0, <4>2, <5>2
          <6> QED
            BY <1>7, <3>1, <3>3, <6>1 DEF Match
        <5> QED
          BY <5>1, <5>2
      <4> QED
        BY <3>1, <3>3, <4>1, <4>3, <4>4 DEF Match
    <3> QED
      BY <1>0, <2>9, <3>2, <3>3 DEF DeleteInput, Step, Goto
  <2> QED
    BY <2>1, <2>2, <2>3, <2>4, <2>5, <2>6, <2>7, <2>8, <2>9 DEF Prioritizerd
<1>9. cur'["Eventd"] \in Ids
  <2>1. MemoryType' /\ FilesType'
    BY MemoryStep, FilesStep
  <2>2. Known' \subseteq Ids
    BY <2>1, ChainAssumption DEF FilesType, Known, Ids
  <2> QED
    BY <2>1, <2>2 DEF MemoryType
<1> QED
  BY <1>1, <1>2, <1>3, <1>4, <1>8, <1>9 DEF Matching

\* The waveforms go from Acqd's directory to Prioritizerd's, are written out
\* there, and go.
LEMMA OnePlaceStep ==
    ASSUME ChainType, Matching, OnePlace, [Next]_vars, "Archived" \notin Mortal
    PROVE  OnePlace'
<1> USE DEF Daemons
<1>0. /\ ~Die("Archived") /\ Known \subseteq Ids
      /\ pc \in [Daemons -> Positions] /\ cur \in [Daemons -> Known]
  BY KnownIds DEF Die, ChainType, MemoryType
<1> SUFFICES ASSUME NEW e \in Ids
             PROVE  /\ ~("psev" \in acqd'[e] /\ "psev" \in prio'[e])
                    /\ waves'[e] <= 1
                    /\ waves'[e] = 1 =>
                          /\ "psev" \notin acqd'[e]
                          /\ "psev" \notin prio'[e] \/ (pc'["Archived"] = "rmBody" /\ cur'["Archived"] = e)
  BY DEF OnePlace
<1>1. CASE Archived
  <2>1. acqd' = acqd
    BY <1>1 DEF Archived, ArchivedBegin, ArchivedRead, UnlinkHeader, ProcessEvent, UnlinkBody,
           archKeeps
  <2>2. CASE ArchivedBegin \/ ArchivedRead \/ UnlinkHeader
    <3>1. UNCHANGED waves /\ pc["Archived"] # "rmBody"
      BY <2>2 DEF ArchivedBegin, ArchivedRead, UnlinkHeader, Step, disk
    <3>2. "psev" \in prio'[e] <=> "psev" \in prio[e]
      BY <2>2 DEF ArchivedBegin, ArchivedRead, UnlinkHeader, Del, ChainType, FilesType
    <3> QED
      BY <2>1, <3>1, <3>2 DEF OnePlace
  <2>3. CASE ProcessEvent
    <3>1. /\ pc["Archived"] = "process" /\ pc'["Archived"] = "rmBody"
          /\ UNCHANGED <<prio, cur>>
          /\ \/ UNCHANGED waves
             \/ /\ "psev" \in prio[cur["Archived"]]
                /\ waves' = [waves EXCEPT ![cur["Archived"]] = @ + 1]
      BY <1>0, <2>3 DEF ProcessEvent, Step, Goto
    <3>2. waves[e] \in Nat
      BY DEF ChainType, FilesType
    <3>3. waves'[e] = waves[e] \/ (e = cur["Archived"] /\ "psev" \in prio[e] /\ waves'[e] = waves[e] + 1)
      BY <3>1 DEF ChainType, FilesType
    <3> QED
      BY <2>1, <3>1, <3>2, <3>3 DEF OnePlace
  <2>4. CASE UnlinkBody
    <3>1. UNCHANGED waves /\ prio' = Del(prio, cur["Archived"], "psev")
      BY <2>4 DEF UnlinkBody, disk
    <3> QED
      BY <2>1, <3>1 DEF OnePlace, Del, ChainType, FilesType
  <2> QED
    BY <1>1, <2>2, <2>3, <2>4 DEF Archived
<1>2. CASE ~Archived
  <2>1. UNCHANGED <<pc["Archived"], cur["Archived"], waves>>
    BY <1>0, <1>2, ArchivedAlone, FilesGo DEF Archived
  <2>2. CASE WriteEventAndMakeLink
    <3>1. e # made + 1 => acqd'[e] = acqd[e]
      BY <2>2 DEF WriteEventAndMakeLink, ChainType, FilesType
    <3>2. e = made + 1 => e \notin Known
      BY DEF Known, ChainType, FilesType
    <3>3. prio' = prio
      BY <2>2 DEF WriteEventAndMakeLink
    <3> QED
      BY <2>1, <3>1, <3>2, <3>3 DEF OnePlace, ChainType, FilesType
  <2>3. CASE RenameBody
    <3>1. CASE UNCHANGED <<acqd, prio>>
      BY <2>1, <3>1 DEF OnePlace
    <3>2. CASE ~UNCHANGED <<acqd, prio>>
      <4>1. /\ "psev" \in acqd[body] /\ pc["Prioritizerd"] = "psev"
            /\ acqd' = Del(acqd, body, "psev")
            /\ prio' = Add(prio, cur["Prioritizerd"], "psev")
        BY <2>3, <3>2 DEF RenameBody, Step
      <4>2. body = cur["Prioritizerd"]
        BY <4>1 DEF Matching, Match
      <4> QED
        BY <2>1, <4>1, <4>2 DEF OnePlace, Add, Del, ChainType, FilesType
    <3> QED
      BY <3>1, <3>2
  <2>4. CASE ~WriteEventAndMakeLink /\ ~RenameBody
    <3>1. acqd' = acqd \/ \E f, s : acqd' = [acqd EXCEPT ![f] = @ \ s]
      <4>1. CASE EventdTake
        BY <4>1 DEF EventdTake
      <4>2. CASE RemoveInput
        BY <4>2 DEF RemoveInput, Del
      <4> QED
        BY <1>2, <2>4, <4>1, <4>2 DEF Next, vars, files, AddWatch, Scan, Die,
           Eventd, WriteHeaderAndMakeLink, WriteHeader, MakeLink,
           Prioritizerd, PrioritizerdBegin, ReadIn, ReadAll, PanicRead, WriteForArchived,
           HeaderTelemetry, DeleteInput, prioKeeps
    <3>2. UNCHANGED prio \/ \E f, l : l # "psev" /\ prio' = Add(prio, f, l)
      <4>1. CASE WriteForArchived
        BY <4>1 DEF WriteForArchived
      <4> QED
        BY <1>2, <2>4, <4>1 DEF Next, vars, files, AddWatch, Scan, Die,
           Eventd, EventdTake, WriteHeaderAndMakeLink, WriteHeader, MakeLink, RemoveInput,
           Prioritizerd, PrioritizerdBegin, ReadIn, ReadAll, PanicRead,
           HeaderTelemetry, DeleteInput, prioKeeps
    <3>3. "psev" \in acqd'[e] => "psev" \in acqd[e]
      BY <3>1 DEF ChainType, FilesType
    <3>4. "psev" \in prio'[e] => "psev" \in prio[e]
      BY <3>2 DEF Add, ChainType, FilesType
    <3> QED
      BY <2>1, <3>3, <3>4 DEF OnePlace
  <2> QED
    BY <2>2, <2>3, <2>4
<1> QED
  BY <1>1, <1>2

-----------------------------------------------------------------------------
(* Steady running: every link is offered once *)

Distinct(s) == \A i, j \in DOMAIN s : s[i] = s[j] => i = j

\* The events Prioritizerd has been offered whose waveforms it has still to move.
Unmoved == Range(queue["Prioritizerd"])
              \cup { bodies[i] : i \in { k \in 1 .. NumEvents : Ahead(k) } }
              \cup (IF pc["Prioritizerd"] = "psev" THEN {body} ELSE {})

\* What Eventd has not taken is complete and nowhere else, and what is left of a
\* header and a link in Acqd's directory is Eventd's.
SteadyEventd ==
    LET e == cur["Eventd"] IN
    /\ Distinct(queue["Eventd"])
    /\ \A f \in Range(queue["Eventd"]) :
          acqd[f] = {"psev", "hd", "link"} /\ eventd[f] = {} /\ prio[f] = {}
    /\ pc["Eventd"] # "idle" => e \notin Range(queue["Eventd"])
    /\ pc["Eventd"] \in {"hd", "link"} => acqd[e] = {"psev", "hd", "link"} /\ prio[e] = {}
    /\ pc["Eventd"] = "hd" => eventd[e] = {}
    /\ pc["Eventd"] = "link" => eventd[e] = {"hd"}
    /\ pc["Eventd"] = "rmLink" => "hd" \notin acqd[e]
    /\ \A f \in Ids : acqd[f] \subseteq {"psev"} \/ f \in Range(queue["Eventd"])
                         \/ (pc["Eventd"] # "idle" /\ f = e)

\* No event is twice in Prioritizerd's queue and batch.
Apart ==
    /\ Distinct(queue["Prioritizerd"])
    /\ \A i \in 1 .. NumEvents : Ahead(i) =>
          /\ slots[i] = bodies[i] /\ bodies[i] \notin Range(queue["Prioritizerd"])
          /\ \A j \in 1 .. NumEvents : Ahead(j) /\ bodies[j] = bodies[i] => i = j
    /\ pc["Prioritizerd"] = "psev" =>
          /\ cur["Prioritizerd"] = body /\ body \notin Range(queue["Prioritizerd"])
          /\ \A i \in 1 .. NumEvents : Ahead(i) => bodies[i] # body

\* What it has not moved is complete, and what there is of waveforms in Acqd's
\* directory and of files in Eventd's is of an event on its way.
SteadyPrioritizerd ==
    LET e == cur["Prioritizerd"]
        at == pc["Prioritizerd"] IN
    /\ Apart
    /\ \A f \in Unmoved : eventd[f] = {"hd", "link"} /\ "psev" \in acqd[f] /\ prio[f] = {}
    /\ at \in {"hd", "link", "telem", "rmLink", "rmHd"} => "psev" \notin acqd[e]
    /\ at = "hd" => prio[e] = {"psev"}
    /\ at = "link" => prio[e] = {"psev", "hd"}
    /\ at = "rmHd" => "link" \notin eventd[e]
    /\ \A f \in Ids :
          /\ eventd[f] # {} => \/ pc["Eventd"] = "link" /\ f = cur["Eventd"]
                               \/ f \in Unmoved
                               \/ at \in {"hd", "link", "telem", "rmLink", "rmHd"} /\ f = e
          /\ "psev" \in acqd[f] => \/ f \in Range(queue["Eventd"])
                                   \/ pc["Eventd"] \in {"hd", "link"} /\ f = cur["Eventd"]
                                   \/ f \in Unmoved

\* What Archived has not taken is complete, and of what it has taken it knows what
\* is left.
SteadyArchived ==
    LET e == cur["Archived"]
        at == pc["Archived"] IN
    /\ Distinct(queue["Archived"])
    /\ \A f \in Range(queue["Archived"]) : prio[f] = {"psev", "hd", "link"}
    /\ at \in {"rmHd", "rmLink", "process", "rmBody"} =>
          /\ e \notin Range(queue["Archived"])
          /\ ~(pc["Prioritizerd"] \in {"hd", "link"} /\ cur["Prioritizerd"] = e)
    /\ at \in {"rmHd", "rmLink", "process"} => readOk
    /\ at = "rmHd" => prio[e] = {"psev", "hd", "link"}
    /\ at = "rmLink" => prio[e] = {"psev", "link"}
    /\ at \in {"process", "rmBody"} => prio[e] = {"psev"}
    /\ \A f \in Ids : prio[f] # {} =>
          \/ pc["Prioritizerd"] \in {"hd", "link"} /\ f = cur["Prioritizerd"]
          \/ f \in Range(queue["Archived"])
          \/ at \in {"rmHd", "rmLink", "process", "rmBody"} /\ f = e

Flow == (\A d \in Daemons : phase[d] = "up") /\ SteadyEventd /\ SteadyPrioritizerd /\ SteadyArchived

SteadyInv == deaths \in Nat /\ (Steady => Flow)

\* If no event may be thrown away justHeader stays unset, and the waveforms that
\* are unlinked have been written out.
KeepInv ==
    Steady => /\ ~justHeader
              /\ pc["Archived"] = "rmBody" => waves[cur["Archived"]] > 0
              /\ UndecimatedKeepWaveforms

\* A queue without repetitions stays one when its first name is taken, and that
\* name is not in it any more.
LEMMA DistinctTail ==
    ASSUME NEW S, NEW s \in Seq(S), s # <<>>, Distinct(s)
    PROVE  /\ Distinct(Tail(s)) /\ Head(s) \in Range(s)
           /\ Range(Tail(s)) = Range(s) \ {Head(s)}
<1> DEFINE t == Tail(s)
<1>1. /\ t \in Seq(S) /\ Len(t) = Len(s) - 1 /\ Head(s) = s[1]
      /\ \A i \in 1 .. Len(t) : t[i] = s[i + 1]
  BY HeadTailProperties
<1>2. /\ DOMAIN t = 1 .. Len(t) /\ DOMAIN s = 1 .. Len(s)
      /\ Len(s) \in Nat /\ Len(t) \in Nat /\ Len(s) > 0
  BY <1>1, LenProperties, EmptySeq
<1> HIDE DEF t
<1>3. Distinct(t)
  <2> SUFFICES ASSUME NEW i \in DOMAIN t, NEW j \in DOMAIN t, t[i] = t[j] PROVE i = j
    BY DEF Distinct
  <2>1. i + 1 \in DOMAIN s /\ j + 1 \in DOMAIN s /\ s[i + 1] = s[j + 1]
    BY <1>1, <1>2
  <2>2. i + 1 = j + 1
    BY <2>1 DEF Distinct
  <2> QED
    BY <1>2, <2>2
<1>4. 1 \in DOMAIN s
  BY <1>2
<1>5. \A i \in DOMAIN t : i + 1 \in DOMAIN s /\ i + 1 # 1 /\ t[i] = s[i + 1]
  BY <1>1, <1>2
<1>6. \A i \in DOMAIN s : i # 1 => i - 1 \in DOMAIN t /\ t[i - 1] = s[i]
  BY <1>1, <1>2
<1>7. \A i \in DOMAIN s : s[i] = s[1] => i = 1
  BY <1>4 DEF Distinct
<1>8. Range(t) \subseteq Range(s) \ {s[1]}
  BY <1>5, <1>7 DEF Range
<1>9. Range(s) \ {s[1]} \subseteq Range(t)
  BY <1>6 DEF Range
<1>10. s[1] \in Range(s)
  BY <1>4 DEF Range
<1> QED
  BY <1>1, <1>3, <1>8, <1>9, <1>10 DEF t

\* And when a new name comes last.
LEMMA DistinctAppend ==
    ASSUME NEW S, NEW s \in Seq(S), NEW e \in S, Distinct(s), e \notin Range(s)
    PROVE  Distinct(Append(s, e)) /\ Range(Append(s, e)) = Range(s) \cup {e}
<1> DEFINE t == Append(s, e)
<1>1. /\ t \in Seq(S) /\ Len(t) = Len(s) + 1
      /\ \A i \in 1 .. Len(s) : t[i] = s[i]
      /\ t[Len(s) + 1] = e
  BY AppendProperties
<1>2. /\ DOMAIN t = 1 .. Len(s) + 1 /\ DOMAIN s = 1 .. Len(s) /\ Len(s) \in Nat
  BY <1>1, LenProperties
<1> HIDE DEF t
<1>3. \A i \in DOMAIN s : s[i] # e
  BY DEF Range
<1>4. \A i \in DOMAIN t : (i \in DOMAIN s /\ t[i] = s[i]) \/ (i = Len(s) + 1 /\ t[i] = e)
  BY <1>1, <1>2
<1>5. Distinct(t)
  BY <1>3, <1>4 DEF Distinct
<1>6. Range(t) \subseteq Range(s) \cup {e}
  BY <1>4 DEF Range
<1>7. Range(s) \cup {e} \subseteq Range(t)
  <2>1. \A i \in DOMAIN s : i \in DOMAIN t /\ t[i] = s[i]
    BY <1>1, <1>2
  <2>2. Len(s) + 1 \in DOMAIN t
    BY <1>2
  <2> QED
    BY <1>1, <2>1, <2>2 DEF Range
<1> QED
  BY <1>5, <1>6, <1>7 DEF t

\* A link that is not there is offered, once.
LEMMA OfferedOnce ==
    ASSUME NEW S, queue \in [Daemons -> Seq(S)], NEW d \in Daemons, NEW e \in S, Offer(d, e),
           e \notin Inbox(d), phase[d] = "up", Distinct(queue[d]), e \notin Range(queue[d])
    PROVE  /\ Distinct(queue'[d]) /\ Range(queue'[d]) = Range(queue[d]) \cup {e}
           /\ \A c \in Daemons \ {d} : queue'[c] = queue[c]
<1>1. queue' = [queue EXCEPT ![d] = Append(@, e)]
  BY DEF Offer
<1>2. PICK s \in Seq(S) : s = queue[d]
  OBVIOUS
<1>3. queue'[d] = Append(s, e) /\ \A c \in Daemons \ {d} : queue'[c] = queue[c]
  BY <1>1, <1>2
<1> QED
  BY <1>2, <1>3, DistinctAppend

\* What is taken is not in the queue any more.
LEMMA PoppedOne ==
    ASSUME NEW S, queue \in [Daemons -> Seq(S)], NEW d \in Daemons, queue[d] # <<>>, Pop(d),
           Distinct(queue[d])
    PROVE  /\ Head(queue[d]) \in Range(queue[d]) /\ Distinct(queue'[d])
           /\ Range(queue'[d]) = Range(queue[d]) \ {Head(queue[d])}
           /\ \A c \in Daemons \ {d} : queue'[c] = queue[c]
<1>1. queue' = [queue EXCEPT ![d] = Tail(@)]
  BY DEF Pop
<1>2. PICK s \in Seq(S) : s = queue[d]
  OBVIOUS
<1>3. queue'[d] = Tail(s) /\ \A c \in Daemons \ {d} : queue'[c] = queue[c]
  BY <1>1, <1>2
<1> QED
  BY <1>2, <1>3, DistinctTail

\* The queues hold known events.
LEMMA QueueKnown == ASSUME ChainType PROVE \A d \in Daemons : Range(queue[d]) \subseteq Known
<1> SUFFICES ASSUME NEW d \in Daemons PROVE Range(queue[d]) \subseteq Known
  OBVIOUS
<1>1. PICK s \in Seq(Known) : s = queue[d]
  BY DEF ChainType, QueueType
<1>2. DOMAIN s = 1 .. Len(s) /\ \A i \in 1 .. Len(s) : s[i] \in Known
  BY <1>1, LenProperties
<1> QED
  BY <1>1, <1>2 DEF Range

\* Prioritizerd moves what it has been offered about, from its queue to a slot and
\* from a slot to the event it works on, until it renames the waveforms.
LEMMA PrioritizerdMoves ==
    ASSUME ChainType, Flow, Prioritizerd
    PROVE  Apart' /\ Unmoved' = IF RenameBody THEN Unmoved \ {body} ELSE Unmoved
<1> USE DEF Daemons
<1> DEFINE Q == queue["Prioritizerd"]
           At == pc["Prioritizerd"]
           c == cur["Prioritizerd"]
<1>0. /\ pc \in [Daemons -> Positions] /\ cur \in [Daemons -> Known]
      /\ queue \in [Daemons -> Seq(Known)] /\ NumEvents \in Nat \ {0}
      /\ slots \in [1 .. NumEvents -> Known] /\ bodies \in [1 .. NumEvents -> Known]
      /\ nread \in 0 .. NumEvents /\ count \in 0 .. nread /\ Apart
  BY ChainAssumption DEF ChainType, QueueType, MemoryType, Flow, SteadyPrioritizerd
<1>1. CASE PrioritizerdBegin
  <2>1. /\ At = "idle" /\ At' \in {"read", "panic"} /\ nread' = 0 /\ count' = 0
        /\ UNCHANGED <<queue, cur, slots, bodies, body>>
    BY <1>0, <1>1 DEF PrioritizerdBegin, Step, Goto, prioKeeps
  <2>2. \A i \in 1 .. NumEvents : ~Ahead(i) /\ ~Ahead(i)'
    BY <2>1 DEF Ahead
  <2>3. ~RenameBody
    BY <2>1 DEF RenameBody, Step
  <2> QED
    BY <1>0, <2>1, <2>2, <2>3 DEF Apart, Unmoved
<1>2. CASE ReadIn
  <2> DEFINE e == Head(Q)
             n == nread + 1
  <2>1. /\ At = "read" /\ nread' = n /\ n \in 1 .. NumEvents /\ Pop("Prioritizerd")
        /\ bodies' = [bodies EXCEPT ![n] = e]
        /\ slots' = IF "hd" \in eventd[e] THEN [slots EXCEPT ![n] = e] ELSE slots
        /\ UNCHANGED <<pc, cur>> /\ left["Prioritizerd"] > 0
    BY <1>0, <1>2 DEF ReadIn, prioKeeps
  <2>2. Q # <<>>
    BY <2>1 DEF ChainType, QueueType
  <2>3. Distinct(Q)
    BY <1>0 DEF Apart
  <2>4. e \in Range(Q) /\ Distinct(Q') /\ Range(Q') = Range(Q) \ {e}
    BY <1>0, <2>1, <2>2, <2>3, PoppedOne
  <2>5. eventd[e] = {"hd", "link"}
    BY <2>4 DEF Flow, SteadyPrioritizerd, Unmoved
  <2>6. e \in Known
    BY <2>4, QueueKnown
  <2> HIDE DEF e, Q
  <2>7. /\ slots'[n] = e /\ bodies'[n] = e
        /\ \A i \in 1 .. NumEvents : i # n => slots'[i] = slots[i] /\ bodies'[i] = bodies[i]
    BY <1>0, <2>1, <2>5, <2>6
  <2>8. \A i \in 1 .. NumEvents : /\ Ahead(i) <=> i <= nread
                                  /\ Ahead(i)' <=> i <= nread + 1
    BY <2>1 DEF Ahead
  <2>9. \A i \in 1 .. NumEvents : Ahead(i)' <=> Ahead(i) \/ i = n
    BY <1>0, <2>8
  <2>10. ~Ahead(n)
    BY <1>0, <2>1, <2>8
  <2>11. Apart'
    <3>1. \A i \in 1 .. NumEvents : Ahead(i) => i # n /\ bodies[i] # e /\ bodies[i] \notin Range(Q)
      BY <1>0, <2>4, <2>10 DEF Apart, Q
    <3>2. \A i \in 1 .. NumEvents : Ahead(i)' =>
              slots'[i] = bodies'[i] /\ bodies'[i] \notin Range(Q')
      BY <1>0, <2>4, <2>7, <2>9, <3>1 DEF Apart
    <3>3. \A i, j \in 1 .. NumEvents : Ahead(i)' /\ Ahead(j)' /\ bodies'[j] = bodies'[i] => i = j
      BY <1>0, <2>7, <2>9, <3>1 DEF Apart
    <3>4. At' # "psev"
      BY <2>1
    <3> QED
      BY <2>4, <3>2, <3>3, <3>4 DEF Apart, Q
  <2>12. { bodies'[i] : i \in { k \in 1 .. NumEvents : Ahead(k)' } }
          = { bodies[i] : i \in { k \in 1 .. NumEvents : Ahead(k) } } \cup {e}
    BY <2>1, <2>7, <2>9, <2>10
  <2>13. Unmoved' = Unmoved /\ ~RenameBody
    BY <2>1, <2>4, <2>12 DEF Unmoved, RenameBody, Step, Q
  <2> QED
    BY <2>11, <2>13
<1>3. ASSUME NEW n \in 1 .. NumEvents, TakeSlot(n), At \in {"read", "rmHd"}, At' = "psev",
             Ahead(n), \A i \in 1 .. NumEvents : Ahead(i)' <=> Ahead(i) /\ i # n,
             UNCHANGED <<queue, slots, bodies>>, ~RenameBody
      PROVE  Apart' /\ Unmoved' = Unmoved
  <2>1. c' = slots[n] /\ body' = bodies[n] /\ slots[n] = bodies[n]
    BY <1>0, <1>3 DEF TakeSlot, Apart
  <2>2. Apart'
    <3>1. Distinct(Q') /\ Q' = Q
      BY <1>0, <1>3 DEF Apart
    <3>2. \A i \in 1 .. NumEvents : Ahead(i)' =>
              /\ slots'[i] = bodies'[i] /\ bodies'[i] \notin Range(Q')
              /\ bodies'[i] # body'
              /\ \A j \in 1 .. NumEvents : Ahead(j)' /\ bodies'[j] = bodies'[i] => i = j
      BY <1>0, <1>3, <2>1 DEF Apart
    <3>3. c' = body' /\ body' \notin Range(Q')
      BY <1>0, <1>3, <2>1 DEF Apart
    <3> QED
      BY <3>1, <3>2, <3>3 DEF Apart
  <2>3. { bodies[i] : i \in { k \in 1 .. NumEvents : Ahead(k) } }
          = { bodies[i] : i \in { k \in 1 .. NumEvents : Ahead(k)' } } \cup {bodies[n]}
    BY <1>3
  <2>4. Unmoved' = Range(Q) \cup { bodies[i] : i \in { k \in 1 .. NumEvents : Ahead(k)' } } \cup {bodies[n]}
    BY <1>3, <2>1 DEF Unmoved
  <2>5. Unmoved = Range(Q) \cup { bodies[i] : i \in { k \in 1 .. NumEvents : Ahead(k) } }
    BY <1>3 DEF Unmoved
  <2> QED
    BY <2>2, <2>3, <2>4, <2>5
<1>4. CASE ReadAll
  <2>0. /\ At = "read" /\ At' = "psev" /\ TakeSlot(1) /\ count' = 1
        /\ UNCHANGED <<queue, slots, bodies, nread>>
    BY <1>0, <1>4 DEF ReadAll, TakeSlot, Step, Goto, prioKeeps
  <2>a. nread # 0
    BY <1>0, <1>4, <2>0 DEF ReadAll, ChainType, MemoryType
  <2>1. /\ At = "read" /\ At' = "psev" /\ TakeSlot(1) /\ count' = 1
        /\ UNCHANGED <<queue, slots, bodies, nread>> /\ nread >= 1
    BY <1>0, <2>0, <2>a
  <2>2. \A i \in 1 .. NumEvents : /\ Ahead(i) <=> i <= nread
                                  /\ Ahead(i)' <=> 1 < i /\ i <= nread
    BY <2>1 DEF Ahead
  <2>3. /\ 1 \in 1 .. NumEvents /\ Ahead(1)
        /\ \A i \in 1 .. NumEvents : Ahead(i)' <=> Ahead(i) /\ i # 1
    BY <1>0, <2>1, <2>2
  <2>4. ~RenameBody
    BY <2>1 DEF RenameBody, Step
  <2> QED
    BY <1>3, <2>1, <2>3, <2>4
<1>5. CASE PanicRead
  <2> DEFINE e == Head(Q)
  <2>1. /\ At = "panic" /\ At' = "psev" /\ body' = e /\ Pop("Prioritizerd")
        /\ UNCHANGED <<slots, bodies, nread, count>> /\ left["Prioritizerd"] > 0 /\ nread = 0
    BY <1>0, <1>5 DEF PanicRead, Step, Goto, prioKeeps, ChainType, MemoryType
  <2>2. Q # <<>>
    BY <2>1 DEF ChainType, QueueType
  <2>3. Distinct(Q)
    BY <1>0 DEF Apart
  <2>4. e \in Range(Q) /\ Distinct(Q') /\ Range(Q') = Range(Q) \ {e}
    BY <1>0, <2>1, <2>2, <2>3, PoppedOne
  <2>5. eventd[e] = {"hd", "link"}
    BY <2>4 DEF Flow, SteadyPrioritizerd, Unmoved
  <2>6. c' = e
    BY <1>0, <1>5, <2>5 DEF PanicRead
  <2>7. \A i \in 1 .. NumEvents : ~Ahead(i) /\ ~Ahead(i)'
    BY <1>0, <2>1 DEF Ahead
  <2>8. ~RenameBody
    BY <2>1 DEF RenameBody, Step
  <2>9. Apart'
    BY <2>1, <2>4, <2>6, <2>7 DEF Apart
  <2>10. { bodies[i] : i \in { k \in 1 .. NumEvents : Ahead(k) } } = {}
         /\ { bodies'[i] : i \in { k \in 1 .. NumEvents : Ahead(k)' } } = {}
    BY <2>7
  <2>11. Unmoved' = Unmoved
    BY <2>1, <2>4, <2>10 DEF Unmoved
  <2> QED
    BY <2>8, <2>9, <2>11
<1>6. CASE RenameBody
  <2>1. /\ At = "psev" /\ At' = "hd" /\ UNCHANGED <<queue, cur, batch>>
    BY <1>0, <1>6 DEF RenameBody, Step, Goto, watch
  <2>2. \A i \in 1 .. NumEvents : Ahead(i)' <=> Ahead(i)
    BY <2>1 DEF Ahead, batch
  <2>3. Apart'
    BY <1>0, <2>1, <2>2 DEF Apart, batch
  <2>4. { bodies'[i] : i \in { k \in 1 .. NumEvents : Ahead(k)' } }
          = { bodies[i] : i \in { k \in 1 .. NumEvents : Ahead(k) } }
    BY <2>1, <2>2 DEF batch
  <2>5. body \notin Range(Q) \cup { bodies[i] : i \in { k \in 1 .. NumEvents : Ahead(k) } }
    BY <1>0, <2>1 DEF Apart
  <2>6. Unmoved' = Unmoved \ {body}
    BY <2>1, <2>4, <2>5 DEF Unmoved
  <2> QED
    BY <1>6, <2>3, <2>6
<1>7. ASSUME ~RenameBody, UNCHANGED <<Q, slots, bodies>>, At # "psev", At' # "psev",
             \A i \in 1 .. NumEvents : Ahead(i)' <=> Ahead(i)
      PROVE  Apart' /\ Unmoved' = Unmoved
  <2>1. Apart'
    BY <1>0, <1>7 DEF Apart
  <2>2. { bodies'[i] : i \in { k \in 1 .. NumEvents : Ahead(k)' } }
          = { bodies[i] : i \in { k \in 1 .. NumEvents : Ahead(k) } }
    BY <1>7
  <2> QED
    BY <1>7, <2>1, <2>2 DEF Unmoved
<1>8. CASE WriteForArchived \/ HeaderTelemetry
  <2>1. /\ At \in {"hd", "link", "telem"} /\ At' \in {"link", "telem", "rmLink"}
        /\ UNCHANGED <<cur, batch>>
    BY <1>0, <1>8 DEF WriteForArchived, HeaderTelemetry, Step, Goto
  <2>2. Q' = Q
    BY <1>0, <1>8 DEF WriteForArchived, HeaderTelemetry, Offer, watch
  <2>3. \A i \in 1 .. NumEvents : Ahead(i)' <=> Ahead(i)
    BY <2>1 DEF Ahead, batch
  <2>4. ~RenameBody
    BY <2>1 DEF RenameBody, Step
  <2> QED
    BY <1>7, <2>1, <2>2, <2>3, <2>4 DEF batch
<1>9. CASE DeleteInput
  <2>1. UNCHANGED <<queue, slots, bodies, nread>>
    BY <1>9 DEF DeleteInput, watch
  <2>2. At \in {"rmLink", "rmHd"} /\ ~RenameBody
    BY <1>9 DEF DeleteInput, RenameBody, Step
  <2>3. CASE /\ UNCHANGED <<cur, count, body>>
             /\ \/ At = "rmLink" /\ At' = "rmHd"
                \/ At = "rmHd" /\ At' \in {"panic", "idle"} /\ count = nread
    <3>1. \A i \in 1 .. NumEvents : Ahead(i)' <=> Ahead(i)
      BY <1>0, <2>1, <2>3 DEF Ahead
    <3> QED
      BY <1>7, <2>1, <2>2, <2>3, <3>1
  <2>4. CASE count < nread /\ At = "rmHd" /\ At' = "psev" /\ TakeSlot(count + 1)
    <3> DEFINE n == count + 1
    <3>1. n \in 1 .. NumEvents /\ count' = n
      BY <1>0, <2>4 DEF TakeSlot
    <3>2. \A i \in 1 .. NumEvents : /\ Ahead(i) <=> count < i /\ i <= nread
                                    /\ Ahead(i)' <=> n < i /\ i <= nread
      BY <2>1, <2>4, <3>1 DEF Ahead
    <3>3. Ahead(n) /\ \A i \in 1 .. NumEvents : Ahead(i)' <=> Ahead(i) /\ i # n
      BY <1>0, <2>4, <3>1, <3>2
    <3>4. TakeSlot(n)
      BY <2>4
    <3>5. PICK m \in 1 .. NumEvents : m = n
      BY <3>1
    <3> QED
      BY <1>3, <2>1, <2>2, <2>4, <3>3, <3>4, <3>5
  <2> QED
    BY <1>0, <1>9, <2>2, <2>3, <2>4 DEF DeleteInput, Step, Goto
<1> QED
  BY <1>1, <1>2, <1>4, <1>5, <1>6, <1>8, <1>9 DEF Prioritizerd, RenameBody, ReadAll, PanicRead,
     Step

\* Others do not touch that, but Eventd offers an event.
LEMMA OthersMove ==
    ASSUME ChainType, Flow, [Next]_vars, ~Prioritizerd, \A d \in Daemons : ~Scan(d) /\ ~Die(d)
    PROVE  IF MakeLink
             THEN Apart' /\ Unmoved' = Unmoved \cup {cur["Eventd"]}
             ELSE Apart' /\ Unmoved' = Unmoved
<1> USE DEF Daemons
<1> DEFINE Q == queue["Prioritizerd"]
           e == cur["Eventd"]
<1>0. /\ UNCHANGED <<pc["Prioritizerd"], cur["Prioritizerd"], batch>>
      /\ Apart /\ queue \in [Daemons -> Seq(Known)] /\ cur \in [Daemons -> Known]
      /\ pc \in [Daemons -> Positions]
  BY PrioritizerdAlone DEF Flow, SteadyPrioritizerd, ChainType, QueueType, MemoryType
<1>1. \A i \in 1 .. NumEvents : Ahead(i)' <=> Ahead(i)
  BY <1>0 DEF Ahead, batch
<1>2. { bodies'[i] : i \in { k \in 1 .. NumEvents : Ahead(k)' } }
        = { bodies[i] : i \in { k \in 1 .. NumEvents : Ahead(k) } }
  BY <1>0, <1>1 DEF batch
<1>3. CASE MakeLink
  <2>1. pc["Eventd"] = "link" /\ Offer("Prioritizerd", e)
    BY <1>3 DEF MakeLink, Step
  <2>2. eventd[e] = {"hd"} /\ prio[e] = {} /\ phase["Prioritizerd"] = "up"
    BY <2>1 DEF Flow, SteadyEventd
  <2>3. e \notin Unmoved
    BY <2>2 DEF Flow, SteadyPrioritizerd
  <2>4. e \notin Inbox("Prioritizerd")
    BY <2>2 DEF Inbox, InFiles
  <2>5. Distinct(Q') /\ Range(Q') = Range(Q) \cup {e}
    <3>1. e \in Known /\ Distinct(Q) /\ e \notin Range(Q)
      BY <1>0, <2>3 DEF Apart, Unmoved
    <3> QED
      BY <1>0, <2>1, <2>2, <2>4, <3>1, OfferedOnce
  <2>6. Apart'
    <3>1. \A i \in 1 .. NumEvents : Ahead(i) => bodies[i] # e
      BY <2>3 DEF Unmoved
    <3>2. pc["Prioritizerd"] = "psev" => body # e
      BY <2>3 DEF Unmoved
    <3> QED
      BY <1>0, <1>1, <2>5, <3>1, <3>2 DEF Apart, batch
  <2>7. Unmoved' = Unmoved \cup {e}
    BY <1>0, <1>2, <2>5 DEF Unmoved, batch
  <2> QED
    BY <1>3, <2>6, <2>7
<1>4. CASE ~MakeLink
  <2>1. Q' = Q
    <3>1. CASE WriteEventAndMakeLink
      BY <3>1 DEF WriteEventAndMakeLink, Offer
    <3>2. CASE Eventd
      BY <1>0, <1>4, <3>2 DEF Eventd, EventdTake, WriteHeaderAndMakeLink, WriteHeader, RemoveInput, Pop
    <3>3. CASE Archived
      BY <1>0, <3>3 DEF Archived, ArchivedBegin, ArchivedRead, UnlinkHeader, ProcessEvent, UnlinkBody, Pop
    <3>4. CASE (\E d \in Daemons : AddWatch(d)) \/ UNCHANGED vars
      BY <3>4 DEF AddWatch, vars, watch
    <3> QED
      BY <1>0, <3>1, <3>2, <3>3, <3>4 DEF Next
  <2>2. Apart'
    BY <1>0, <1>1, <2>1 DEF Apart, batch
  <2>3. Unmoved' = Unmoved
    BY <1>0, <1>2, <2>1 DEF Unmoved, batch
  <2> QED
    BY <1>4, <2>2, <2>3
<1> QED
  BY <1>3, <1>4

\* What Prioritizerd has been offered are events there are.
LEMMA UnmovedKnown == ASSUME ChainType PROVE Unmoved \subseteq Known /\ Unmoved \subseteq Ids
<1>1. Known \subseteq Ids /\ \A d \in Daemons : Range(queue[d]) \subseteq Known
  BY KnownIds, QueueKnown DEF ChainType
<1>2. bodies \in [1 .. NumEvents -> Known] /\ body \in Known
  BY DEF ChainType, MemoryType
<1> QED
  BY <1>1, <1>2 DEF Unmoved, Daemons

\* What a step has to keep of what Eventd, Prioritizerd and Archived do.
LEMMA FlowTypes ==
    ASSUME ChainType
    PROVE  /\ acqd \in [Ids -> SUBSET {"psev", "hd", "link"}]
           /\ eventd \in [Ids -> SUBSET {"hd", "link"}]
           /\ prio \in [Ids -> SUBSET {"psev", "hd", "link"}]
           /\ pc \in [Daemons -> Positions] /\ cur \in [Daemons -> Ids]
           /\ queue \in [Daemons -> Seq(Known)]
           /\ \A d \in Daemons : Range(queue[d]) \subseteq Ids
           /\ body \in Ids
<1>1. Known \subseteq Ids
  BY KnownIds DEF ChainType
<1> QED
  BY <1>1, QueueKnown DEF ChainType, FilesType, MemoryType, QueueType

\* Acqd's new event comes last in Eventd's queue.
LEMMA WriteFlows == ASSUME ChainType, Flow, WriteEventAndMakeLink, [Next]_vars,
                           Apart', Unmoved' = Unmoved PROVE Flow'
<1> USE DEF Daemons
<1> DEFINE n == made + 1
<1>0. /\ FilesType /\ n \in Ids /\ n \notin Known /\ acqd[n] = {} /\ eventd[n] = {} /\ prio[n] = {}
      /\ \A d \in Daemons : n \notin Range(queue[d]) /\ cur[d] # n
  <2>1. n \in Ids /\ n \notin Known
    BY ChainAssumption DEF WriteEventAndMakeLink, ChainType, FilesType, Ids, Known
  <2> QED
    BY <2>1, QueueKnown DEF ChainType, FilesType, MemoryType
<1>1. /\ Distinct(queue'["Eventd"]) /\ Range(queue'["Eventd"]) = Range(queue["Eventd"]) \cup {n}
      /\ \A c \in Daemons \ {"Eventd"} : queue'[c] = queue[c]
  <2>1. queue \in [Daemons -> Seq(Ids)]
    <3>1. \A d \in Daemons : queue[d] \in Seq(Ids)
      BY TypesImply DEF TypeOK
    <3> QED
      BY <3>1, FlowTypes
  <2>2. Offer("Eventd", n) /\ n \notin Inbox("Eventd") /\ phase["Eventd"] = "up"
    BY <1>0 DEF WriteEventAndMakeLink, Inbox, InFiles, Flow
  <2>3. Distinct(queue["Eventd"]) /\ n \notin Range(queue["Eventd"])
    BY <1>0 DEF Flow, SteadyEventd
  <2> QED
    BY <1>0, <2>1, <2>2, <2>3, OfferedOnce
<1>2. /\ acqd' = [acqd EXCEPT ![n] = {"psev", "hd", "link"}]
      /\ UNCHANGED <<eventd, prio, phase, pc, cur, readOk>>
  BY DEF WriteEventAndMakeLink
<1>3. acqd'[n] = {"psev", "hd", "link"} /\ \A f \in Ids : f # n => acqd'[f] = acqd[f]
  BY <1>0, <1>2, FlowTypes
<1>4. n \notin Unmoved
  BY <1>0 DEF Flow, SteadyPrioritizerd
<1> HIDE DEF n
<1>5. SteadyEventd'
  BY <1>0, <1>1, <1>2, <1>3, FlowTypes DEF Flow, SteadyEventd
<1>6. SteadyPrioritizerd'
  BY <1>0, <1>1, <1>2, <1>3, <1>4, FlowTypes DEF Flow, SteadyPrioritizerd
<1>7. SteadyArchived'
  BY <1>1, <1>2, FlowTypes DEF Flow, SteadyArchived
<1> QED
  BY <1>2, <1>5, <1>6, <1>7 DEF Flow

\* Eventd takes an event that is complete.
LEMMA TakeFlows == ASSUME ChainType, Flow, EventdTake, Apart', Unmoved' = Unmoved PROVE Flow'
<1> USE DEF Daemons
<1> DEFINE e == Head(queue["Eventd"])
<1>1. /\ e \in Range(queue["Eventd"]) /\ Distinct(queue'["Eventd"])
      /\ Range(queue'["Eventd"]) = Range(queue["Eventd"]) \ {e}
      /\ \A c \in Daemons \ {"Eventd"} : queue'[c] = queue[c]
  <2>1. queue["Eventd"] # <<>> /\ Pop("Eventd") /\ Distinct(queue["Eventd"])
    BY DEF EventdTake, Flow, SteadyEventd
  <2> QED
    BY <2>1, FlowTypes, PoppedOne
<1>2. acqd[e] = {"psev", "hd", "link"} /\ eventd[e] = {} /\ prio[e] = {}
  BY <1>1 DEF Flow, SteadyEventd
<1>3. /\ pc["Eventd"] = "idle" /\ pc' = [pc EXCEPT !["Eventd"] = "hd"]
      /\ cur' = [cur EXCEPT !["Eventd"] = e] /\ UNCHANGED <<acqd, eventd, prio, phase, readOk>>
  BY <1>2 DEF EventdTake, Goto, eventdKeeps
<1> HIDE DEF e
<1>4. /\ pc'["Eventd"] = "hd" /\ cur'["Eventd"] = e /\ e \in Ids
      /\ \A d \in Daemons \ {"Eventd"} : pc'[d] = pc[d] /\ cur'[d] = cur[d]
  BY <1>1, <1>3, FlowTypes
<1>5. SteadyEventd'
  BY <1>1, <1>2, <1>3, <1>4 DEF Flow, SteadyEventd
<1>6. SteadyPrioritizerd'
  BY <1>1, <1>2, <1>3, <1>4 DEF Flow, SteadyPrioritizerd
<1>7. SteadyArchived'
  BY <1>1, <1>3, <1>4 DEF Flow, SteadyArchived
<1> QED
  BY <1>3, <1>5, <1>6, <1>7 DEF Flow

\* The steps of Eventd with the event it has taken.
LEMMA WriteHeaderFlows == ASSUME ChainType, Flow, WriteHeader, Apart', Unmoved' = Unmoved PROVE Flow'
<1> USE DEF Daemons
<1> DEFINE e == cur["Eventd"]
<1>1. /\ pc["Eventd"] = "hd" /\ pc' = [pc EXCEPT !["Eventd"] = "link"]
      /\ eventd' = [eventd EXCEPT ![e] = @ \cup {"hd"}]
      /\ UNCHANGED <<acqd, prio, queue, cur, phase, readOk>>
  BY DEF WriteHeader, Step, Goto, Add, eventdKeeps
<1>2. acqd[e] = {"psev", "hd", "link"} /\ eventd[e] = {} /\ prio[e] = {}
  BY <1>1 DEF Flow, SteadyEventd
<1>3. e \in Ids /\ eventd'[e] = {"hd"} /\ \A f \in Ids : f # e => eventd'[f] = eventd[f]
  BY <1>1, <1>2, FlowTypes
<1>4. pc'["Eventd"] = "link" /\ \A d \in Daemons \ {"Eventd"} : pc'[d] = pc[d]
  BY <1>1, FlowTypes
<1>5. e \notin Unmoved /\ e \notin Range(queue["Eventd"])
  BY <1>1, <1>2 DEF Flow, SteadyEventd, SteadyPrioritizerd
<1>6. SteadyEventd'
  BY <1>1, <1>2, <1>3, <1>4, <1>5, FlowTypes DEF Flow, SteadyEventd
<1>7. SteadyPrioritizerd'
  <2>1. pc["Prioritizerd"] = "rmHd" => cur["Prioritizerd"] # e
    BY <1>2 DEF Flow, SteadyPrioritizerd
  <2>2. \A f \in Unmoved : f \in Ids /\ f # e
    BY <1>5, UnmovedKnown
  <2> QED
    BY <1>1, <1>2, <1>3, <1>4, <2>1, <2>2, FlowTypes DEF Flow, SteadyPrioritizerd
<1>8. SteadyArchived'
  BY <1>1, <1>4 DEF Flow, SteadyArchived
<1> QED
  BY <1>1, <1>6, <1>7, <1>8 DEF Flow

LEMMA MakeLinkFlows ==
    ASSUME ChainType, Flow, MakeLink, Apart', Unmoved' = Unmoved \cup {cur["Eventd"]} PROVE Flow'
<1> USE DEF Daemons
<1> DEFINE e == cur["Eventd"]
<1>1. /\ pc["Eventd"] = "link" /\ pc' = [pc EXCEPT !["Eventd"] = "rmHd"]
      /\ eventd' = [eventd EXCEPT ![e] = @ \cup {"link"}]
      /\ UNCHANGED <<acqd, prio, cur, phase, readOk>> /\ Offer("Prioritizerd", e)
  BY DEF MakeLink, Step, Goto, Add, eventdKeeps
<1>2. acqd[e] = {"psev", "hd", "link"} /\ eventd[e] = {"hd"} /\ prio[e] = {}
  BY <1>1 DEF Flow, SteadyEventd
<1>3. e \in Ids /\ eventd'[e] = {"hd", "link"} /\ \A f \in Ids : f # e => eventd'[f] = eventd[f]
  BY <1>1, <1>2, FlowTypes
<1>4. pc'["Eventd"] = "rmHd" /\ \A d \in Daemons \ {"Eventd"} : pc'[d] = pc[d]
  BY <1>1, FlowTypes
<1>5. e \notin Range(queue["Eventd"])
  BY <1>1 DEF Flow, SteadyEventd
<1>6. queue'["Eventd"] = queue["Eventd"] /\ queue'["Archived"] = queue["Archived"]
  BY <1>1, FlowTypes DEF Offer
<1>7. SteadyEventd'
  BY <1>1, <1>2, <1>3, <1>4, <1>5, <1>6, FlowTypes DEF Flow, SteadyEventd
<1>8. SteadyPrioritizerd'
  <2>1. pc["Prioritizerd"] = "rmHd" => cur["Prioritizerd"] # e
    BY <1>2 DEF Flow, SteadyPrioritizerd
  <2>2. \A f \in Unmoved : f \in Ids
    BY UnmovedKnown
  <2> QED
    BY <1>1, <1>2, <1>3, <1>4, <1>6, <2>1, <2>2, FlowTypes DEF Flow, SteadyPrioritizerd
<1>9. SteadyArchived'
  BY <1>1, <1>4, <1>6 DEF Flow, SteadyArchived
<1> QED
  BY <1>1, <1>7, <1>8, <1>9 DEF Flow

LEMMA RemoveFlows == ASSUME ChainType, Flow, RemoveInput, Apart', Unmoved' = Unmoved PROVE Flow'
<1> USE DEF Daemons
<1> DEFINE e == cur["Eventd"]
<1>1. /\ UNCHANGED <<eventd, prio, queue, cur, phase, readOk>>
      /\ \/ /\ pc["Eventd"] = "rmHd" /\ pc' = [pc EXCEPT !["Eventd"] = "rmLink"]
            /\ acqd' = [acqd EXCEPT ![e] = @ \ {"hd"}]
         \/ /\ pc["Eventd"] = "rmLink" /\ pc' = [pc EXCEPT !["Eventd"] = "idle"]
            /\ acqd' = [acqd EXCEPT ![e] = @ \ {"link"}]
  BY DEF RemoveInput, Step, Goto, Del, eventdKeeps
<1>2. /\ e \in Ids /\ "psev" \in acqd'[e] <=> "psev" \in acqd[e]
      /\ pc["Eventd"] = "rmHd" => "hd" \notin acqd'[e]
      /\ pc["Eventd"] = "rmLink" => acqd'[e] \subseteq {"psev"}
      /\ \A f \in Ids : f # e => acqd'[f] = acqd[f]
  BY <1>1, FlowTypes DEF Flow, SteadyEventd
<1>3. /\ pc["Eventd"] \in {"rmHd", "rmLink"} /\ \A d \in Daemons \ {"Eventd"} : pc'[d] = pc[d]
      /\ pc'["Eventd"] = IF pc["Eventd"] = "rmHd" THEN "rmLink" ELSE "idle"
  BY <1>1, FlowTypes
<1>4. e \notin Range(queue["Eventd"])
  BY <1>3 DEF Flow, SteadyEventd
<1>5. SteadyEventd'
  BY <1>1, <1>2, <1>3, <1>4, FlowTypes DEF Flow, SteadyEventd
<1>6. SteadyPrioritizerd'
  <2>1. \A f \in Unmoved : f \in Ids
    BY UnmovedKnown
  <2>2. \A f \in Ids : "psev" \in acqd'[f] <=> "psev" \in acqd[f]
    BY <1>2
  <2> QED
    BY <1>1, <1>3, <2>1, <2>2, FlowTypes DEF Flow, SteadyPrioritizerd
<1>7. SteadyArchived'
  BY <1>1, <1>3 DEF Flow, SteadyArchived
<1> QED
  BY <1>1, <1>5, <1>6, <1>7 DEF Flow

\* Prioritizerd reads a batch, or the next event in a panic: no file changes.
LEMMA BatchFlows ==
    ASSUME ChainType, Flow, PrioritizerdBegin \/ ReadIn \/ ReadAll \/ PanicRead,
           Apart', Unmoved' = Unmoved
    PROVE  Flow'
<1> USE DEF Daemons
<1>1. /\ pc["Prioritizerd"] \in {"idle", "read", "panic"}
      /\ pc'["Prioritizerd"] \in {"read", "panic", "psev"}
      /\ \A d \in Daemons \ {"Prioritizerd"} : pc'[d] = pc[d] /\ cur'[d] = cur[d]
  <2>1. pc \in [Daemons -> Positions] /\ cur \in [Daemons -> Ids]
    BY FlowTypes
  <2>2. CASE PrioritizerdBegin
    BY <2>1, <2>2 DEF PrioritizerdBegin, Step, Goto
  <2>3. CASE ReadIn
    BY <2>1, <2>3 DEF ReadIn
  <2>4. CASE ReadAll
    BY <2>1, <2>4 DEF ReadAll, Step, Goto, TakeSlot
  <2>5. CASE PanicRead
    BY <2>1, <2>5 DEF PanicRead, Step, Goto
  <2> QED
    BY <2>2, <2>3, <2>4, <2>5
<1>2. /\ UNCHANGED <<acqd, eventd, prio, phase, readOk>>
      /\ queue'["Eventd"] = queue["Eventd"] /\ queue'["Archived"] = queue["Archived"]
  BY FlowTypes DEF PrioritizerdBegin, ReadIn, ReadAll, PanicRead, prioKeeps, Pop
<1>3. SteadyEventd'
  BY <1>1, <1>2 DEF Flow, SteadyEventd
<1>4. SteadyPrioritizerd'
  BY <1>1, <1>2 DEF Flow, SteadyPrioritizerd
<1>5. SteadyArchived'
  BY <1>1, <1>2 DEF Flow, SteadyArchived
<1> QED
  BY <1>2, <1>3, <1>4, <1>5 DEF Flow

\* The waveforms are moved on.
LEMMA RenameFlows ==
    ASSUME ChainType, Flow, RenameBody, Apart', Unmoved' = Unmoved \ {body} PROVE Flow'
<1> USE DEF Daemons
<1> DEFINE e == cur["Prioritizerd"]
<1>1. /\ pc["Prioritizerd"] = "psev" /\ pc' = [pc EXCEPT !["Prioritizerd"] = "hd"]
      /\ UNCHANGED <<eventd, queue, phase, cur, readOk>>
      /\ IF "psev" \in acqd[body] THEN /\ acqd' = [acqd EXCEPT ![body] = @ \ {"psev"}]
                                       /\ prio' = [prio EXCEPT ![e] = @ \cup {"psev"}]
                                  ELSE UNCHANGED <<acqd, prio>>
  BY DEF RenameBody, Step, Goto, Add, Del, watch
<1>2. e = body /\ e \in Unmoved /\ e \in Ids
  BY <1>1, UnmovedKnown DEF Flow, SteadyPrioritizerd, Apart, Unmoved
<1>3. eventd[e] = {"hd", "link"} /\ "psev" \in acqd[e] /\ prio[e] = {}
  BY <1>2 DEF Flow, SteadyPrioritizerd
<1>4. /\ prio'[e] = {"psev"} /\ acqd'[e] = acqd[e] \ {"psev"}
      /\ \A f \in Ids : f # e => acqd'[f] = acqd[f] /\ prio'[f] = prio[f]
  BY <1>1, <1>2, <1>3, FlowTypes
<1>5. pc'["Prioritizerd"] = "hd" /\ \A d \in Daemons \ {"Prioritizerd"} : pc'[d] = pc[d]
  BY <1>1, FlowTypes
<1>6. e \notin Range(queue["Eventd"]) /\ (pc["Eventd"] \in {"hd", "link"} => cur["Eventd"] # e)
  BY <1>3 DEF Flow, SteadyEventd
<1>7. /\ e \notin Range(queue["Archived"])
      /\ pc["Archived"] \in {"rmHd", "rmLink", "process", "rmBody"} => cur["Archived"] # e
  BY <1>3 DEF Flow, SteadyArchived
<1>8. SteadyEventd'
  BY <1>1, <1>4, <1>5, <1>6, FlowTypes DEF Flow, SteadyEventd
<1>9. SteadyPrioritizerd'
  <2>1. \A f \in Unmoved' : f \in Unmoved /\ f # e /\ f \in Ids
    BY <1>2, UnmovedKnown
  <2>2. \A f \in Unmoved : f \in Unmoved' \/ f = e
    BY <1>2
  <2> QED
    BY <1>1, <1>3, <1>4, <1>5, <2>1, <2>2, FlowTypes DEF Flow, SteadyPrioritizerd
<1>10. SteadyArchived'
  BY <1>1, <1>4, <1>5, <1>7, FlowTypes DEF Flow, SteadyArchived
<1> QED
  BY <1>1, <1>8, <1>9, <1>10 DEF Flow

\* The event Prioritizerd writes out is Eventd's no more and not to be moved again.
LEMMA MovedOn ==
    ASSUME ChainType, Flow, pc["Prioritizerd"] \in {"hd", "link", "telem", "rmLink", "rmHd"}
    PROVE  LET e == cur["Prioritizerd"] IN
           /\ e \in Ids /\ e \notin Unmoved /\ e \notin Range(queue["Eventd"])
           /\ pc["Eventd"] \in {"hd", "link"} => cur["Eventd"] # e
<1> DEFINE e == cur["Prioritizerd"]
<1>1. "psev" \notin acqd[e] /\ e \in Ids
  BY FlowTypes DEF Flow, SteadyPrioritizerd, Daemons
<1> QED
  BY <1>1 DEF Flow, SteadyEventd, SteadyPrioritizerd

\* The header is written, then the link.
LEMMA OutputFlows ==
    ASSUME ChainType, Flow, WriteForArchived, Apart', Unmoved' = Unmoved PROVE Flow'
<1> USE DEF Daemons
<1> DEFINE e == cur["Prioritizerd"]
<1>1. /\ UNCHANGED <<acqd, eventd, phase, cur, readOk>>
      /\ \/ /\ pc["Prioritizerd"] = "hd" /\ pc' = [pc EXCEPT !["Prioritizerd"] = "link"]
            /\ prio' = [prio EXCEPT ![e] = @ \cup {"hd"}] /\ UNCHANGED queue
         \/ /\ pc["Prioritizerd"] = "link" /\ pc' = [pc EXCEPT !["Prioritizerd"] = "telem"]
            /\ prio' = [prio EXCEPT ![e] = @ \cup {"link"}] /\ Offer("Archived", e)
  BY DEF WriteForArchived, Step, Goto, Add
<1>2. /\ e \in Ids /\ e \notin Unmoved /\ e \notin Range(queue["Eventd"])
      /\ pc["Eventd"] \in {"hd", "link"} => cur["Eventd"] # e
      /\ "psev" \notin acqd[e]
  BY <1>1, MovedOn DEF Flow, SteadyPrioritizerd
<1>3. /\ e \notin Range(queue["Archived"])
      /\ pc["Archived"] \in {"rmHd", "rmLink", "process", "rmBody"} => cur["Archived"] # e
  BY <1>1 DEF Flow, SteadyArchived, SteadyPrioritizerd
<1>4. \A f \in Ids : f # e => prio'[f] = prio[f]
  BY <1>1, <1>2, FlowTypes
<1>5. \A d \in Daemons \ {"Prioritizerd"} : pc'[d] = pc[d]
  BY <1>1, FlowTypes
<1>6. queue'["Eventd"] = queue["Eventd"]
  BY <1>1, FlowTypes DEF Offer
<1>7. SteadyEventd'
  BY <1>1, <1>2, <1>4, <1>5, <1>6, FlowTypes DEF Flow, SteadyEventd
<1>8. \A f \in Unmoved : f \in Ids /\ f # e
  BY <1>2, UnmovedKnown
<1>9. CASE pc["Prioritizerd"] = "hd"
  <2>1. /\ prio[e] = {"psev"} /\ prio'[e] = {"psev", "hd"} /\ pc'["Prioritizerd"] = "link"
        /\ queue' = queue
    BY <1>1, <1>2, <1>9, FlowTypes DEF Flow, SteadyPrioritizerd
  <2>2. SteadyPrioritizerd'
    BY <1>1, <1>2, <1>4, <1>5, <1>6, <1>8, <1>9, <2>1, FlowTypes DEF Flow, SteadyPrioritizerd
  <2>3. SteadyArchived'
    BY <1>1, <1>3, <1>4, <1>5, <1>9, <2>1, FlowTypes DEF Flow, SteadyArchived
  <2> QED
    BY <1>1, <1>7, <2>2, <2>3 DEF Flow
<1>10. CASE pc["Prioritizerd"] = "link"
  <2>1. /\ prio[e] = {"psev", "hd"} /\ prio'[e] = {"psev", "hd", "link"}
        /\ pc'["Prioritizerd"] = "telem" /\ Offer("Archived", e)
    BY <1>1, <1>2, <1>10, FlowTypes DEF Flow, SteadyPrioritizerd
  <2>2. SteadyPrioritizerd'
    BY <1>1, <1>2, <1>4, <1>5, <1>6, <1>8, <1>10, <2>1, FlowTypes DEF Flow, SteadyPrioritizerd
  <2>3. /\ Distinct(queue'["Archived"])
        /\ Range(queue'["Archived"]) = Range(queue["Archived"]) \cup {e}
    <3>1. e \notin Inbox("Archived") /\ phase["Archived"] = "up" /\ Distinct(queue["Archived"])
      BY <2>1 DEF Inbox, InFiles, Flow, SteadyArchived
    <3>2. e \in Known
      BY DEF ChainType, MemoryType
    <3> QED
      BY <1>3, <2>1, <3>1, <3>2, FlowTypes, OfferedOnce
  <2>4. SteadyArchived'
    BY <1>1, <1>3, <1>4, <1>5, <1>10, <2>1, <2>3, FlowTypes DEF Flow, SteadyArchived
  <2> QED
    BY <1>1, <1>7, <2>2, <2>4 DEF Flow
<1> QED
  BY <1>1, <1>9, <1>10

LEMMA TelemetryFlows ==
    ASSUME ChainType, Flow, HeaderTelemetry, Apart', Unmoved' = Unmoved PROVE Flow'
<1> USE DEF Daemons
<1>1. /\ UNCHANGED <<acqd, eventd, prio, queue, phase, cur, readOk>>
      /\ pc["Prioritizerd"] = "telem" /\ pc'["Prioritizerd"] = "rmLink"
      /\ \A d \in Daemons \ {"Prioritizerd"} : pc'[d] = pc[d]
  BY FlowTypes DEF HeaderTelemetry, Step, Goto, files, watch
<1>2. SteadyEventd'
  BY <1>1 DEF Flow, SteadyEventd
<1>3. SteadyPrioritizerd'
  BY <1>1 DEF Flow, SteadyPrioritizerd
<1>4. SteadyArchived'
  BY <1>1 DEF Flow, SteadyArchived
<1> QED
  BY <1>1, <1>2, <1>3, <1>4 DEF Flow

\* What is left in Eventd's directory goes.
LEMMA DeleteFlows ==
    ASSUME ChainType, Flow, DeleteInput, Apart', Unmoved' = Unmoved PROVE Flow'
<1> USE DEF Daemons
<1> DEFINE e == cur["Prioritizerd"]
<1>1. /\ UNCHANGED <<acqd, prio, queue, phase, readOk>>
      /\ \/ /\ pc["Prioritizerd"] = "rmLink" /\ pc'["Prioritizerd"] = "rmHd" /\ cur' = cur
            /\ eventd' = [eventd EXCEPT ![e] = @ \ {"link"}]
         \/ /\ pc["Prioritizerd"] = "rmHd" /\ pc'["Prioritizerd"] \in {"psev", "panic", "idle"}
            /\ eventd' = [eventd EXCEPT ![e] = @ \ {"hd"}]
      /\ \A d \in Daemons \ {"Prioritizerd"} : pc'[d] = pc[d] /\ cur'[d] = cur[d]
  BY FlowTypes DEF DeleteInput, Step, Goto, Del, watch, TakeSlot
<1>2. /\ e \in Ids /\ e \notin Unmoved /\ e \notin Range(queue["Eventd"])
      /\ pc["Eventd"] \in {"hd", "link"} => cur["Eventd"] # e
      /\ "psev" \notin acqd[e]
  BY <1>1, MovedOn DEF Flow, SteadyPrioritizerd
<1>3. /\ \A f \in Ids : f # e => eventd'[f] = eventd[f]
      /\ pc["Prioritizerd"] = "rmLink" => "link" \notin eventd'[e]
      /\ pc["Prioritizerd"] = "rmHd" => eventd'[e] = {}
  BY <1>1, <1>2, FlowTypes DEF Flow, SteadyPrioritizerd
<1>4. SteadyEventd'
  BY <1>1, <1>2, <1>3, FlowTypes DEF Flow, SteadyEventd
<1>5. SteadyPrioritizerd'
  <2>1. \A f \in Unmoved : f \in Ids /\ f # e
    BY <1>2, UnmovedKnown
  <2> QED
    BY <1>1, <1>2, <1>3, <2>1, FlowTypes DEF Flow, SteadyPrioritizerd
<1>6. SteadyArchived'
  BY <1>1 DEF Flow, SteadyArchived
<1> QED
  BY <1>1, <1>4, <1>5, <1>6 DEF Flow

\* Archived begins a batch.
LEMMA ArchiveBeginFlows ==
    ASSUME ChainType, Flow, ArchivedBegin, Apart', Unmoved' = Unmoved PROVE Flow'
<1> USE DEF Daemons
<1>1. /\ UNCHANGED <<acqd, eventd, prio, queue, phase, cur, readOk>>
      /\ pc["Archived"] = "idle" /\ pc'["Archived"] = "read"
      /\ \A d \in Daemons \ {"Archived"} : pc'[d] = pc[d]
  BY FlowTypes DEF ArchivedBegin, Step, Goto, archKeeps
<1>2. SteadyEventd'
  BY <1>1 DEF Flow, SteadyEventd
<1>3. SteadyPrioritizerd'
  BY <1>1 DEF Flow, SteadyPrioritizerd
<1>4. SteadyArchived'
  BY <1>1 DEF Flow, SteadyArchived
<1> QED
  BY <1>1, <1>2, <1>3, <1>4 DEF Flow

\* It takes an event that is complete.
LEMMA ArchiveReadFlows ==
    ASSUME ChainType, Flow, ArchivedRead, Apart', Unmoved' = Unmoved PROVE Flow'
<1> USE DEF Daemons
<1> DEFINE e == Head(queue["Archived"])
<1>1. /\ pc["Archived"] = "read" /\ pc'["Archived"] = "rmHd" /\ cur'["Archived"] = e
      /\ readOk' = ("hd" \in prio[e]) /\ Pop("Archived")
      /\ UNCHANGED <<acqd, eventd, prio, phase>>
      /\ \A d \in Daemons \ {"Archived"} : pc'[d] = pc[d] /\ cur'[d] = cur[d]
  BY FlowTypes DEF ArchivedRead, Step, Goto, archKeeps
<1>2. /\ e \in Range(queue["Archived"]) /\ Distinct(queue'["Archived"])
      /\ Range(queue'["Archived"]) = Range(queue["Archived"]) \ {e}
      /\ \A c \in Daemons \ {"Archived"} : queue'[c] = queue[c]
  <2>1. Distinct(queue["Archived"])
    BY DEF Flow, SteadyArchived
  <2>2. left["Archived"] > 0 /\ left["Archived"] <= Len(queue["Archived"])
    BY <1>1 DEF ChainType, QueueType, MemoryType
  <2>3. queue["Archived"] # <<>>
    BY <2>2 DEF ChainType, QueueType
  <2> QED
    BY <1>1, <2>1, <2>3, FlowTypes, PoppedOne
<1> HIDE DEF e
<1>3. prio[e] = {"psev", "hd", "link"} /\ e \in Ids
  BY <1>2, FlowTypes DEF Flow, SteadyArchived
<1>4. SteadyEventd'
  BY <1>1, <1>2 DEF Flow, SteadyEventd
<1>5. SteadyPrioritizerd'
  BY <1>1, <1>2 DEF Flow, SteadyPrioritizerd
<1>6. SteadyArchived'
  <2>1. ~(pc["Prioritizerd"] \in {"hd", "link"} /\ cur["Prioritizerd"] = e)
    BY <1>3 DEF Flow, SteadyPrioritizerd
  <2> QED
    BY <1>1, <1>2, <1>3, <2>1 DEF Flow, SteadyArchived
<1> QED
  BY <1>1, <1>4, <1>5, <1>6 DEF Flow

\* What Archived has taken is Eventd's and Prioritizerd's no more.
LEMMA TakenOver ==
    ASSUME ChainType, Flow, pc["Archived"] \in {"rmHd", "rmLink", "process", "rmBody"}
    PROVE  LET e == cur["Archived"] IN
           /\ e \in Ids /\ e \notin Unmoved /\ e \notin Range(queue["Eventd"])
           /\ pc["Eventd"] \in {"hd", "link"} => cur["Eventd"] # e
           /\ pc["Prioritizerd"] \in {"hd", "link"} => cur["Prioritizerd"] # e
           /\ e \notin Range(queue["Archived"])
<1> DEFINE e == cur["Archived"]
<1>1. prio[e] # {} /\ e \in Ids
  BY FlowTypes DEF Flow, SteadyArchived, Daemons
<1> QED
  BY <1>1 DEF Flow, SteadyEventd, SteadyPrioritizerd, SteadyArchived

\* Header and link go, then the waveforms.
LEMMA UnlinkFlows ==
    ASSUME ChainType, Flow, UnlinkHeader \/ ProcessEvent \/ UnlinkBody, Apart', Unmoved' = Unmoved
    PROVE  Flow'
<1> USE DEF Daemons
<1> DEFINE e == cur["Archived"]
<1>1. /\ UNCHANGED <<acqd, eventd, queue, phase, cur, readOk>>
      /\ \A d \in Daemons \ {"Archived"} : pc'[d] = pc[d]
      /\ \/ /\ pc["Archived"] = "rmHd" /\ pc'["Archived"] = "rmLink"
            /\ prio' = [prio EXCEPT ![e] = @ \ {"hd"}]
         \/ /\ pc["Archived"] = "rmLink" /\ (readOk => pc'["Archived"] = "process")
            /\ prio' = [prio EXCEPT ![e] = @ \ {"link"}]
         \/ /\ pc["Archived"] = "process" /\ pc'["Archived"] = "rmBody" /\ prio' = prio
         \/ /\ pc["Archived"] = "rmBody" /\ pc'["Archived"] \in {"read", "idle"}
            /\ prio' = [prio EXCEPT ![e] = @ \ {"psev"}]
  <2>1. pc \in [Daemons -> Positions]
    BY FlowTypes
  <2>2. CASE UnlinkHeader
    BY <2>1, <2>2 DEF UnlinkHeader, Step, Goto, Del, archKeeps
  <2>3. CASE ProcessEvent
    BY <2>1, <2>3 DEF ProcessEvent, Step, Goto, archKeeps
  <2>4. CASE UnlinkBody
    BY <2>1, <2>4 DEF UnlinkBody, Step, Goto, Del, archKeeps, NextOfBatch
  <2> QED
    BY <2>2, <2>3, <2>4
<1>2. /\ e \in Ids /\ e \notin Unmoved /\ e \notin Range(queue["Eventd"])
      /\ pc["Eventd"] \in {"hd", "link"} => cur["Eventd"] # e
      /\ pc["Prioritizerd"] \in {"hd", "link"} => cur["Prioritizerd"] # e
      /\ e \notin Range(queue["Archived"])
  BY <1>1, TakenOver
<1>3. /\ \A f \in Ids : f # e => prio'[f] = prio[f]
      /\ pc["Archived"] = "rmHd" => prio'[e] = {"psev", "link"}
      /\ pc["Archived"] = "rmLink" => prio'[e] = {"psev"} /\ readOk
      /\ pc["Archived"] = "process" => prio'[e] = {"psev"}
      /\ pc["Archived"] = "rmBody" => prio'[e] = {}
  BY <1>1, <1>2, FlowTypes DEF Flow, SteadyArchived
<1>4. SteadyEventd'
  BY <1>1, <1>2, <1>3, FlowTypes DEF Flow, SteadyEventd
<1>5. SteadyPrioritizerd'
  <2>1. \A f \in Unmoved : f \in Ids /\ f # e
    BY <1>2, UnmovedKnown
  <2> QED
    BY <1>1, <1>2, <1>3, <2>1, FlowTypes DEF Flow, SteadyPrioritizerd
<1>6. SteadyArchived'
  BY <1>1, <1>2, <1>3, FlowTypes DEF Flow, SteadyArchived
<1> QED
  BY <1>1, <1>4, <1>5, <1>6 DEF Flow

\* Steady running has been steady before.
LEMMA SteadyBefore ==
    ASSUME deaths \in Nat, [Next]_vars
    PROVE  deaths' \in Nat /\ (Steady' => Steady /\ \A d \in Daemons : ~Die(d))
<1>1. CASE \E d \in Daemons : Die(d)
  BY <1>1 DEF Steady, Die
<1>2. CASE \A d \in Daemons : ~Die(d)
  <2>1. UNCHANGED lives
    BY <1>2 DEF Next, vars, WriteEventAndMakeLink, AddWatch, Scan,
       Eventd, EventdTake, WriteHeaderAndMakeLink, WriteHeader, MakeLink, RemoveInput,
       eventdKeeps, Prioritizerd, PrioritizerdBegin, ReadIn, ReadAll, PanicRead, RenameBody,
       WriteForArchived, HeaderTelemetry, DeleteInput, prioKeeps, Archived, ArchivedBegin,
       ArchivedRead, UnlinkHeader, ProcessEvent, UnlinkBody, archKeeps
  <2> QED
    BY <1>2, <2>1 DEF Steady, lives
<1> QED
  BY <1>1, <1>2

\* In steady running the files stay as the daemons expect them.
LEMMA SteadyStep == ChainType /\ SteadyInv /\ [Next]_vars => SteadyInv'
<1> SUFFICES ASSUME ChainType, SteadyInv, [Next]_vars PROVE SteadyInv'
  OBVIOUS
<1> USE DEF Daemons
<1>1. deaths' \in Nat /\ (Steady' => Steady /\ \A d \in Daemons : ~Die(d))
  BY SteadyBefore DEF SteadyInv
<1> SUFFICES ASSUME Flow, \A d \in Daemons : ~Die(d) PROVE Flow'
  BY <1>1 DEF SteadyInv
<1>2. \A d \in Daemons : ~AddWatch(d) /\ ~Scan(d) /\ ~Die(d)
  BY DEF Flow, AddWatch, Scan
<1>3. CASE Prioritizerd
  <2>1. Apart' /\ Unmoved' = IF RenameBody THEN Unmoved \ {body} ELSE Unmoved
    BY <1>3, PrioritizerdMoves
  <2>2. CASE RenameBody
    BY <2>1, <2>2, RenameFlows
  <2>3. CASE ~RenameBody
    BY <1>3, <2>1, <2>3, BatchFlows, OutputFlows, TelemetryFlows, DeleteFlows DEF Prioritizerd
  <2> QED
    BY <2>2, <2>3
<1>4. CASE ~Prioritizerd
  <2>1. IF MakeLink THEN Apart' /\ Unmoved' = Unmoved \cup {cur["Eventd"]}
                    ELSE Apart' /\ Unmoved' = Unmoved
    BY <1>2, <1>4, OthersMove
  <2>2. CASE MakeLink
    BY <2>1, <2>2, MakeLinkFlows
  <2>3. CASE ~MakeLink
    <3>1. Apart' /\ Unmoved' = Unmoved
      BY <2>1, <2>3
    <3>2. CASE WriteEventAndMakeLink
      BY <3>1, <3>2, WriteFlows
    <3>3. CASE Eventd
      BY <2>3, <3>1, <3>3, TakeFlows, WriteHeaderFlows, RemoveFlows DEF Eventd, WriteHeaderAndMakeLink
    <3>4. CASE Archived
      BY <3>1, <3>4, ArchiveBeginFlows, ArchiveReadFlows, UnlinkFlows DEF Archived
    <3>5. CASE UNCHANGED vars
      <4>1. UNCHANGED <<acqd, eventd, prio, phase, queue, pc, cur, readOk>>
        BY <3>5 DEF vars, files, watch
      <4>2. SteadyEventd'
        BY <4>1 DEF Flow, SteadyEventd
      <4>3. SteadyPrioritizerd'
        BY <3>1, <4>1 DEF Flow, SteadyPrioritizerd
      <4>4. SteadyArchived'
        BY <4>1 DEF Flow, SteadyArchived
      <4> QED
        BY <4>1, <4>2, <4>3, <4>4 DEF Flow
    <3> QED
      BY <1>2, <1>4, <3>2, <3>3, <3>4, <3>5 DEF Next
  <2> QED
    BY <2>2, <2>3
<1> QED
  BY <1>3, <1>4

LEMMA SteadyStart == Init => SteadyInv
<1> SUFFICES ASSUME Init PROVE SteadyInv
  OBVIOUS
<1> USE DEF Daemons
<1>1. Distinct(<<>>) /\ Range(<<>>) = {}
  BY DEF Distinct, Range
<1>2. /\ \A d \in Daemons : queue[d] = <<>> /\ pc[d] = "idle"
      /\ \A f \in Ids : acqd[f] = {} /\ eventd[f] = {} /\ prio[f] = {}
      /\ Steady => \A d \in Daemons : phase[d] = "up"
      /\ deaths = 0
  BY DEF Init, Steady
<1>3. \A i \in 1 .. NumEvents : ~Ahead(i)
  BY <1>2 DEF Ahead
<1>4. Unmoved = {} /\ Apart
  BY <1>1, <1>2, <1>3 DEF Unmoved, Apart
<1>5. SteadyEventd
  BY <1>1, <1>2 DEF SteadyEventd
<1>6. SteadyPrioritizerd
  BY <1>1, <1>2, <1>4 DEF SteadyPrioritizerd
<1>7. SteadyArchived
  BY <1>1, <1>2 DEF SteadyArchived
<1> QED
  BY <1>2, <1>5, <1>6, <1>7 DEF SteadyInv, Flow

\* Waveforms that go have been written out.
LEMMA KeepStep ==
    ASSUME Decimated = {}, ChainType, SteadyInv, SteadyInv', KeepInv, [Next]_vars
    PROVE  KeepInv'
<1> USE DEF Daemons
<1>1. Steady' => Steady /\ \A d \in Daemons : ~Die(d)
  BY SteadyBefore DEF SteadyInv
<1> SUFFICES ASSUME Steady', Steady, Flow, \A d \in Daemons : ~Die(d),
                    ~justHeader, pc["Archived"] = "rmBody" => waves[cur["Archived"]] > 0,
                    UndecimatedKeepWaveforms
             PROVE  /\ ~justHeader'
                    /\ pc'["Archived"] = "rmBody" => waves'[cur'["Archived"]] > 0
                    /\ UndecimatedKeepWaveforms'
  BY <1>1 DEF SteadyInv, KeepInv
<1>2. \A d \in Daemons : ~AddWatch(d) /\ ~Scan(d) /\ ~Die(d)
  BY DEF Flow, AddWatch, Scan
<1>3. /\ pc \in [Daemons -> Positions] /\ cur \in [Daemons -> Ids] /\ waves \in [Ids -> Nat]
      /\ made \in Nat /\ 1 .. made \subseteq Ids
  <2>1. made \in 0 .. MaxEvent /\ waves \in [Ids -> Nat]
    BY DEF ChainType, FilesType
  <2>2. made \in Nat /\ 1 .. made \subseteq Ids
    BY <2>1, ChainAssumption DEF Ids
  <2> QED
    BY <2>1, <2>2, FlowTypes
<1>4. CASE ProcessEvent
  <2> DEFINE e == cur["Archived"]
  <2>1. pc["Archived"] = "process" /\ prio[e] = {"psev"}
    BY <1>4 DEF ProcessEvent, Step, Flow, SteadyArchived
  <2>2. justHeader' = FALSE /\ UNCHANGED <<made, acqd, prio, cur, thrown>>
    BY <1>4, <2>1 DEF ProcessEvent, archKeeps
  <2>3. waves' = [waves EXCEPT ![e] = @ + 1]
    BY <1>4, <2>2 DEF ProcessEvent
  <2>4. waves'[e] > 0 /\ \A f \in Ids : waves[f] > 0 => waves'[f] > 0
    BY <1>3, <2>3
  <2> QED
    BY <1>3, <2>2, <2>4 DEF UndecimatedKeepWaveforms
<1>5. CASE ~ProcessEvent
  <2>1. UNCHANGED <<waves, thrown>> /\ ~justHeader'
    BY <1>2, <1>5 DEF Next, vars, disk, WriteEventAndMakeLink,
       Eventd, EventdTake, WriteHeaderAndMakeLink, WriteHeader, MakeLink, RemoveInput,
       eventdKeeps, Prioritizerd, PrioritizerdBegin, ReadIn, ReadAll, PanicRead, RenameBody,
       WriteForArchived, HeaderTelemetry, DeleteInput, prioKeeps, Archived, ArchivedBegin,
       ArchivedRead, UnlinkHeader, UnlinkBody, archKeeps
  <2>2. pc'["Archived"] = "rmBody" => pc["Archived"] = "rmBody" /\ cur'["Archived"] = cur["Archived"]
    <3>1. CASE Archived
      BY <1>3, <1>5, <3>1 DEF Archived, ArchivedBegin, ArchivedRead, UnlinkHeader, UnlinkBody, Step,
         Goto, NextOfBatch
    <3>2. CASE ~Archived
      BY <1>2, <3>2, ArchivedAlone
    <3> QED
      BY <3>1, <3>2
  <2>3. ASSUME NEW e \in 1 .. made'
        PROVE  "psev" \in acqd'[e] \cup prio'[e] \/ waves[e] > 0 \/ e \in thrown
    <3>1. CASE WriteEventAndMakeLink
      <4>1. /\ made' = made + 1 /\ acqd' = [acqd EXCEPT ![made + 1] = {"psev", "hd", "link"}]
            /\ prio' = prio /\ made + 1 \in Ids
        BY <1>3, <3>1, ChainAssumption DEF WriteEventAndMakeLink, Ids
      <4>2. e = made + 1 \/ e \in 1 .. made
        BY <1>3, <4>1
      <4> QED
        BY <1>3, <4>1, <4>2, FlowTypes DEF UndecimatedKeepWaveforms
    <3>2. CASE ~WriteEventAndMakeLink
      <4>1. made' = made
        BY <1>2, <3>2 DEF Next, vars,
           Eventd, EventdTake, WriteHeaderAndMakeLink, WriteHeader, MakeLink, RemoveInput,
           eventdKeeps, Prioritizerd, PrioritizerdBegin, ReadIn, ReadAll, PanicRead, RenameBody,
           WriteForArchived, HeaderTelemetry, DeleteInput, prioKeeps, Archived, ArchivedBegin,
           ArchivedRead, UnlinkHeader, ProcessEvent, UnlinkBody, archKeeps
      <4>2. e \in Ids /\ ("psev" \in acqd[e] \cup prio[e] \/ waves[e] > 0 \/ e \in thrown)
        BY <1>3, <4>1 DEF UndecimatedKeepWaveforms
      <4>3. CASE RenameBody
        <5>1. body = cur["Prioritizerd"]
          BY <4>3 DEF RenameBody, Step, Flow, SteadyPrioritizerd, Apart
        <5>2. body \in Ids /\ prio \in [Ids -> SUBSET {"psev", "hd", "link"}]
              /\ acqd \in [Ids -> SUBSET {"psev", "hd", "link"}]
          BY FlowTypes
        <5>3. CASE UNCHANGED <<acqd, prio>>
          BY <4>2, <5>3
        <5>4. CASE /\ acqd' = [acqd EXCEPT ![body] = @ \ {"psev"}]
                   /\ prio' = [prio EXCEPT ![body] = @ \cup {"psev"}]
          <6>1. /\ "psev" \in prio'[body]
                /\ e # body => acqd'[e] = acqd[e] /\ prio'[e] = prio[e]
            BY <4>2, <5>2, <5>4
          <6> QED
            BY <4>2, <6>1
        <5> QED
          BY <4>3, <5>1, <5>3, <5>4 DEF RenameBody, Add, Del
      <4>4. CASE UnlinkBody
        BY <4>2, <4>4, FlowTypes DEF UnlinkBody, Step, Del, archKeeps
      <4>5. CASE UnlinkHeader \/ EventdTake \/ RemoveInput
        <5>1. "psev" \in acqd[e] => "psev" \in acqd'[e]
          <6>1. acqd' = acqd \/ \E f, S : "psev" \notin S /\ acqd' = [acqd EXCEPT ![f] = @ \ S]
            <7>1. CASE UnlinkHeader
              BY <7>1 DEF UnlinkHeader, archKeeps
            <7>2. CASE EventdTake
              <8>1. acqd' = acqd \/ \E f : acqd' = [acqd EXCEPT ![f] = @ \ {"hd", "link"}]
                BY <7>2 DEF EventdTake
              <8> QED
                BY <8>1
            <7>3. CASE RemoveInput
              <8>1. \E f : \/ acqd' = [acqd EXCEPT ![f] = @ \ {"hd"}]
                           \/ acqd' = [acqd EXCEPT ![f] = @ \ {"link"}]
                BY <7>3 DEF RemoveInput, Del
              <8> QED
                BY <8>1
            <7> QED
              BY <4>5, <7>1, <7>2, <7>3
          <6> QED
            BY <4>2, <6>1, FlowTypes
        <5>2. "psev" \in prio[e] => "psev" \in prio'[e]
          BY <4>2, <4>5, FlowTypes DEF UnlinkHeader, EventdTake, RemoveInput, Del, archKeeps
        <5> QED
          BY <4>2, <5>1, <5>2
      <4>6. CASE ~RenameBody /\ ~UnlinkBody /\ ~UnlinkHeader /\ ~EventdTake /\ ~RemoveInput
        BY <4>2, <4>6, FilesGo
      <4> QED
        BY <4>3, <4>4, <4>5, <4>6
    <3> QED
      BY <3>1, <3>2
  <2> QED
    BY <2>1, <2>2, <2>3 DEF UndecimatedKeepWaveforms
<1> QED
  BY <1>4, <1>5
-----------------------------------------------------------------------------
(* The theorems *)

\* Nothing has been written or told at first.
LEMMA Start == Init => ChainType /\ Matching /\ PassedOn /\ HeaderNeverLost /\ OnePlace
<1> SUFFICES ASSUME Init PROVE ChainType /\ Matching /\ PassedOn /\ HeaderNeverLost /\ OnePlace
  OBVIOUS
<1> USE DEF Init, Daemons
<1>0. 0 \in Ids /\ Known = {0} /\ MaxEvent \in Nat /\ NumEvents \in Nat \ {0}
  BY ChainAssumption DEF Ids, Known
<1>1. FilesType /\ MemoryType
  BY <1>0 DEF FilesType, MemoryType, Positions
<1>2. QueueType
  <2>1. <<>> \in Seq(Known) /\ Len(<<>>) = 0
    OBVIOUS
  <2> QED
    BY <2>1 DEF QueueType
<1>3. \A d \in Daemons : Range(queue[d]) = {}
  BY DEF Range
<1>4. Matching
  BY <1>0, <1>3 DEF Matching, Readable, Ahead, Match
<1>5. PassedOn
  BY <1>0, <1>3 DEF PassedOn
<1>6. HeaderNeverLost
  BY DEF HeaderNeverLost
<1>7. OnePlace
  BY <1>0 DEF OnePlace
<1> QED
  BY <1>1, <1>2, <1>4, <1>5, <1>6, <1>7 DEF ChainType

\* What holds whoever dies.
LEMMA Always == Spec => [](ChainType /\ Matching)
<1>1. ChainType /\ Matching /\ [Next]_vars => (ChainType /\ Matching)'
  BY FilesStep, QueueStep, MemoryStep, MatchingStep DEF ChainType
<1> QED
  BY <1>1, Start, PTL DEF Spec

\* What holds as long as Archived lives.
LEMMA WhileArchivedLives ==
    ASSUME "Archived" \notin Mortal
    PROVE  Spec => [](PassedOn /\ HeaderNeverLost /\ OnePlace)
<1>1. /\ ChainType /\ Matching /\ PassedOn /\ HeaderNeverLost /\ OnePlace /\ [Next]_vars
      => (PassedOn /\ HeaderNeverLost /\ OnePlace)'
  BY PassedOnStep, HeaderStep, OnePlaceStep
<1> QED
  BY <1>1, Start, Always, PTL DEF Spec

\* Every variable stays in its type, and nobody takes a link from an empty
\* list or a slot beyond the batch.
THEOREM Typing == Spec => []TypeOK
  BY Always, TypesImply, PTL

\* No header is lost between Acqd and the disk.  Archived must live: it unlinks
\* header and link before it processes the event.
THEOREM HeadersKept == ASSUME "Archived" \notin Mortal PROVE Spec => []HeaderNeverLost
  BY WhileArchivedLives, PTL

\* Waveforms are written at most once.  Archived must live: it writes them
\* before it unlinks them.
THEOREM WrittenOnce == ASSUME "Archived" \notin Mortal PROVE Spec => []WaveformsOnce
<1>1. OnePlace => WaveformsOnce
  <2>1. Events \subseteq Ids
    BY DEF Events, Ids
  <2> QED
    BY <2>1 DEF OnePlace, WaveformsOnce
<1> QED
  BY <1>1, WhileArchivedLives, PTL

\* Waveforms keep their number, whoever dies: a slot of theHeader that keeps
\* an old header, or what panicWriteAllLinks has on its stack, is never paired
\* with waveforms that are still to be moved.
THEOREM NumbersKept == Spec => []WaveformsKeepTheirNumber
<1>1. Matching => WaveformsKeepTheirNumber
  BY DEF Matching, Match, WaveformsKeepTheirNumber
<1> QED
  BY <1>1, Always, PTL

\* In steady running, with no event to be thrown away, waveforms leave the ramdisk
\* only when they have been written out: justHeader, cleared once per batch
\* (Archived), is set only for an event whose waveforms are missing, and none is
\* taken whose files are not all there.
THEOREM WaveformsKept ==
    ASSUME Decimated = {} PROVE Spec => []UndecimatedKeepWaveforms
<1>1. Init => KeepInv
  BY DEF Init, KeepInv, UndecimatedKeepWaveforms, Daemons
<1>2. ChainType /\ SteadyInv /\ KeepInv /\ [Next]_vars => KeepInv'
  BY KeepStep, SteadyStep
<1>3. KeepInv => UndecimatedKeepWaveforms
  BY DEF KeepInv, UndecimatedKeepWaveforms
<1> QED
  BY <1>1, <1>2, <1>3, SteadyStart, SteadyStep, Always, PTL DEF Spec

\* In steady running the ramdisk holds no file when the daemons rest: no header is
\* written again after Archived has unlinked it, and whatever a daemon finds
\* incomplete, it does not find it here.
THEOREM RestIsClean == Spec => []CleanAtRest
<1>1. ChainType /\ SteadyInv => CleanAtRest
  <2> SUFFICES ASSUME ChainType, Flow, \A d \in Daemons : AtRest(d), NEW e \in Ids
               PROVE  acqd[e] \cup eventd[e] \cup prio[e] = {}
    BY DEF SteadyInv, CleanAtRest
  <2>1. \A d \in Daemons : pc[d] = "idle" /\ Range(queue[d]) = {}
    BY DEF AtRest, Range
  <2>2. \A i \in 1 .. NumEvents : ~Ahead(i)
    BY <2>1 DEF Ahead, Daemons
  <2>3. Unmoved = {}
    BY <2>1, <2>2 DEF Unmoved, Daemons
  <2>4. acqd[e] \subseteq {"psev"} /\ "psev" \notin acqd[e]
    BY <2>1, <2>3 DEF Flow, SteadyEventd, SteadyPrioritizerd, Daemons
  <2>5. eventd[e] = {} /\ prio[e] = {}
    BY <2>1, <2>3 DEF Flow, SteadyPrioritizerd, SteadyArchived, Daemons
  <2> QED
    BY <2>4, <2>5
<1> QED
  BY <1>1, SteadyStart, SteadyStep, Always, PTL DEF Spec

=============================================================================
