----------------------------- MODULE EventChain -----------------------------
(***************************************************************************)
(* The way of an event from Acqd to the disks: three daemons in a row,     *)
(* each watching the link directory of the one before it.                  *)
(*                                                                         *)
(*   Acqd   psev, hd, link  -> Eventd        (header: GPS time, calib)     *)
(*   Eventd hd, link        -> Prioritizerd  (priority; moves psev on)     *)
(*   Prioritizerd psev, hd, link -> Archived (disk and event telemetry)    *)
(*                                                                         *)
(* Any of them may get a signal between two system calls (handleBadSigs:   *)
(* exit at once) and be started again, when it knows nothing but the links *)
(* on the ramdisk.  A watch is set before the first scan, so a link made   *)
(* in between is offered twice (module LinkWatch).                         *)
(***************************************************************************)
EXTENDS Naturals, FiniteSets, Sequences, Functions

CONSTANTS
    MaxEvent,           \* events are 1 .. MaxEvent
    NumEvents,          \* NUM_EVENTS, the batch of Prioritizerd (100)
    PanicQueueLength,   \* panicQueueLength of Prioritizerd.config
    Decimated,          \* events of a priority that may be thrown away
    Mortal,             \* the daemons that may die
    MaxDeaths           \* bound on the number of deaths

Daemons == {"Eventd", "Prioritizerd", "Archived"}

ASSUME ChainAssumption ==
    /\ MaxEvent \in Nat \ {0}
    /\ NumEvents \in Nat \ {0}
    /\ PanicQueueLength \in Nat
    /\ Decimated \subseteq 1 .. MaxEvent
    /\ Mortal \subseteq Daemons
    /\ MaxDeaths \in Nat

Events == 1 .. MaxEvent
\* 0 is what a slot of theHeader that was never filled in names.
Ids == 0 .. MaxEvent

VARIABLES
    made,       \* the events Acqd has written so far are 1 .. made
    acqd,       \* acqd[e]: which of psev, hd, link are in Acqd's directories
    eventd,     \* eventd[e]: which of hd, link are in Eventd's
    prio,       \* prio[e]: which of psev, hd, link are in Prioritizerd's
    phase,      \* phase[d]: "down", "watching", "up"
    queue,      \* queue[d]: the names d has still to take, oldest first
    pc,         \* pc[d]: the system call d is about to make
    cur,        \* cur[d]: the event number d is working on
    left,       \* left[d]: how many links of this batch d has still to take
    slots,      \* theHeader[] of Prioritizerd: the event each slot's header is of
    bodies,     \* bodyFilename[] of Prioritizerd: the event its waveforms are of
    body,       \* the event whose waveforms Prioritizerd moves with this header
    nread,      \* eventsReadIn; 0 while panicking
    count,      \* index of the slot Prioritizerd is writing out
    readOk,     \* did Archived's fillHeader succeed?
    justHeader, \* eventWriter.justHeader of Archived
    headers,    \* headers[e]: headers of e written to disk (history)
    waves,      \* waves[e]: waveforms of e written out (history)
    thrown,     \* events shouldWeThrowAway has thrown away (history)
    telem,      \* events whose header is queued for telemetry (history)
    deaths,     \* how many deaths there have been
    running     \* did all daemons start before the first event? (never changes)

files == <<acqd, eventd, prio>>
watch == <<phase, queue>>
batch == <<slots, bodies, body, nread, count>>
disk == <<headers, waves, thrown>>
lives == <<deaths, running>>
vars == <<made, files, watch, pc, cur, left, batch, readOk, justHeader, disk,
          telem, lives>>

InFiles(d) == CASE d = "Eventd" -> acqd
                [] d = "Prioritizerd" -> eventd
                [] d = "Archived" -> prio

Inbox(d) == { e \in Ids : "link" \in InFiles(d)[e] }

Init ==
    /\ running \in BOOLEAN
    /\ made = 0
    /\ acqd = [e \in Ids |-> {}]
    /\ eventd = [e \in Ids |-> {}]
    /\ prio = [e \in Ids |-> {}]
    /\ phase = [d \in Daemons |-> IF running THEN "up" ELSE "down"]
    /\ queue = [d \in Daemons |-> <<>>]
    /\ pc = [d \in Daemons |-> "idle"]
    /\ cur = [d \in Daemons |-> 0]
    /\ left = [d \in Daemons |-> 0]
    /\ slots = [i \in 1 .. NumEvents |-> 0]
    /\ bodies = [i \in 1 .. NumEvents |-> 0]
    /\ body = 0
    /\ nread = 0
    /\ count = 0
    /\ readOk = FALSE
    /\ justHeader = FALSE
    /\ headers = [e \in Ids |-> 0]
    /\ waves = [e \in Ids |-> 0]
    /\ thrown = {}
    /\ telem = {}
    /\ deaths = 0

-----------------------------------------------------------------------------
(* What the steps are made of *)

Goto(d, l) == pc' = [pc EXCEPT ![d] = l]

\* makeLink of e into the inbox of d: symlink fails when the link is there;
\* otherwise d is told, if it has a watch.
Offer(d, e) ==
    queue' = IF e \notin Inbox(d) /\ phase[d] # "down"
               THEN [queue EXCEPT ![d] = Append(@, e)] ELSE queue

Add(dir, e, f) == [dir EXCEPT ![e] = @ \cup {f}]
Del(dir, e, f) == [dir EXCEPT ![e] = @ \ {f}]

Pop(d) == queue' = [queue EXCEPT ![d] = Tail(@)]

\* What scandir returns: the links there are, oldest first.
Listings(S) ==
    { s \in [1 .. Cardinality(S) -> S] : \A i, j \in DOMAIN s : i < j => s[i] < s[j] }

-----------------------------------------------------------------------------
(* Acqd: waveforms, header, link.  Nobody looks before the link is there.  *)

WriteEventAndMakeLink ==
    /\ made < MaxEvent
    /\ made' = made + 1
    /\ acqd' = [acqd EXCEPT ![made + 1] = {"psev", "hd", "link"}]
    /\ Offer("Eventd", made + 1)
    /\ UNCHANGED <<eventd, prio, phase, pc, cur, left, batch, readOk,
                   justHeader, disk, telem, lives>>

-----------------------------------------------------------------------------
(* Starting and dying *)

AddWatch(d) ==
    /\ phase[d] = "down"
    /\ phase' = [phase EXCEPT ![d] = "watching"]
    /\ UNCHANGED <<made, files, queue, pc, cur, left, batch, readOk,
                   justHeader, disk, telem, lives>>

MutScan(d) ==
    /\ phase[d] = "watching"
    /\ phase' = [phase EXCEPT ![d] = "up"]
    /\ UNCHANGED <<made, files, queue, pc, cur, left, batch, readOk, justHeader,
                   disk, telem, lives>>
\* The links on disk, in order, and after them those inotify has reported.
Scan(d) ==
    /\ phase[d] = "watching"
    /\ phase' = [phase EXCEPT ![d] = "up"]
    /\ \E s \in Listings(Inbox(d)) : queue' = [queue EXCEPT ![d] = s \o @]
    /\ UNCHANGED <<made, files, pc, cur, left, batch, readOk, justHeader,
                   disk, telem, lives>>

Die(d) ==
    /\ d \in Mortal
    /\ phase[d] # "down"
    /\ deaths < MaxDeaths
    /\ deaths' = deaths + 1
    /\ phase' = [phase EXCEPT ![d] = "down"]
    /\ queue' = [queue EXCEPT ![d] = <<>>]
    /\ Goto(d, "idle")
    /\ cur' = [cur EXCEPT ![d] = 0]
    /\ left' = [left EXCEPT ![d] = 0]
    /\ IF d = "Prioritizerd"
         THEN /\ slots' = [i \in 1 .. NumEvents |-> 0]
              /\ bodies' = [i \in 1 .. NumEvents |-> 0]
              /\ body' = 0
              /\ nread' = 0
              /\ count' = 0
         ELSE UNCHANGED batch
    /\ IF d = "Archived"
         THEN readOk' = FALSE /\ justHeader' = FALSE
         ELSE UNCHANGED <<readOk, justHeader>>
    /\ UNCHANGED <<made, files, disk, telem, running>>

-----------------------------------------------------------------------------
(* Eventd.  The GPS time is looked for and the calibration status filled   *)
(* in between the header's being read and written; neither touches these   *)
(* files.                                                                  *)

Step(d, l, m) == phase[d] = "up" /\ pc[d] = l /\ Goto(d, m)

eventdKeeps == <<made, phase, left, batch, readOk, justHeader, disk, telem, lives>>

\* getFirstLink, and fillHeader through the link.
EventdTake ==
    /\ phase["Eventd"] = "up"
    /\ pc["Eventd"] = "idle"
    /\ queue["Eventd"] # <<>>
    /\ LET e == Head(queue["Eventd"]) IN
         /\ Pop("Eventd")
         /\ IF {"hd", "link"} \subseteq acqd[e]
              THEN /\ Goto("Eventd", "hd")
                   /\ cur' = [cur EXCEPT !["Eventd"] = e]
                   /\ UNCHANGED acqd
              ELSE /\ acqd' = [acqd EXCEPT ![e] = @ \ {"hd", "link"}]
                   /\ UNCHANGED <<pc, cur>>
    /\ UNCHANGED <<eventd, prio, eventdKeeps>>

MutWriteHeader ==
    /\ Step("Eventd", "hd", "link")
    /\ eventd' = Add(eventd, cur["Eventd"], "hd")
    /\ acqd' = Del(acqd, cur["Eventd"], "hd")
    /\ UNCHANGED <<prio, queue, cur, eventdKeeps>>
\* The steps of writeHeaderAndMakeLink.
WriteHeader ==
    /\ Step("Eventd", "hd", "link")
    /\ eventd' = Add(eventd, cur["Eventd"], "hd")
    /\ UNCHANGED <<acqd, prio, queue, cur, eventdKeeps>>

MakeLink ==
    /\ Step("Eventd", "link", "rmHd")
    /\ eventd' = Add(eventd, cur["Eventd"], "link")
    /\ Offer("Prioritizerd", cur["Eventd"])
    /\ UNCHANGED <<acqd, prio, cur, eventdKeeps>>

RemoveInput ==
    /\ \/ /\ Step("Eventd", "rmHd", "rmLink")
          /\ acqd' = Del(acqd, cur["Eventd"], "hd")
       \/ /\ Step("Eventd", "rmLink", "idle")
          /\ acqd' = Del(acqd, cur["Eventd"], "link")
    /\ UNCHANGED <<eventd, prio, queue, cur, eventdKeeps>>

MutWriteHeaderAndMakeLink ==
    \/ /\ Step("Eventd", "hd", "link")
       /\ eventd' = Add(eventd, cur["Eventd"], "link")
       /\ Offer("Prioritizerd", cur["Eventd"])
       /\ UNCHANGED <<acqd, prio, cur, eventdKeeps>>
    \/ /\ Step("Eventd", "link", "rmHd")
       /\ eventd' = Add(eventd, cur["Eventd"], "hd")
       /\ UNCHANGED <<acqd, prio, queue, cur, eventdKeeps>>
    \/ RemoveInput
WriteHeaderAndMakeLink == WriteHeader \/ MakeLink \/ RemoveInput

Eventd == EventdTake \/ WriteHeaderAndMakeLink

-----------------------------------------------------------------------------
(* Prioritizerd *)

prioKeeps == <<made, acqd, eventd, prio, phase, readOk, justHeader, disk, telem, lives>>

\* A batch is the links counted now; too many of them are a panic.
PrioritizerdBegin ==
    /\ queue["Prioritizerd"] # <<>>
    /\ Step("Prioritizerd", "idle",
            IF Len(queue["Prioritizerd"]) > PanicQueueLength THEN "panic" ELSE "read")
    /\ left' = [left EXCEPT !["Prioritizerd"] = Len(queue["Prioritizerd"])]
    /\ nread' = 0
    /\ count' = 0
    /\ UNCHANGED <<queue, cur, slots, bodies, body, prioKeeps>>

\* One turn of the reading loop.  The link names the waveforms.  fillHeader's
\* result is not looked at: when it fails the slot keeps the header it had.
ReadIn ==
    /\ phase["Prioritizerd"] = "up"
    /\ pc["Prioritizerd"] = "read"
    /\ nread < NumEvents
    /\ left["Prioritizerd"] > 0
    /\ LET e == Head(queue["Prioritizerd"]) IN
         /\ bodies' = [bodies EXCEPT ![nread + 1] = e]
         /\ slots' = IF "hd" \in eventd[e] THEN [slots EXCEPT ![nread + 1] = e]
                                           ELSE slots
    /\ Pop("Prioritizerd")
    /\ left' = [left EXCEPT !["Prioritizerd"] = @ - 1]
    /\ nread' = nread + 1
    /\ UNCHANGED <<pc, cur, count, body, prioKeeps>>

\* Go on with slot i of the batch.
TakeSlot(i) ==
    /\ count' = i
    /\ cur' = [cur EXCEPT !["Prioritizerd"] = slots[i]]
    /\ body' = bodies[i]

ReadAll ==
    /\ nread = NumEvents \/ left["Prioritizerd"] = 0
    /\ Step("Prioritizerd", "read", "psev")
    /\ TakeSlot(1)
    /\ UNCHANGED <<queue, left, slots, bodies, nread, prioKeeps>>

\* panicWriteAllLinks has its header on the stack: when fillHeader fails it is
\* what the stack held, the header of the turn before, one passed by value to
\* addEventToGpuQueue or nothing of an event.
PanicRead ==
    /\ Step("Prioritizerd", "panic", "psev")
    /\ \E junk \in {0, cur["Prioritizerd"]} \cup Range(slots) :
         LET e == Head(queue["Prioritizerd"]) IN
         /\ cur' = [cur EXCEPT !["Prioritizerd"] = IF "hd" \in eventd[e] THEN e ELSE junk]
         /\ body' = e
    /\ Pop("Prioritizerd")
    /\ left' = [left EXCEPT !["Prioritizerd"] = @ - 1]
    /\ UNCHANGED <<slots, bodies, nread, count, prioKeeps>>

\* What follows is the same in both: the header names the new file.
RenameBody ==
    /\ Step("Prioritizerd", "psev", "hd")
    /\ IF "psev" \in acqd[body]
         THEN /\ acqd' = Del(acqd, body, "psev")
              /\ prio' = Add(prio, cur["Prioritizerd"], "psev")
         ELSE UNCHANGED <<acqd, prio>>
    /\ UNCHANGED <<made, eventd, watch, cur, left, batch, readOk, justHeader,
                   disk, telem, lives>>

WriteForArchived ==
    /\ \/ /\ Step("Prioritizerd", "hd", "link")
          /\ prio' = Add(prio, cur["Prioritizerd"], "hd")
          /\ UNCHANGED queue
       \/ /\ Step("Prioritizerd", "link", "telem")
          /\ prio' = Add(prio, cur["Prioritizerd"], "link")
          /\ Offer("Archived", cur["Prioritizerd"])
    /\ UNCHANGED <<made, acqd, eventd, phase, cur, left, batch, readOk,
                   justHeader, disk, telem, lives>>

HeaderTelemetry ==
    /\ Step("Prioritizerd", "telem", "rmLink")
    /\ telem' = telem \cup {cur["Prioritizerd"]}
    /\ UNCHANGED <<made, files, watch, cur, left, batch, readOk, justHeader,
                   disk, lives>>

MutDeleteInput ==
    /\ \/ /\ Step("Prioritizerd", "rmLink", "rmHd")
          /\ eventd' = Del(eventd, cur["Prioritizerd"], "link")
          /\ UNCHANGED <<cur, count, body>>
       \/ /\ eventd' = Del(eventd, cur["Prioritizerd"], "hd")
          /\ count <= nread
          /\ Step("Prioritizerd", "rmHd", "psev")
          /\ TakeSlot(count + 1)
    /\ UNCHANGED <<made, acqd, prio, watch, left, slots, bodies, nread, readOk,
                   justHeader, disk, telem, lives>>
\* Delete input; then the next slot, the next panic, or the next batch.
DeleteInput ==
    /\ \/ /\ Step("Prioritizerd", "rmLink", "rmHd")
          /\ eventd' = Del(eventd, cur["Prioritizerd"], "link")
          /\ UNCHANGED <<cur, count, body>>
       \/ /\ eventd' = Del(eventd, cur["Prioritizerd"], "hd")
          /\ \/ /\ count < nread
                /\ Step("Prioritizerd", "rmHd", "psev")
                /\ TakeSlot(count + 1)
             \/ /\ count = nread
                /\ Step("Prioritizerd", "rmHd",
                        IF nread = 0 /\ left["Prioritizerd"] > 0 THEN "panic" ELSE "idle")
                /\ UNCHANGED <<cur, count, body>>
    /\ UNCHANGED <<made, acqd, prio, watch, left, slots, bodies, nread, readOk,
                   justHeader, disk, telem, lives>>

Prioritizerd ==
    \/ PrioritizerdBegin
    \/ ReadIn
    \/ ReadAll
    \/ PanicRead
    \/ RenameBody
    \/ WriteForArchived
    \/ HeaderTelemetry
    \/ DeleteInput

-----------------------------------------------------------------------------
(* Archived: checkEvents.  Header and link are unlinked before the event   *)
(* is processed.  justHeader is cleared once per batch.                    *)

archKeeps == <<made, acqd, eventd, phase, batch, telem, lives>>

ArchivedBegin ==
    /\ queue["Archived"] # <<>>
    /\ Step("Archived", "idle", "read")
    /\ left' = [left EXCEPT !["Archived"] = Len(queue["Archived"])]
    /\ justHeader' = FALSE
    /\ UNCHANGED <<prio, queue, cur, readOk, disk, archKeeps>>

ArchivedRead ==
    /\ Step("Archived", "read", "rmHd")
    /\ LET e == Head(queue["Archived"]) IN
         /\ cur' = [cur EXCEPT !["Archived"] = e]
         /\ readOk' = ("hd" \in prio[e])
    /\ Pop("Archived")
    /\ left' = [left EXCEPT !["Archived"] = @ - 1]
    /\ UNCHANGED <<prio, justHeader, disk, archKeeps>>

NextOfBatch == IF left["Archived"] > 0 THEN "read" ELSE "idle"

MutUnlinkHeader ==
    /\ \/ /\ Step("Archived", "rmHd", "rmLink")
          /\ prio' = Del(Del(prio, cur["Archived"], "hd"), cur["Archived"], "psev")
       \/ /\ Step("Archived", "rmLink", IF readOk THEN "process" ELSE NextOfBatch)
          /\ prio' = Del(prio, cur["Archived"], "link")
    /\ UNCHANGED <<queue, cur, left, readOk, justHeader, disk, archKeeps>>
UnlinkHeader ==
    /\ \/ /\ Step("Archived", "rmHd", "rmLink")
          /\ prio' = Del(prio, cur["Archived"], "hd")
       \/ /\ Step("Archived", "rmLink", IF readOk THEN "process" ELSE NextOfBatch)
          /\ prio' = Del(prio, cur["Archived"], "link")
    /\ UNCHANGED <<queue, cur, left, readOk, justHeader, disk, archKeeps>>

\* The header goes to disk; the waveforms go to disk and to the telemetry
\* directory (module TelemHandoff) unless justHeader is set.
ProcessEvent ==
    /\ Step("Archived", "process", "rmBody")
    /\ LET e == cur["Archived"] IN
         /\ headers' = [headers EXCEPT ![e] = @ + 1]
         /\ \/ /\ e \in Decimated
               /\ thrown' = thrown \cup {e}
               /\ justHeader' = TRUE
            \/ /\ justHeader' = (justHeader \/ "psev" \notin prio[e])
               /\ UNCHANGED thrown
         /\ waves' = IF justHeader' THEN waves ELSE [waves EXCEPT ![e] = @ + 1]
    /\ UNCHANGED <<prio, queue, cur, left, readOk, archKeeps>>

MutUnlinkBody ==
    /\ Step("Archived", "rmBody", NextOfBatch)
    /\ UNCHANGED <<prio, queue, cur, left, readOk, justHeader, disk, archKeeps>>
UnlinkBody ==
    /\ Step("Archived", "rmBody", NextOfBatch)
    /\ prio' = Del(prio, cur["Archived"], "psev")
    /\ UNCHANGED <<queue, cur, left, readOk, justHeader, disk, archKeeps>>

Archived ==
    \/ ArchivedBegin
    \/ ArchivedRead
    \/ UnlinkHeader
    \/ ProcessEvent
    \/ UnlinkBody

-----------------------------------------------------------------------------
Next ==
    \/ WriteEventAndMakeLink
    \/ \E d \in Daemons : AddWatch(d) \/ Scan(d) \/ Die(d)
    \/ Eventd
    \/ Prioritizerd
    \/ Archived

\* Main loops keep running, and Monitord's checkProcesses has a daemon that is
\* not there started again (startProcesses of Monitord.config).
Fairness ==
    /\ \A d \in Daemons : WF_vars(AddWatch(d)) /\ WF_vars(Scan(d))
    /\ WF_vars(Eventd)
    /\ WF_vars(Prioritizerd)
    /\ WF_vars(Archived)

Spec == Init /\ [][Next]_vars /\ Fairness

-----------------------------------------------------------------------------
(* Properties *)

\* Every variable stays in its type.
TypeOK ==
    /\ made \in 0 .. MaxEvent
    /\ acqd \in [Ids -> SUBSET {"psev", "hd", "link"}]
    /\ eventd \in [Ids -> SUBSET {"hd", "link"}]
    /\ prio \in [Ids -> SUBSET {"psev", "hd", "link"}]
    /\ phase \in [Daemons -> {"down", "watching", "up"}]
    /\ \A d \in Daemons : queue[d] \in Seq(Ids) /\ left[d] <= Len(queue[d])
    /\ cur \in [Daemons -> Ids]
    /\ slots \in [1 .. NumEvents -> Ids]
    /\ bodies \in [1 .. NumEvents -> Ids]
    /\ body \in Ids
    /\ nread \in 0 .. NumEvents
    /\ count \in 0 .. nread

\* Where the header of e waits to be taken by the next daemon.
Waiting(e) ==
    \/ {"hd", "link"} \subseteq acqd[e]
    \/ {"hd", "link"} \subseteq eventd[e]
    \/ {"hd", "link"} \subseteq prio[e]

InArchived(e) ==
    /\ cur["Archived"] = e
    /\ readOk
    /\ pc["Archived"] \in {"rmHd", "rmLink", "process"}

\* No header is lost between Acqd and the disk, however Eventd and
\* Prioritizerd are killed: at every moment it waits in some inbox with its
\* link, or Archived has it in memory, or it is on disk.
HeaderNeverLost ==
    \A e \in 1 .. made : Waiting(e) \/ InArchived(e) \/ headers[e] > 0

\* The waveforms of an event are written out at most once, although killed
\* daemons repeat themselves and links are offered twice.
WaveformsOnce == \A e \in Events : waves[e] <= 1

\* Every link has been offered exactly once so far.
Steady == running /\ deaths = 0

\* In steady running the waveforms leave the ramdisk only after they have been
\* written out or the event has been thrown away by its own priority's
\* fraction.
UndecimatedKeepWaveforms ==
    Steady => \A e \in 1 .. made :
        "psev" \in acqd[e] \cup prio[e] \/ waves[e] > 0 \/ e \in thrown

\* Waveforms never change their event number, although Prioritizerd takes the
\* old name from the link and the new one from a header that it may have failed
\* to read: while a link's waveforms are still to be moved its header is there.
WaveformsKeepTheirNumber ==
    pc["Prioritizerd"] = "psev" /\ "psev" \in acqd[body] =>
        body = cur["Prioritizerd"]

AtRest(d) == phase[d] = "up" /\ pc[d] = "idle" /\ queue[d] = <<>>

\* When the daemons rest the ramdisk holds no file of any event.  It needs
\* every link to be offered once: with a double offer Prioritizerd may write a
\* header again after Archived has unlinked it, which stays for ever.
CleanAtRest ==
    Steady /\ (\A d \in Daemons : AtRest(d)) =>
        \A e \in Ids : acqd[e] \cup eventd[e] \cup prio[e] = {}

\* Again and again everything Acqd has written so far is on disk, and its
\* headers queued for telemetry: no event waits for a restart, whatever the
\* order in which the daemons started, also when Eventd or Prioritizerd die in
\* the middle of it.
EventuallyArchived ==
    []<>(\A e \in 1 .. made : headers[e] > 0 /\ e \in telem)

=============================================================================
