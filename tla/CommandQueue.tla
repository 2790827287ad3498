---------------------------- MODULE CommandQueue ----------------------------
(***************************************************************************)
(* Commands on their way to Cmdd.  SIPd (uplink), Monitord, Acqd and GPSd  *)
(* call writeCommandAndLink, which names the file by the second,           *)
(*     cmd_<t>.dat, or cmd_<t>_1.dat when that one exists,                 *)
(* and Cmdd takes the links, oldest first, in batches: it reads a command, *)
(* removes file and link, and when the whole batch is in memory executes   *)
(* it.  A command equal to the last one executed is skipped for a while,   *)
(* so that a command repeated over several uplinks is obeyed once.         *)
(*                                                                         *)
(* No lock protects a name: the writer looks for the file, writes it and   *)
(* links it in three system calls, Cmdd removes file and link in two.      *)
(***************************************************************************)
EXTENDS Naturals, FiniteSets, Sequences, Functions

CONSTANTS
    Writers,        \* the processes that send commands
    Commands,       \* the contents of a command (all the bytes of it)
    Malformed,      \* those whose length is not the one in Cmdd.config
    MaxTime,        \* how many seconds the clock may advance
    MaxWrites,      \* bound on the number of commands sent
    Crowded,        \* may two commands be sent in the same second?
    Window,         \* how long a repeated command is skipped (30 s)
    MaxDeaths       \* bound on how often Cmdd is killed and restarted

\* What a slot of theCmds holds before it is first filled: numCmdBytes = 0.
Zero == "zero"

ASSUME CommandAssumption ==
    /\ Malformed \subseteq Commands
    /\ Zero \notin Commands
    /\ MaxTime \in Nat /\ MaxWrites \in Nat /\ MaxDeaths \in Nat
    /\ Window \in Nat
    /\ Crowded \in BOOLEAN

\* Unix time is far beyond the window when it starts to matter: a command
\* executed "at time 0" is never recent.
Start == Window + 1
Times == Start .. Start + MaxTime
Names == Times \X {0, 1}
Calls == 1 .. MaxWrites

\* Of two names the one of an earlier second, or the one without a tag.
Earlier(m, n) == m[1] < n[1] \/ (m[1] = n[1] /\ m[2] < n[2])

VARIABLES
    clock,
    calls,          \* the sequence of calls of writeCommandAndLink: what, when, and
                    \* during which other calls
    dir,            \* dir[n]: the call whose command file n holds, 0 if there is none
    link,           \* the names whose link exists
    wpc,            \* wpc[w]: "idle", "look", "write", "link"
    wcall,          \* wcall[w]: the call w is in
    wtag,           \* wtag[w]: the name it is trying, 0 or 1
    phase,          \* Cmdd is "down", "watching" or "up"
    list,           \* the links Cmdd has still to take, oldest first
    pc,             \* the next step of Cmdd
    batch,          \* how many commands of this batch are still to come
    upto,           \* the slot Cmdd is at
    slots,          \* theCmds: the call in each slot, 0 for Zero
    lastCmd,        \* lastCmd and lastCmdTime of Cmdd
    lastCmdTime,
    done,           \* the calls whose command has been executed, in order (history)
    skipped,        \* the calls whose command was skipped or refused (history)
    deaths

writers == <<calls, wpc, wcall, wtag>>
files == <<dir, link>>
reading == <<pc, batch, upto, slots>>
last == <<lastCmd, lastCmdTime>>
history == <<done, skipped>>
vars == <<clock, writers, files, phase, list, reading, last, history, deaths>>

Content(c) == IF c = 0 THEN Zero ELSE calls[c].cmd

Init ==
    /\ clock = Start
    /\ calls = <<>>
    /\ dir = [n \in Names |-> 0]
    /\ link = {}
    /\ wpc = [w \in Writers |-> "idle"]
    /\ wcall = [w \in Writers |-> 0]
    /\ wtag = [w \in Writers |-> 0]
    /\ phase = "down"
    /\ list = <<>>
    /\ pc = "idle"
    /\ batch = 0
    /\ upto = 0
    /\ slots = [i \in 1 .. 2 * MaxWrites |-> 0]
    /\ lastCmd = Zero
    /\ lastCmdTime = 0
    /\ done = <<>>
    /\ skipped = {}
    /\ deaths = 0

Tick ==
    /\ clock < Start + MaxTime
    /\ clock' = clock + 1
    /\ UNCHANGED <<writers, files, phase, list, reading, last, history, deaths>>

-----------------------------------------------------------------------------
(* writeCommandAndLink *)

writersKeep == <<clock, phase, reading, last, history, deaths>>

\* The file name of the call w is in.
Name(w) == <<calls[wcall[w]].time, wtag[w]>>

\* The calls that have not returned.
Open == { wcall[v] : v \in Writers } \ {0}

Send(w, c) ==
    /\ wpc[w] = "idle"
    /\ Len(calls) < MaxWrites
    /\ Crowded \/ \A d \in DOMAIN calls : calls[d].time # clock
    /\ calls' = Append(calls, [cmd |-> c, time |-> clock, open |-> Open])
    /\ wpc' = [wpc EXCEPT ![w] = "look"]
    /\ wcall' = [wcall EXCEPT ![w] = Len(calls) + 1]
    /\ wtag' = [wtag EXCEPT ![w] = 0]
    /\ UNCHANGED <<files, list, writersKeep>>

MutLook(w) ==
    /\ wpc[w] = "look"
    /\ dir[Name(w)] = 0
    /\ wpc' = [wpc EXCEPT ![w] = "write"]
    /\ UNCHANGED <<calls, wcall, wtag, files, list, writersKeep>>
\* fopen for reading, again and again: fileTag stays 1.
Look(w) ==
    /\ wpc[w] = "look"
    /\ IF dir[Name(w)] = 0
         THEN wpc' = [wpc EXCEPT ![w] = "write"] /\ UNCHANGED wtag
         ELSE wtag' = [wtag EXCEPT ![w] = 1] /\ UNCHANGED wpc
    /\ UNCHANGED <<calls, wcall, files, list, writersKeep>>

WriteStruct(w) ==
    /\ wpc[w] = "write"
    /\ dir' = [dir EXCEPT ![Name(w)] = wcall[w]]
    /\ wpc' = [wpc EXCEPT ![w] = "link"]
    /\ UNCHANGED <<calls, wcall, wtag, link, list, writersKeep>>

\* symlink fails when the link is there, and nobody looks at that.
MakeLink(w) ==
    /\ wpc[w] = "link"
    /\ link' = link \cup {Name(w)}
    /\ list' = IF Name(w) \notin link /\ phase # "down"
                 THEN Append(list, Name(w)) ELSE list
    /\ wpc' = [wpc EXCEPT ![w] = "idle"]
    /\ wcall' = [wcall EXCEPT ![w] = 0]
    /\ wtag' = [wtag EXCEPT ![w] = 0]
    /\ UNCHANGED <<calls, dir, writersKeep>>

WriteCommandAndLink(w) == Look(w) \/ WriteStruct(w) \/ MakeLink(w)

-----------------------------------------------------------------------------
(* Cmdd: start and death *)

AddWatch ==
    /\ phase = "down"
    /\ phase' = "watching"
    /\ UNCHANGED <<clock, writers, files, list, reading, last, history, deaths>>

\* The names of d as scandir returns them, in versionsort order.
Listings(d) ==
    { s \in [1 .. Cardinality(d) -> d] :
        \A i, j \in DOMAIN s : i < j => Earlier(s[i], s[j]) }

MutScanLate ==
    /\ phase = "watching"
    /\ phase' = "up"
    /\ \E s \in Listings(link) : list' = list \o s
    /\ UNCHANGED <<clock, writers, files, reading, last, history, deaths>>
MutScanNothing ==
    /\ phase = "watching"
    /\ phase' = "up"
    /\ UNCHANGED <<clock, writers, files, list, reading, last, history, deaths>>
\* The links on disk, by second and tag, and then what inotify has reported.
Scan ==
    /\ phase = "watching"
    /\ phase' = "up"
    /\ \E s \in Listings(link) : list' = s \o list
    /\ UNCHANGED <<clock, writers, files, reading, last, history, deaths>>

Die ==
    /\ phase # "down"
    /\ deaths < MaxDeaths
    /\ deaths' = deaths + 1
    /\ phase' = "down"
    /\ list' = <<>>
    /\ pc' = "idle"
    /\ batch' = 0
    /\ upto' = 0
    /\ slots' = [i \in DOMAIN slots |-> 0]
    /\ lastCmd' = Zero
    /\ lastCmdTime' = 0
    /\ UNCHANGED <<clock, writers, files, history>>

-----------------------------------------------------------------------------
(* Cmdd: checkForNewCommand *)

cmddKeeps == <<clock, writers, phase, deaths>>

\* The links counted now are one batch.
CheckForNewCommand ==
    /\ phase = "up"
    /\ pc = "idle"
    /\ list # <<>>
    /\ pc' = "fill"
    /\ batch' = Len(list)
    /\ upto' = 1
    /\ UNCHANGED <<slots, files, list, last, history, cmddKeeps>>

\* fillCommand leaves the slot as it is when the file is not there.
FillCommand ==
    /\ pc = "fill"
    /\ slots' = IF dir[Head(list)] # 0
                  THEN [slots EXCEPT ![upto] = dir[Head(list)]] ELSE slots
    /\ pc' = "rmFile"
    /\ UNCHANGED <<batch, upto, files, list, last, history, cmddKeeps>>

MutRemoveFile ==
    /\ pc = "rmFile"
    /\ pc' = "rmLink"
    /\ UNCHANGED <<batch, upto, slots, files, list, last, history, cmddKeeps>>
RemoveFile ==
    /\ pc = "rmFile"
    /\ dir' = [dir EXCEPT ![Head(list)] = 0]
    /\ pc' = "rmLink"
    /\ UNCHANGED <<batch, upto, slots, link, list, last, history, cmddKeeps>>

RemoveLink ==
    /\ pc = "rmLink"
    /\ link' = link \ {Head(list)}
    /\ list' = Tail(list)
    /\ IF upto < batch THEN pc' = "fill" /\ upto' = upto + 1
                       ELSE pc' = "execute" /\ upto' = 1
    /\ UNCHANGED <<batch, slots, dir, last, history, cmddKeeps>>

-----------------------------------------------------------------------------
(* Cmdd: the loop over the batch in main *)

CheckCommand(c) == Content(c) # Zero /\ Content(c) \notin Malformed

SameCommand(c) == clock - lastCmdTime <= Window /\ Content(c) = lastCmd

MutNextOfBatch ==
    IF upto <= batch THEN pc' = pc /\ upto' = upto + 1
                     ELSE pc' = "idle" /\ upto' = 0
NextOfBatch ==
    IF upto < batch THEN pc' = pc /\ upto' = upto + 1
                    ELSE pc' = "idle" /\ upto' = 0

Skip ==
    /\ pc = "execute"
    /\ LET c == slots[upto] IN
         /\ ~CheckCommand(c) \/ SameCommand(c)
         /\ skipped' = skipped \cup ({c} \ {0})
    /\ NextOfBatch
    /\ UNCHANGED <<batch, slots, files, list, last, done, cmddKeeps>>

\* executeCommand returns the time, or 0 when there was a problem; either way
\* the command is remembered as the last one.
Execute ==
    /\ pc = "execute"
    /\ LET c == slots[upto] IN
         /\ CheckCommand(c)
         /\ ~SameCommand(c)
         /\ done' = Append(done, c)
         /\ lastCmd' = Content(c)
    /\ lastCmdTime' \in {clock, 0}
    /\ NextOfBatch
    /\ UNCHANGED <<batch, slots, files, list, skipped, cmddKeeps>>

Cmdd ==
    \/ CheckForNewCommand
    \/ FillCommand
    \/ RemoveFile
    \/ RemoveLink
    \/ Skip
    \/ Execute

-----------------------------------------------------------------------------
Next ==
    \/ Tick
    \/ \E w \in Writers :
          (\E c \in Commands : Send(w, c)) \/ WriteCommandAndLink(w)
    \/ AddWatch
    \/ Scan
    \/ Die
    \/ Cmdd

Spec == Init /\ [][Next]_vars

\* A writer runs its calls to the end, and Cmdd, which daemon -r starts again
\* when it dies, polls its directory every second.
Fairness ==
    /\ \A w \in Writers : WF_vars(WriteCommandAndLink(w))
    /\ WF_vars(AddWatch)
    /\ WF_vars(Scan)
    /\ WF_vars(Cmdd)

FairSpec == Spec /\ Fairness

-----------------------------------------------------------------------------
(* Properties *)

\* Every variable stays in its type, and no slot beyond the batch is used.
TypeOK ==
    /\ clock \in Times
    /\ Len(calls) <= MaxWrites
    /\ dir \in [Names -> {0} \cup Calls]
    /\ link \subseteq Names
    /\ wpc \in [Writers -> {"idle", "look", "write", "link"}]
    /\ wcall \in [Writers -> {0} \cup Calls]
    /\ wtag \in [Writers -> {0, 1}]
    /\ phase \in {"down", "watching", "up"}
    /\ list \in Seq(Names)
    /\ batch \in 0 .. 2 * MaxWrites /\ upto \in 0 .. batch
    /\ slots \in [1 .. 2 * MaxWrites -> {0} \cup Calls]
    /\ done \in Seq({0} \cup Calls)
    /\ skipped \subseteq Calls

\* No other command has been sent in the second of call c.  The name of the
\* file is unique only then: two calls in one second may share a name, and one
\* of their commands may be lost or obeyed twice.
Solo(c) ==
    \A d \in DOMAIN calls : d # c => calls[d].time # calls[c].time

\* A second with two commands can also make Cmdd repeat an older one: the link
\* made last may have lost its file, and the slot it is read into keeps what
\* an earlier batch left there.
Apart == \A c \in DOMAIN calls : Solo(c)

\* While every command is sent in a second of its own, it is obeyed at most
\* once, although its link is offered twice when Cmdd starts in the middle of
\* writing it and Cmdd may die at any step.
ObeyedOnce ==
    Apart => \A i, j \in DOMAIN done : i # j => done[i] # done[j]

\* Of two commands the one whose writer had returned before the other's began
\* is obeyed first, also when Cmdd finds them both at its start.
ObeyedInOrder ==
    Apart => \A i, j \in DOMAIN done :
        i < j /\ done[j] < done[i] => done[j] \in calls[done[i]].open

\* A command alone in its second is obeyed, refused or skipped as a repetition
\* in the end, unless Cmdd dies with it in memory.
Answered ==
    \A c \in Calls :
        c \in DOMAIN calls ~> \/ c \in Range(done) \cup skipped
                              \/ c \in DOMAIN calls /\ ~Solo(c)
                              \/ deaths > 0

\* Both names w may use hold a file without a link: Cmdd never removes them.
Orphaned(w) ==
    /\ wpc[w] # "idle"
    /\ \A tag \in {0, 1} :
          LET n == <<calls[wcall[w]].time, tag>> IN dir[n] # 0 /\ n \notin link

\* A writer gets out of writeCommandAndLink, which looks for a free name
\* without counting fileTag up, as long as Cmdd frees one: that is, unless
\* both names of its second have become orphans.
WriterReturns ==
    \A w \in Writers :
        wpc[w] # "idle" ~> wpc[w] = "idle" \/ Orphaned(w)

=============================================================================
