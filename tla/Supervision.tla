---------------------------- MODULE Supervision ----------------------------
(***************************************************************************)
(* Who keeps the programs running.  Monitord looks at the ramdisk and at   *)
(* the pid files every ten seconds: it asks Cmdd to kill Acqd when the     *)
(* ramdisk is getting full, to clear it when it is nearly full, and to     *)
(* start what has no process; Cmdd itself it restarts with its own hands.  *)
(* Cmdd obeys with the help of daemon(1), which starts a program again     *)
(* when it dies.  To clear the ramdisk or begin a new run Cmdd first kills *)
(* Monitord, and starts it again near the end.                             *)
(*                                                                         *)
(* Clearing removes /tmp/anita: the queued commands, all pid files, and    *)
(* the directory Cmdd watches, so that Cmdd hears nothing any more until   *)
(* Monitord misses its pid file.  One link that is not there, for the lost *)
(* watch, is still read, and those of the commands removed: theCmds keeps  *)
(* older commands in these slots, and they are obeyed again.               *)
(*                                                                         *)
(* How commands are named and taken from the directory is CommandQueue's   *)
(* subject; here each is written, and each batch taken, in one step.       *)
(***************************************************************************)
EXTENDS Naturals, Sequences

CONSTANTS
    Uplinked,       \* the commands that may come from the ground
    Levels,         \* how much space the data programs may leave
    MaxUpsets,      \* bound on the number of uplinks and deaths
    MaxQueue,       \* how many commands the directory holds at most
    SettlePeriods,  \* after how many periods Monitord starts programs (60 s)
    WaitPeriods     \* after how many periods it starts Acqd again (180 s)

Commands == {"KillAcqd", "StartAcqd", "Clear", "NewRun"}
Zero == "zero"      \* a slot of theCmds never filled

ASSUME SupervisionAssumption ==
    /\ Uplinked \subseteq Commands
    /\ Levels \subseteq 0 .. 3
    /\ MaxUpsets \in Nat
    /\ MaxQueue \in Nat \ {0, 1}
    /\ SettlePeriods \in Nat \ {0} /\ WaitPeriods \in Nat \ {0}

\* Megabytes, or inodes, free on the ramdisk: below ramdiskDumpData, below
\* ramdiskKillAcqd, less than 200 above that, more.
Dump == 0
Low == 1
Mid == 2
Plenty == 3
Space == Dump .. Plenty

VARIABLES
    space,
    \* Acqd and Cmdd are "stopped", "stopping" (told to, not yet gone), "running", or
    \* "respawning": daemon(1) is there and about to start them
    acqd, cmdd,
    mon,                    \* does Monitord run, or will daemon(1) start it again?
    acqdPid, cmddPid,       \* the pid file: "none", "good", "stale" (names no process)
    \* Monitord
    mpc,                    \* its next step
    seen,                   \* what checkDisks found
    age, killAge,           \* periods since startTime and since acqdKillTime
    killedAcqd,
    missing,                \* Acqd's bit of value in checkProcesses
    \* Cmdd
    cmds,                   \* the commands in its directory, oldest first
    deaf,                   \* the directory watched is not this one
    phantom,                \* links reported whose file is gone
    slots,                  \* theCmds
    batch, upto,            \* numCmds and count of main
    cpc,                    \* its next step
    lastCmd,                \* the last command, Zero if it failed (lastCmdTime = 0)
                            \* or 30 seconds have passed since
    \* history
    killLost,               \* Cmdd died with Monitord's KillAcqd in memory
    upsets                  \* commands uplinked and programs that died by themselves

monitord == <<mpc, seen, age, killAge, killedAcqd, missing>>
executing == <<slots, batch, upto, cpc, lastCmd>>
listening == <<deaf, phantom>>
pids == <<acqdPid, cmddPid>>
vars == <<space, acqd, cmdd, mon, pids, monitord, cmds, listening, executing,
          killLost, upsets>>

Script == {"killAcqd", "awaitDead", "startMonitord", "startAcqd"}

Init ==
    /\ space = Plenty
    /\ acqd = "running" /\ cmdd = "running" /\ mon = TRUE
    /\ acqdPid = "good" /\ cmddPid = "good"
    /\ mpc = "asleep"
    /\ seen = Plenty
    /\ age = 0 /\ killAge = 0
    /\ killedAcqd = FALSE
    /\ missing = FALSE
    /\ cmds = <<>>
    /\ deaf = FALSE
    /\ phantom = 0
    /\ slots = [i \in 1 .. MaxQueue + 1 |-> Zero]
    /\ batch = 0 /\ upto = 0
    /\ cpc = "idle"
    /\ lastCmd = Zero
    /\ killLost = FALSE
    /\ upsets = 0

\* When the directory is full nothing is uplinked, and a round of Monitord ends as
\* if nothing had been amiss.
Room == Len(cmds) < MaxQueue

Least(a, b) == IF a < b THEN a ELSE b

-----------------------------------------------------------------------------
(* The world: data, uplinks, daemon(1), deaths *)

\* Whatever the data programs write and the downlinks delete.
SpaceChanges ==
    /\ space' \in Levels \ {space}
    /\ UNCHANGED <<acqd, cmdd, mon, pids, monitord, cmds, listening, executing,
                   killLost, upsets>>

Upset == upsets < MaxUpsets /\ upsets' = upsets + 1

Uplink(c) ==
    /\ Upset
    /\ Room
    /\ cmds' = Append(cmds, c)
    /\ UNCHANGED <<space, acqd, cmdd, mon, pids, monitord, listening, executing,
                   killLost>>

\* A new process: sortOutPidFile takes a stale file for its own.
AcqdComesUp ==
    /\ acqd = "respawning"
    /\ acqd' = "running"
    /\ acqdPid' = "good"
    /\ UNCHANGED <<space, cmdd, mon, cmddPid, monitord, cmds, listening, executing,
                   killLost, upsets>>

\* The signal has reached Acqd, whose handler unlinks its pid file.
AcqdGone ==
    /\ acqd = "stopping"
    /\ acqd' = "stopped"
    /\ acqdPid' = IF acqdPid = "good" THEN "none" ELSE acqdPid
    /\ UNCHANGED <<space, cmdd, mon, cmddPid, monitord, cmds, listening, executing,
                   killLost, upsets>>

\* setupLinkWatchDir watches the directory there is and reads it.
CmddComesUp ==
    /\ cmdd = "respawning"
    /\ cmdd' = "running"
    /\ cmddPid' = "good"
    /\ deaf' = FALSE
    /\ UNCHANGED <<space, acqd, mon, acqdPid, monitord, cmds, phantom, executing,
                   killLost, upsets>>

\* What a Monitord that has just been started begins with.
FreshMonitord ==
    /\ mpc' = "asleep"
    /\ seen' = Plenty
    /\ age' = 0 /\ killAge' = 0
    /\ killedAcqd' = FALSE
    /\ missing' = FALSE
    /\ killLost' = FALSE

\* A program that dies by a signal it handles unlinks its pid file, another
\* leaves it.
AcqdDies ==
    /\ acqd = "running" /\ Upset
    /\ acqd' = "respawning"
    /\ acqdPid' \in {"none", IF acqdPid = "good" THEN "stale" ELSE acqdPid}
    /\ UNCHANGED <<space, cmdd, mon, cmddPid, monitord, cmds, listening, executing,
                   killLost>>

MonitordDies ==
    /\ mon /\ Upset
    /\ FreshMonitord
    /\ UNCHANGED <<space, acqd, cmdd, mon, pids, cmds, listening, executing>>

\* The commands in theCmds that have not been executed.
InMemory == { slots[i] : i \in upto .. batch }

\* What Cmdd forgets: its batch, a script in the middle, the last command.
CmddForgets ==
    /\ slots' = [i \in DOMAIN slots |-> Zero]
    /\ batch' = 0 /\ upto' = 0
    /\ cpc' = "idle"
    /\ lastCmd' = Zero
    /\ phantom' = 0
    /\ killLost' = (killLost \/ (killedAcqd /\ cpc # "idle" /\ "KillAcqd" \in InMemory))

CmddDies ==
    /\ cmdd = "running" /\ Upset
    /\ cmdd' = "respawning"
    /\ cmddPid' \in {"none", IF cmddPid = "good" THEN "stale" ELSE cmddPid}
    /\ CmddForgets
    /\ UNCHANGED <<space, acqd, mon, acqdPid, monitord, cmds, deaf>>

World ==
    \/ SpaceChanges
    \/ \E c \in Uplinked : Uplink(c)
    \/ AcqdDies
    \/ MonitordDies
    \/ CmddDies

Daemon == AcqdComesUp \/ AcqdGone \/ CmddComesUp

-----------------------------------------------------------------------------
(* Monitord: one round of the loop in main *)

Settled == age = SettlePeriods

\* Acqd is started whoever killed it.
MutStartAcqdIfAllowed == missing' = Settled

StartAcqdIfAllowed == missing' = (Settled /\ ~killedAcqd)

\* checkDisks, and checkProcesses on Acqd: the pid file and a look at /proc.  Ten
\* seconds are enough for a Cmdd that daemon(1) is starting to come up.
CheckDisksAndAcqd ==
    /\ mon /\ mpc = "asleep"
    /\ cmdd # "respawning"
    /\ seen' = space
    /\ CASE acqdPid = "none"  -> StartAcqdIfAllowed /\ mpc' = "cmddPid"
         [] acqdPid = "stale" -> mpc' = "removeAcqdPid" /\ UNCHANGED missing
         [] OTHER             -> mpc' = "cmddPid" /\ UNCHANGED missing
    /\ UNCHANGED <<space, acqd, cmdd, mon, pids, age, killAge, killedAcqd, cmds,
                   listening, executing, killLost, upsets>>

\* The file goes even if a new Acqd has written it by now.
RemoveAcqdPid ==
    /\ mon /\ mpc = "removeAcqdPid"
    /\ acqdPid' = "none"
    /\ StartAcqdIfAllowed
    /\ mpc' = "cmddPid"
    /\ UNCHANGED <<space, acqd, cmdd, mon, cmddPid, seen, age, killAge, killedAcqd,
                   cmds, listening, executing, killLost, upsets>>

\* A Cmdd that is not there is sent a command.
MutRestartIfAllowed == mpc' = "send"

RestartIfAllowed == mpc' = IF Settled THEN "restartCmdd" ELSE "send"

LookForCmdd ==
    /\ mon /\ mpc = "cmddPid"
    /\ CASE cmddPid = "none"  -> RestartIfAllowed
         [] cmddPid = "stale" -> mpc' = "removeCmddPid"
         [] OTHER             -> mpc' = "send"
    /\ UNCHANGED <<space, acqd, cmdd, mon, pids, seen, age, killAge, killedAcqd,
                   missing, cmds, listening, executing, killLost, upsets>>

RemoveCmddPid ==
    /\ mon /\ mpc = "removeCmddPid"
    /\ cmddPid' = "none"
    /\ RestartIfAllowed
    /\ UNCHANGED <<space, acqd, cmdd, mon, acqdPid, seen, age, killAge, killedAcqd,
                   missing, cmds, listening, executing, killLost, upsets>>

\* daemon --stop, whatever Cmdd is doing, and daemon -r, which fails when the
\* daemon told to stop is still there.
RestartCmdd ==
    /\ mon /\ mpc = "restartCmdd"
    /\ cmdd' \in IF cmdd = "stopped" THEN {"respawning"} ELSE {"respawning", "stopped"}
    /\ cmddPid' = "none"
    /\ CmddForgets
    /\ mpc' = "send"
    /\ UNCHANGED <<space, acqd, mon, acqdPid, seen, age, killAge, killedAcqd, missing,
                   cmds, deaf, upsets>>

WriteCommandAndLink(c) == cmds' = Append(cmds, c)

\* The command at the end of checkProcesses.
SendStart ==
    /\ mon /\ mpc = "send"
    /\ IF missing /\ Room THEN WriteCommandAndLink("StartAcqd") ELSE UNCHANGED cmds
    /\ missing' = FALSE
    /\ mpc' = "decide"
    /\ UNCHANGED <<space, acqd, cmdd, mon, pids, seen, age, killAge, killedAcqd,
                   listening, executing, killLost, upsets>>

\* No time limit.
MutEnoughAgain == seen = Plenty

EnoughAgain == seen = Plenty \/ killAge = WaitPeriods

\* sleep(monitorPeriod), and the next round clears monData.
EndOfRound ==
    /\ mpc' = "asleep"
    /\ seen' = Plenty
    /\ age' = Least(age + 1, SettlePeriods)
    /\ killAge' = IF killedAcqd' THEN Least(killAge + 1, WaitPeriods) ELSE 0

\* killedAcqd is not cleared.
MutDecide ==
    /\ mon /\ mpc = "decide"
    /\ CASE Room /\ ~killedAcqd /\ seen = Dump ->
              WriteCommandAndLink("Clear") /\ UNCHANGED <<killedAcqd, killLost>>
         [] Room /\ ~killedAcqd /\ seen = Low ->
              WriteCommandAndLink("KillAcqd") /\ killedAcqd' = TRUE /\ UNCHANGED killLost
         [] Room /\ killedAcqd /\ EnoughAgain ->
              WriteCommandAndLink("StartAcqd") /\ UNCHANGED <<killedAcqd, killLost>>
         [] OTHER -> UNCHANGED <<cmds, killedAcqd, killLost>>
    /\ EndOfRound
    /\ UNCHANGED <<space, acqd, cmdd, mon, pids, missing, listening, executing, upsets>>

\* The ramdisk: clear it, kill Acqd, or start Acqd again.
Decide ==
    /\ mon /\ mpc = "decide"
    /\ CASE Room /\ ~killedAcqd /\ seen = Dump ->
              WriteCommandAndLink("Clear") /\ UNCHANGED <<killedAcqd, killLost>>
         [] Room /\ ~killedAcqd /\ seen = Low ->
              WriteCommandAndLink("KillAcqd") /\ killedAcqd' = TRUE /\ UNCHANGED killLost
         [] Room /\ killedAcqd /\ EnoughAgain ->
              WriteCommandAndLink("StartAcqd") /\ killedAcqd' = FALSE /\ killLost' = FALSE
         [] OTHER -> UNCHANGED <<cmds, killedAcqd, killLost>>
    /\ EndOfRound
    /\ UNCHANGED <<space, acqd, cmdd, mon, pids, missing, listening, executing, upsets>>

Monitord ==
    \/ CheckDisksAndAcqd
    \/ RemoveAcqdPid
    \/ LookForCmdd
    \/ RemoveCmddPid
    \/ RestartCmdd
    \/ SendStart
    \/ Decide

-----------------------------------------------------------------------------
(* Cmdd: the loop over the batch *)

\* All links there are: their commands go into the slots from the first on.
TakeBatch ==
    /\ cmdd = "running" /\ cpc = "idle"
    /\ ~deaf /\ cmds # <<>>
    /\ slots' = [i \in DOMAIN slots |-> IF i <= Len(cmds) THEN cmds[i] ELSE slots[i]]
    /\ batch' = Len(cmds)
    /\ upto' = 1
    /\ cmds' = <<>>
    /\ cpc' = "execute"
    /\ UNCHANGED <<space, acqd, cmdd, mon, pids, monitord, listening, lastCmd,
                   killLost, upsets>>

\* The links of the removed directory: the slots stay as they are.
TakePhantoms ==
    /\ cmdd = "running" /\ cpc = "idle"
    /\ phantom > 0
    /\ batch' = phantom
    /\ upto' = 1
    /\ phantom' = 0
    /\ cpc' = "execute"
    /\ UNCHANGED <<space, acqd, cmdd, mon, pids, monitord, cmds, deaf, slots, lastCmd, killLost, upsets>>

Same(c) == c = lastCmd

\* One command too many.
MutNextOfBatch ==
    IF upto <= batch THEN cpc' = "execute" /\ upto' = upto + 1 /\ UNCHANGED batch
                     ELSE cpc' = "idle" /\ upto' = 0 /\ batch' = 0

NextOfBatch ==
    IF upto < batch THEN cpc' = "execute" /\ upto' = upto + 1 /\ UNCHANGED batch
                    ELSE cpc' = "idle" /\ upto' = 0 /\ batch' = 0

Skip ==
    /\ cmdd = "running" /\ cpc = "execute"
    /\ slots[upto] = Zero \/ Same(slots[upto])
    /\ NextOfBatch
    /\ UNCHANGED <<space, acqd, cmdd, mon, pids, monitord, cmds, listening, slots,
                   lastCmd, killLost, upsets>>

Obeys(c) == cmdd = "running" /\ cpc = "execute" /\ slots[upto] = c /\ ~Same(c)

\* daemon --stop fails when there is no daemon, and killall -9 finds nobody.
KillPrograms ==
    /\ Obeys("KillAcqd")
    /\ acqd' = IF acqd = "stopped" THEN "stopped" ELSE "stopping"
    /\ lastCmd' = IF acqd # "stopped" THEN "KillAcqd" ELSE Zero
    /\ NextOfBatch
    /\ UNCHANGED <<space, cmdd, mon, pids, monitord, cmds, listening, slots, killLost,
                   upsets>>

\* daemon -r fails when a daemon of that name is there, stopping or not.
StartPrograms ==
    /\ Obeys("StartAcqd")
    /\ acqd' = IF acqd = "stopped" THEN "respawning" ELSE acqd
    /\ lastCmd' = IF acqd = "stopped" THEN "StartAcqd" ELSE Zero
    /\ NextOfBatch
    /\ UNCHANGED <<space, cmdd, mon, pids, monitord, cmds, listening, slots, killLost,
                   upsets>>

\* Half a minute has passed since the last command.
WindowPasses ==
    /\ lastCmd # Zero
    /\ lastCmd' = Zero
    /\ UNCHANGED <<space, acqd, cmdd, mon, pids, monitord, cmds, listening, slots, batch,
                   upto, cpc, killLost, upsets>>

-----------------------------------------------------------------------------
(* Cmdd: CLEAR_RAMDISK and CMD_START_NEW_RUN *)

scriptKeeps == <<cmdd, slots, upsets>>

\* killDataPrograms: Monitord first, a second later Acqd among the others.
Begin(c) ==
    /\ c \in {"Clear", "NewRun"}
    /\ Obeys(c)
    /\ mon' = FALSE
    /\ FreshMonitord
    /\ cpc' = "killAcqd"
    /\ UNCHANGED <<space, acqd, pids, cmds, listening, batch, upto, lastCmd, scriptKeeps>>

KillAcqd ==
    /\ cpc = "killAcqd"
    /\ acqd' = IF acqd = "stopped" THEN "stopped" ELSE "stopping"
    /\ cpc' = "awaitDead"
    /\ UNCHANGED <<space, mon, pids, monitord, cmds, listening, batch, upto, lastCmd,
                   killLost, scriptKeeps>>

\* It waits for the pid files to vanish and removes one that does not.  Then
\* rm -rf /tmp/anita, or only the data of the last run.
AwaitDead ==
    /\ cpc = "awaitDead"
    /\ acqd = "stopped"
    /\ acqdPid' = "none"
    /\ IF slots[upto] = "Clear"
         THEN /\ space' = Plenty
              /\ cmddPid' = "none"
              /\ phantom' = IF deaf THEN phantom ELSE Len(cmds) + 1
              /\ cmds' = <<>>
              /\ deaf' = TRUE
         ELSE UNCHANGED <<space, cmddPid, phantom, cmds, deaf>>
    /\ cpc' = "startMonitord"
    /\ UNCHANGED <<acqd, mon, monitord, batch, upto, lastCmd, killLost, scriptKeeps>>

\* startDataPrograms: Monitord comes before Acqd.
StartMonitord ==
    /\ cpc = "startMonitord"
    /\ mon' = TRUE
    /\ cpc' = "startAcqd"
    /\ UNCHANGED <<space, acqd, pids, monitord, cmds, listening, batch, upto, lastCmd,
                   killLost, scriptKeeps>>

StartAcqd ==
    /\ cpc = "startAcqd"
    /\ acqd' = IF acqd = "stopped" THEN "respawning" ELSE acqd
    /\ lastCmd' = slots[upto]
    /\ NextOfBatch
    /\ UNCHANGED <<space, mon, pids, monitord, cmds, listening, killLost, scriptKeeps>>

Cmdd ==
    \/ TakeBatch
    \/ TakePhantoms
    \/ Skip
    \/ KillPrograms
    \/ StartPrograms
    \/ \E c \in Commands : Begin(c)
    \/ KillAcqd
    \/ AwaitDead
    \/ StartMonitord
    \/ StartAcqd

-----------------------------------------------------------------------------
Next == World \/ Daemon \/ Monitord \/ Cmdd \/ WindowPasses

Spec == Init /\ [][Next]_vars

\* daemon(1) starts what died, a signalled Acqd goes away, Monitord sleeps ten
\* seconds, Cmdd polls, and time passes.
Fairness ==
    /\ WF_vars(AcqdComesUp) /\ WF_vars(AcqdGone)
    /\ WF_vars(CmddComesUp)
    /\ WF_vars(Monitord)
    /\ WF_vars(Cmdd)
    /\ WF_vars(WindowPasses)

FairSpec == Spec /\ Fairness

-----------------------------------------------------------------------------
(* Properties *)

\* Every variable stays in its type.
TypeOK ==
    /\ space \in Space /\ seen \in Space
    /\ acqd \in {"stopped", "stopping", "running", "respawning"}
    /\ cmdd \in {"stopped", "running", "respawning"}
    /\ mon \in BOOLEAN
    /\ acqdPid \in {"none", "good", "stale"} /\ cmddPid \in {"none", "good", "stale"}
    /\ mpc \in {"asleep", "removeAcqdPid", "cmddPid", "removeCmddPid", "restartCmdd",
                "send", "decide"}
    /\ age \in 0 .. SettlePeriods /\ killAge \in 0 .. WaitPeriods
    /\ killedAcqd \in BOOLEAN /\ missing \in BOOLEAN
    /\ cmds \in Seq(Commands) /\ Len(cmds) <= MaxQueue
    /\ deaf \in BOOLEAN /\ phantom \in 0 .. MaxQueue + 1
    /\ slots \in [1 .. MaxQueue + 1 -> Commands \cup {Zero}]
    /\ batch \in 0 .. MaxQueue + 1 /\ upto \in 0 .. batch
    /\ cpc \in {"idle", "execute"} \cup Script
    /\ lastCmd \in Commands \cup {Zero}
    /\ killLost \in BOOLEAN
    /\ upsets \in 0 .. MaxUpsets

AcqdUp == acqd \in {"running", "respawning"}

\* Some command is still on its way or being executed.
Outstanding == cmds # <<>> \/ phantom > 0 \/ cpc # "idle"

\* When Monitord has had Acqd killed and all commands have been obeyed, Acqd is
\* down: neither checkProcesses, which does miss its pid file, nor daemon(1),
\* nor an older command starts it.  Except that Cmdd may have died, or been
\* restarted by Monitord, with the command already taken from the directory.
AcqdStaysDown ==
    mon /\ killedAcqd /\ ~Outstanding /\ ~killLost => ~AcqdUp

\* Nobody restarts Monitord: the Cmdd that killed it has died in its script.
Stranded == ~mon /\ cpc \notin Script

\* If the ramdisk is never short of space from some time on, Acqd runs again
\* and again, whoever killed it and whatever commands were lost, unless Monitord
\* is stranded.
AcqdRunsAgain ==
    <>[](space >= Mid) => []<>(acqd = "running" \/ Stranded)

\* If the space stays low for ever, Acqd is stopped again and again: neither a
\* lost command nor Monitord's own death leaves it filling the ramdisk.
LowSpaceRelieved ==
    <>[](space = Low) => []<>(~AcqdUp \/ Stranded)

\* A Cmdd that has cleared the ramdisk hears commands again in the end.
CmddHears == deaf ~> ~deaf \/ Stranded

=============================================================================
