------------------------- MODULE Supervision_proof -------------------------
(***************************************************************************)
(* An Acqd that Monitord has had killed stays down, for any size of the    *)
(* queue of commands, any periods and any number of deaths.  Once the      *)
(* command is written, it is in the directory, in Cmdd's memory, or        *)
(* obeyed, and no start command can come behind it: Monitord writes none   *)
(* while killedAcqd, and the old commands that Cmdd obeys again after a    *)
(* clear come before, because a Cmdd that has them is deaf.                *)
(***************************************************************************)
EXTENDS Supervision, Integers, SequenceTheorems, TLAPS

\* Where Cmdd is in its batch and in a script, what it has forgotten when it is
\* not there, and that Monitord has not killed Acqd in its first moments.
Consistent ==
    /\ cpc # "idle" => upto \in 1 .. batch
    /\ cpc \in Script => slots[upto] \in {"Clear", "NewRun"}
    /\ cpc \in Script \ {"startAcqd"} => ~mon
    /\ cmdd # "running" => cpc = "idle" /\ phantom = 0
    /\ phantom > 0 => deaf
    /\ ~mon => ~killedAcqd
    /\ missing => ~killedAcqd /\ mpc # "decide"
    /\ lastCmd = "KillAcqd" => ~AcqdUp

NoStart(s, first, last) == \A i \in first .. last : s[i] # "StartAcqd"

EndsInKill(s, first, last) ==
    \E i \in first .. last : s[i] = "KillAcqd" /\ NoStart(s, i, last)

\* A KillAcqd that nothing undoes is queued, or taken, or has been obeyed.
KillQueued == EndsInKill(cmds, 1, Len(cmds))

KillTaken ==
    /\ NoStart(cmds, 1, Len(cmds)) /\ phantom = 0
    /\ cpc = "execute" /\ EndsInKill(slots, upto, batch)

KillObeyed ==
    /\ NoStart(cmds, 1, Len(cmds)) /\ phantom = 0
    /\ ~AcqdUp
    /\ cpc = "idle" \/ (cpc = "execute" /\ NoStart(slots, upto, batch))

KillComes == mon /\ killedAcqd /\ ~killLost => KillQueued \/ KillTaken \/ KillObeyed

SupInv == TypeOK /\ Consistent /\ KillComes

-----------------------------------------------------------------------------
(* Types *)

\* A command is written.
LEMMA Written ==
    ASSUME cmds \in Seq(Commands), NEW c \in Commands, cmds' = Append(cmds, c)
    PROVE  /\ cmds' \in Seq(Commands) /\ Len(cmds') = Len(cmds) + 1
           /\ cmds'[Len(cmds) + 1] = c
           /\ \A i \in 1 .. Len(cmds) : cmds'[i] = cmds[i]
  BY AppendProperties

\* Whoever makes a step, the types stay.
LEMMA TypeStep == TypeOK /\ Consistent /\ [Next]_vars => TypeOK'
<1> SUFFICES ASSUME TypeOK, Consistent, [Next]_vars PROVE TypeOK'
  OBVIOUS
<1>1. CASE SpaceChanges
  BY <1>1, SupervisionAssumption DEF TypeOK, Space, Dump, Low, Mid, Plenty, Script,
     pids, monitord, listening, executing, SpaceChanges
<1>2. ASSUME NEW c \in Uplinked, Uplink(c) PROVE TypeOK'
  BY <1>2, SupervisionAssumption DEF TypeOK, Upset, Room, pids, monitord, listening,
     executing, Uplink
<1>3. CASE AcqdDies
  BY <1>3, SupervisionAssumption DEF TypeOK, Upset, monitord, listening, executing,
     AcqdDies
<1>4. CASE MonitordDies
  <2>1. mon' \in BOOLEAN /\ killedAcqd' \in BOOLEAN /\ missing' \in BOOLEAN /\ killLost' \in BOOLEAN
    BY <1>4 DEF MonitordDies, FreshMonitord
  <2> QED
    BY <1>4, <2>1, SupervisionAssumption DEF TypeOK, Space, Dump, Low, Mid, Plenty,
       Script, Upset, FreshMonitord, pids, listening, executing, MonitordDies
<1>5. CASE CmddDies
  BY <1>5, SupervisionAssumption DEF TypeOK, Upset, CmddForgets, monitord, CmddDies
<1>6. CASE AcqdComesUp
  BY <1>6 DEF TypeOK, monitord, listening, executing, AcqdComesUp
<1>7. CASE AcqdGone
  BY <1>7 DEF TypeOK, monitord, listening, executing, AcqdGone
<1>8. CASE CmddComesUp
  <2>1. deaf' \in BOOLEAN
    BY <1>8 DEF CmddComesUp
  <2> QED
    BY <1>8, <2>1 DEF TypeOK, monitord, executing, CmddComesUp
<1>9. CASE CheckDisksAndAcqd
  <2>1. missing' \in BOOLEAN
    BY <1>9 DEF CheckDisksAndAcqd, StartAcqdIfAllowed, TypeOK
  <2> QED
    BY <1>9, <2>1 DEF TypeOK, Low, Mid, Plenty, Script, StartAcqdIfAllowed, pids,
       listening, executing, CheckDisksAndAcqd
<1>10. CASE RemoveAcqdPid
  BY <1>10 DEF TypeOK, StartAcqdIfAllowed, listening, executing, RemoveAcqdPid
<1>11. CASE LookForCmdd
  BY <1>11 DEF TypeOK, RestartIfAllowed, pids, listening, executing, LookForCmdd
<1>12. CASE RemoveCmddPid
  BY <1>12 DEF TypeOK, RestartIfAllowed, listening, executing, RemoveCmddPid
<1>13. CASE RestartCmdd
  BY <1>13, SupervisionAssumption DEF TypeOK, CmddForgets, RestartCmdd
<1>14. CASE SendStart
  <2>1. missing' \in BOOLEAN
    BY <1>14 DEF SendStart
  <2> QED
    BY <1>14, <2>1, SupervisionAssumption DEF TypeOK, Commands, Script, Room,
       WriteCommandAndLink, pids, listening, executing, SendStart
<1>15. CASE Decide
  <2>1. killedAcqd' \in BOOLEAN /\ killLost' \in BOOLEAN
    BY <1>15 DEF Decide, TypeOK
  <2>2. cmds' \in Seq(Commands) /\ Len(cmds') <= MaxQueue
    <3>1. CASE cmds' = cmds
      BY <3>1 DEF TypeOK
    <3>2. ASSUME NEW c \in Commands, Room, cmds' = Append(cmds, c)
          PROVE  cmds' \in Seq(Commands) /\ Len(cmds') <= MaxQueue
      BY <3>2, Written, SupervisionAssumption DEF TypeOK, Room
    <3> QED
      BY <1>15, <3>1, <3>2 DEF Decide, WriteCommandAndLink, Commands
  <2>3. age' \in 0 .. SettlePeriods /\ killAge' \in 0 .. WaitPeriods
    BY <1>15, <2>1, SupervisionAssumption DEF Decide, EndOfRound, Least, TypeOK
  <2>4. /\ mpc' = "asleep" /\ seen' \in Space
        /\ UNCHANGED <<space, acqd, cmdd, mon, pids, missing, listening, executing, upsets>>
    BY <1>15 DEF Decide, EndOfRound, Space, Dump, Plenty
  <2> QED
    BY <2>1, <2>2, <2>3, <2>4 DEF TypeOK, pids, listening, executing
<1>16. CASE TakeBatch
  BY <1>16, SupervisionAssumption DEF TypeOK, pids, monitord, listening, TakeBatch
<1>17. CASE TakePhantoms
  BY <1>17, SupervisionAssumption DEF TypeOK, pids, monitord, TakePhantoms
<1>18. CASE Skip
  BY <1>18, SupervisionAssumption DEF TypeOK, NextOfBatch, pids, monitord, listening,
     Skip
<1>19. CASE KillPrograms
  BY <1>19, SupervisionAssumption DEF TypeOK, Commands, Script, Obeys, NextOfBatch,
     pids, monitord, listening, KillPrograms
<1>20. CASE StartPrograms
  BY <1>20, SupervisionAssumption DEF TypeOK, Commands, Script, Obeys, NextOfBatch,
     pids, monitord, listening, StartPrograms
<1>21. ASSUME NEW c \in Commands, Begin(c) PROVE TypeOK'
  <2>1. mon' \in BOOLEAN /\ killedAcqd' \in BOOLEAN /\ missing' \in BOOLEAN /\ killLost' \in BOOLEAN
    BY <1>21 DEF Begin, FreshMonitord
  <2> QED
    BY <1>21, <2>1, SupervisionAssumption DEF TypeOK, Space, Dump, Low, Mid, Plenty,
       Script, Obeys, FreshMonitord, scriptKeeps, pids, listening, Begin
<1>22. CASE KillAcqd
  BY <1>22 DEF TypeOK, Script, scriptKeeps, pids, monitord, listening, KillAcqd
<1>23. CASE AwaitDead
  <2> DEFINE Cleared ==
              /\ space' \in Space /\ deaf' \in BOOLEAN
              /\ cmds' \in Seq(Commands) /\ Len(cmds') <= MaxQueue
              /\ phantom' \in 0 .. MaxQueue + 1
  <2>1. ASSUME slots[upto] = "Clear" PROVE Cleared
    <3>1. /\ space' = Plenty /\ cmds' = <<>> /\ deaf' = TRUE
          /\ phantom' \in {phantom, Len(cmds) + 1}
      BY <1>23, <2>1 DEF AwaitDead
    <3>2. Len(cmds) \in 0 .. MaxQueue /\ phantom \in 0 .. MaxQueue + 1
      BY DEF TypeOK
    <3>3. phantom' \in 0 .. MaxQueue + 1
      BY <3>1, <3>2, SupervisionAssumption
    <3>4. deaf' \in BOOLEAN
      BY <3>1
    <3>5. cmds' \in Seq(Commands) /\ Len(cmds') <= MaxQueue
      BY <3>1, SupervisionAssumption
    <3> QED
      BY <3>1, <3>3, <3>4, <3>5 DEF Space, Dump, Plenty
  <2>2. ASSUME slots[upto] # "Clear" PROVE Cleared
    <3>1. UNCHANGED <<space, phantom, cmds, deaf>>
      BY <1>23, <2>2 DEF AwaitDead
    <3> QED
      BY <3>1 DEF TypeOK
  <2>3. /\ acqdPid' = "none" /\ cmddPid' \in {cmddPid, "none"} /\ cpc' = "startMonitord"
        /\ UNCHANGED <<acqd, mon, monitord, batch, upto, lastCmd, killLost, scriptKeeps>>
    BY <1>23 DEF AwaitDead
  <2> QED
    BY <2>1, <2>2, <2>3 DEF TypeOK, monitord, scriptKeeps, Script
<1>24. CASE StartMonitord
  BY <1>24 DEF TypeOK, Script, scriptKeeps, pids, monitord, listening, StartMonitord
<1>25. CASE StartAcqd
  BY <1>25, SupervisionAssumption DEF TypeOK, Consistent, Zero, Script, scriptKeeps,
     NextOfBatch, pids, monitord, listening, StartAcqd
<1>26. CASE WindowPasses
  BY <1>26 DEF TypeOK, pids, monitord, listening, WindowPasses
<1>27. CASE UNCHANGED vars
  BY <1>27 DEF TypeOK, pids, monitord, listening, executing, vars
<1> QED
  BY <1>1, <1>2, <1>3, <1>4, <1>5, <1>6, <1>7, <1>8, <1>9, <1>10, <1>11, <1>12, <1>13,
     <1>14, <1>15, <1>16, <1>17, <1>18, <1>19, <1>20, <1>21, <1>22, <1>23, <1>24, <1>25,
     <1>26, <1>27 DEF Next, World, Daemon, Monitord, Cmdd

-----------------------------------------------------------------------------
(* Consistency *)

\* Whoever makes a step, the programs stay consistent.
LEMMA ConsistentStep == TypeOK /\ Consistent /\ [Next]_vars => Consistent'
<1> SUFFICES ASSUME TypeOK, Consistent, [Next]_vars PROVE Consistent'
  OBVIOUS
<1>1. CASE SpaceChanges
  BY <1>1 DEF Consistent, AcqdUp, Script, Zero, pids, monitord, listening, executing,
     SpaceChanges
<1>2. ASSUME NEW c \in Uplinked, Uplink(c) PROVE Consistent'
  BY <1>2 DEF Consistent, AcqdUp, Script, Zero, Upset, Room, pids, monitord, listening,
     executing, Uplink
<1>3. CASE AcqdDies
  BY <1>3 DEF Consistent, AcqdUp, Script, Zero, Upset, monitord, listening, executing,
     AcqdDies
<1>4. CASE MonitordDies
  BY <1>4 DEF Consistent, AcqdUp, Script, Zero, Upset, FreshMonitord, pids, listening,
     executing, MonitordDies
<1>5. CASE CmddDies
  BY <1>5 DEF Consistent, Script, Zero, Upset, CmddForgets, monitord, CmddDies
<1>6. CASE AcqdComesUp
  BY <1>6 DEF Consistent, AcqdUp, Script, Zero, monitord, listening, executing,
     AcqdComesUp
<1>7. CASE AcqdGone
  BY <1>7 DEF Consistent, AcqdUp, Script, Zero, monitord, listening, executing, AcqdGone
<1>8. CASE CmddComesUp
  BY <1>8 DEF Consistent, AcqdUp, Script, Zero, monitord, executing, CmddComesUp
<1>9. CASE CheckDisksAndAcqd
  BY <1>9 DEF Consistent, AcqdUp, Script, Zero, StartAcqdIfAllowed, pids, listening,
     executing, CheckDisksAndAcqd
<1>10. CASE RemoveAcqdPid
  BY <1>10 DEF Consistent, AcqdUp, Script, Zero, StartAcqdIfAllowed, listening,
     executing, RemoveAcqdPid
<1>11. CASE LookForCmdd
  BY <1>11 DEF Consistent, AcqdUp, Script, Zero, RestartIfAllowed, pids, listening,
     executing, LookForCmdd
<1>12. CASE RemoveCmddPid
  BY <1>12 DEF Consistent, AcqdUp, Script, Zero, RestartIfAllowed, listening, executing,
     RemoveCmddPid
<1>13. CASE RestartCmdd
  BY <1>13 DEF Consistent, Script, Zero, CmddForgets, RestartCmdd
<1>14. CASE SendStart
  BY <1>14 DEF Consistent, AcqdUp, Script, Zero, Room, WriteCommandAndLink, pids,
     listening, executing, SendStart
<1>15. CASE Decide
  BY <1>15 DEF Consistent, AcqdUp, Script, Zero, Room, WriteCommandAndLink, EndOfRound,
     Least, pids, listening, executing, Decide
<1>16. CASE TakeBatch
  BY <1>16 DEF Consistent, AcqdUp, Script, Zero, pids, monitord, listening, TakeBatch
<1>17. CASE TakePhantoms
  BY <1>17 DEF TypeOK, Consistent, AcqdUp, Script, Zero, pids, monitord, TakePhantoms
<1>18. CASE Skip
  BY <1>18 DEF TypeOK, Consistent, AcqdUp, Script, Zero, NextOfBatch, pids, monitord,
     listening, Skip
<1>19. CASE KillPrograms
  BY <1>19 DEF TypeOK, Consistent, AcqdUp, Script, Zero, Obeys, NextOfBatch, pids,
     monitord, listening, KillPrograms
<1>20. CASE StartPrograms
  BY <1>20 DEF TypeOK, Consistent, Script, Zero, Obeys, NextOfBatch, pids, monitord,
     listening, StartPrograms
<1>21. ASSUME NEW c \in Commands, Begin(c) PROVE Consistent'
  BY <1>21 DEF Consistent, AcqdUp, Script, Zero, Obeys, FreshMonitord, scriptKeeps,
     pids, listening, Begin
<1>22. CASE KillAcqd
  BY <1>22 DEF Consistent, AcqdUp, Script, Zero, scriptKeeps, pids, monitord, listening,
     KillAcqd
<1>23. CASE AwaitDead
  BY <1>23 DEF Consistent, AcqdUp, Script, Zero, scriptKeeps, monitord, AwaitDead
<1>24. CASE StartMonitord
  BY <1>24 DEF Consistent, AcqdUp, Script, Zero, scriptKeeps, pids, monitord, listening,
     StartMonitord
<1>25. CASE StartAcqd
  BY <1>25 DEF TypeOK, Consistent, Script, Zero, scriptKeeps, NextOfBatch, pids,
     monitord, listening, StartAcqd
<1>26. CASE WindowPasses
  BY <1>26 DEF Consistent, Script, Zero, pids, monitord, listening, WindowPasses
<1>27. CASE UNCHANGED vars
  BY <1>27 DEF Consistent, AcqdUp, monitord, listening, executing, vars
<1> QED
  BY <1>1, <1>2, <1>3, <1>4, <1>5, <1>6, <1>7, <1>8, <1>9, <1>10, <1>11, <1>12, <1>13,
     <1>14, <1>15, <1>16, <1>17, <1>18, <1>19, <1>20, <1>21, <1>22, <1>23, <1>24, <1>25,
     <1>26, <1>27 DEF Next, World, Daemon, Monitord, Cmdd

-----------------------------------------------------------------------------
(* The kill comes *)

\* A step that touches neither the commands nor what Monitord and Cmdd know of
\* them, and does not bring Acqd up.
LEMMA Untouched ==
    ASSUME KillComes, AcqdUp' => AcqdUp,
           UNCHANGED <<mon, killedAcqd, killLost, cmds, phantom, cpc, slots, upto, batch>>
    PROVE  KillComes'
  BY DEF KillComes, KillQueued, KillTaken, KillObeyed, EndsInKill, NoStart

\* Another command than the start of Acqd is written behind what there is.
LEMMA Behind ==
    ASSUME TypeOK, KillQueued \/ KillTaken \/ KillObeyed, NEW c \in Commands \ {"StartAcqd"},
           cmds' = Append(cmds, c), UNCHANGED <<acqd, phantom, cpc, slots, upto, batch>>
    PROVE  (KillQueued \/ KillTaken \/ KillObeyed)'
<1>1. /\ Len(cmds) \in Nat /\ Len(cmds') = Len(cmds) + 1
      /\ cmds'[Len(cmds) + 1] = c
      /\ \A i \in 1 .. Len(cmds) : cmds'[i] = cmds[i]
  BY Written
<1>2. NoStart(cmds, 1, Len(cmds)) => NoStart(cmds, 1, Len(cmds))'
  BY <1>1 DEF NoStart
<1>3. CASE KillQueued
  <2>1. PICK i \in 1 .. Len(cmds) : cmds[i] = "KillAcqd" /\ NoStart(cmds, i, Len(cmds))
    BY <1>3 DEF KillQueued, EndsInKill
  <2>2. i \in 1 .. Len(cmds') /\ cmds'[i] = "KillAcqd" /\ NoStart(cmds', i, Len(cmds'))
    BY <1>1, <2>1 DEF NoStart
  <2> QED
    BY <2>2 DEF KillQueued, EndsInKill
<1>4. CASE KillTaken
  BY <1>2, <1>4 DEF KillTaken
<1>5. CASE KillObeyed
  BY <1>2, <1>5 DEF KillObeyed, AcqdUp
<1> QED
  BY <1>3, <1>4, <1>5

\* Cmdd goes on to the next command: the kill is still before it, or it was
\* this one.
LEMMA Onward ==
    ASSUME TypeOK, Consistent, cpc = "execute", NextOfBatch, UNCHANGED slots
    PROVE  /\ NoStart(slots, upto, batch) =>
                cpc' = "idle" \/ (cpc' = "execute" /\ NoStart(slots, upto, batch)')
           /\ EndsInKill(slots, upto, batch) =>
                \/ cpc' = "execute" /\ EndsInKill(slots, upto, batch)'
                \/ slots[upto] = "KillAcqd" /\ NoStart(slots, upto, batch)
<1>1. upto \in Nat /\ batch \in Nat /\ upto \in 1 .. batch
  BY DEF TypeOK, Consistent
<1>2. ASSUME NoStart(slots, upto, batch)
      PROVE  cpc' = "idle" \/ (cpc' = "execute" /\ NoStart(slots, upto, batch)')
  BY <1>1, <1>2 DEF NoStart, NextOfBatch
<1>3. ASSUME EndsInKill(slots, upto, batch)
      PROVE  \/ cpc' = "execute" /\ EndsInKill(slots, upto, batch)'
             \/ slots[upto] = "KillAcqd" /\ NoStart(slots, upto, batch)
  <2>1. PICK i \in upto .. batch : slots[i] = "KillAcqd" /\ NoStart(slots, i, batch)
    BY <1>3 DEF EndsInKill
  <2>2. CASE i = upto
    BY <2>1, <2>2
  <2>3. CASE i # upto
    <3>1. upto' = upto + 1 /\ batch' = batch /\ cpc' = "execute" /\ i \in upto' .. batch'
      BY <1>1, <2>1, <2>3 DEF NextOfBatch
    <3> QED
      BY <2>1, <3>1 DEF EndsInKill
  <2> QED
    BY <2>2, <2>3
<1> QED
  BY <1>2, <1>3

\* One command of the batch is done.
LEMMA CommandDone ==
    ASSUME TypeOK, Consistent, KillComes, cpc = "execute", NextOfBatch,
           UNCHANGED <<mon, killedAcqd, killLost, cmds, phantom, slots>>,
           slots[upto] = "KillAcqd" => ~AcqdUp',
           slots[upto] # "StartAcqd" => (AcqdUp' => AcqdUp)
    PROVE  KillComes'
<1> SUFFICES ASSUME mon, killedAcqd, ~killLost
             PROVE  (KillQueued \/ KillTaken \/ KillObeyed)'
  BY DEF KillComes
<1>1. KillQueued \/ KillTaken \/ KillObeyed
  BY DEF KillComes
<1>2. NoStart(cmds, 1, Len(cmds)) => NoStart(cmds, 1, Len(cmds))'
  BY DEF NoStart
<1>3. upto \in upto .. batch
  BY DEF TypeOK, Consistent
<1>4. CASE KillQueued
  BY <1>4 DEF KillQueued
<1>5. CASE KillTaken
  <2>1. NoStart(cmds, 1, Len(cmds))' /\ phantom' = 0
    BY <1>2, <1>5 DEF KillTaken
  <2>2. CASE cpc' = "execute" /\ EndsInKill(slots, upto, batch)'
    BY <2>1, <2>2 DEF KillTaken
  <2>3. CASE slots[upto] = "KillAcqd" /\ NoStart(slots, upto, batch)
    BY <2>1, <2>3, Onward DEF KillObeyed
  <2> QED
    BY <1>5, <2>2, <2>3, Onward DEF KillTaken
<1>6. CASE KillObeyed
  <2>1. NoStart(cmds, 1, Len(cmds))' /\ phantom' = 0
    BY <1>2, <1>6 DEF KillObeyed
  <2>2. NoStart(slots, upto, batch)
    BY <1>6 DEF KillObeyed
  <2>3. ~AcqdUp'
    BY <1>3, <1>6, <2>2 DEF KillObeyed, NoStart
  <2> QED
    BY <2>1, <2>2, <2>3, Onward DEF KillObeyed
<1> QED
  BY <1>1, <1>4, <1>5, <1>6

\* Cmdd forgets its batch, and with it perhaps the kill.
LEMMA Forgotten ==
    ASSUME KillComes, CmddForgets, UNCHANGED <<mon, killedAcqd, acqd, cmds>>
    PROVE  KillComes'
<1> SUFFICES ASSUME mon, killedAcqd, ~killLost'
             PROVE  (KillQueued \/ KillTaken \/ KillObeyed)'
  BY DEF KillComes
<1>1. ~killLost /\ ~(cpc # "idle" /\ "KillAcqd" \in InMemory)
  BY DEF CmddForgets
<1>2. ~KillTaken
  BY <1>1 DEF KillTaken, EndsInKill, InMemory
<1>3. CASE KillQueued
  BY <1>3 DEF KillQueued
<1>4. CASE KillObeyed
  BY <1>4 DEF KillObeyed, AcqdUp, CmddForgets
<1> QED
  BY <1>1, <1>2, <1>3, <1>4 DEF KillComes

\* Whoever makes a step, the kill still comes.
LEMMA KillStep ==
    ASSUME "StartAcqd" \notin Uplinked
    PROVE  TypeOK /\ Consistent /\ KillComes /\ [Next]_vars => KillComes'
<1> SUFFICES ASSUME TypeOK, Consistent, KillComes, [Next]_vars PROVE KillComes'
  OBVIOUS
<1>1. CASE SpaceChanges
  BY <1>1, Untouched DEF SpaceChanges, AcqdUp, monitord, listening, executing
<1>2. ASSUME NEW c \in Uplinked, Uplink(c) PROVE KillComes'
  <2>1. c \in Commands \ {"StartAcqd"}
    BY SupervisionAssumption
  <2>2. cmds' = Append(cmds, c) /\ UNCHANGED <<acqd, mon, killedAcqd, killLost, phantom, cpc, slots, upto, batch>>
    BY <1>2 DEF Uplink, monitord, listening, executing
  <2> QED
    BY <2>1, <2>2, Behind DEF KillComes
<1>3. CASE AcqdDies
  BY <1>3, Untouched DEF AcqdDies, AcqdUp, monitord, listening, executing
<1>4. CASE MonitordDies
  BY <1>4 DEF MonitordDies, FreshMonitord, KillComes
<1>5. CASE CmddDies
  BY <1>5, Forgotten DEF CmddDies, monitord
<1>6. CASE AcqdComesUp
  BY <1>6, Untouched DEF AcqdComesUp, AcqdUp, monitord, listening, executing
<1>7. CASE AcqdGone
  BY <1>7, Untouched DEF AcqdGone, AcqdUp, monitord, listening, executing
<1>8. CASE CmddComesUp
  BY <1>8, Untouched DEF CmddComesUp, AcqdUp, monitord, executing
<1>9. CASE CheckDisksAndAcqd
  BY <1>9, Untouched DEF CheckDisksAndAcqd, AcqdUp, listening, executing
<1>10. CASE RemoveAcqdPid
  BY <1>10, Untouched DEF RemoveAcqdPid, AcqdUp, listening, executing
<1>11. CASE LookForCmdd
  BY <1>11, Untouched DEF LookForCmdd, AcqdUp, listening, executing
<1>12. CASE RemoveCmddPid
  BY <1>12, Untouched DEF RemoveCmddPid, AcqdUp, listening, executing
<1>13. CASE RestartCmdd
  BY <1>13, Forgotten DEF RestartCmdd
<1>14. CASE SendStart
  <2>1. UNCHANGED <<acqd, mon, killedAcqd, killLost, phantom, cpc, slots, upto, batch>>
    BY <1>14 DEF SendStart, listening, executing
  <2>2. CASE missing
    BY <2>1, <2>2 DEF Consistent, KillComes
  <2>3. CASE ~missing
    BY <1>14, <2>1, <2>3, Untouched DEF SendStart, AcqdUp
  <2> QED
    BY <2>2, <2>3
<1>15. CASE Decide
  <2>1. UNCHANGED <<acqd, mon, phantom, cpc, slots, upto, batch>>
    BY <1>15 DEF Decide, listening, executing
  <2>2. CASE WriteCommandAndLink("Clear") /\ UNCHANGED <<killedAcqd, killLost>>
    BY <2>1, <2>2, Behind DEF WriteCommandAndLink, Commands, KillComes
  <2>3. CASE WriteCommandAndLink("KillAcqd")
    <3>1. Len(cmds) \in Nat /\ Len(cmds') = Len(cmds) + 1 /\ cmds'[Len(cmds')] = "KillAcqd"
      BY <2>3, Written DEF WriteCommandAndLink
    <3>2. KillQueued'
      BY <3>1 DEF KillQueued, EndsInKill, NoStart
    <3> QED
      BY <3>2 DEF KillComes
  <2>4. CASE WriteCommandAndLink("StartAcqd") /\ killedAcqd' = FALSE
    BY <2>4 DEF KillComes
  <2>5. CASE UNCHANGED <<cmds, killedAcqd, killLost>>
    BY <2>1, <2>5, Untouched DEF AcqdUp
  <2> QED
    BY <1>15, <2>2, <2>3, <2>4, <2>5 DEF Decide
<1>16. CASE TakeBatch
  <2>1. /\ cpc = "idle" /\ cpc' = "execute" /\ cmds' = <<>> /\ phantom = 0
        /\ upto' = 1 /\ batch' = Len(cmds)
        /\ UNCHANGED <<acqd, mon, killedAcqd, killLost, phantom>>
    BY <1>16 DEF TakeBatch, Consistent, TypeOK, monitord, listening
  <2>2. Len(cmds) \in Nat /\ Len(cmds) <= MaxQueue
    BY DEF TypeOK
  <2>3. \A i \in 1 .. Len(cmds) : slots'[i] = cmds[i]
    BY <1>16, <2>2, SupervisionAssumption DEF TakeBatch, TypeOK
  <2>4. NoStart(cmds, 1, Len(cmds))'
    BY <2>1 DEF NoStart
  <2>5. ASSUME KillQueued PROVE KillTaken'
    <3>1. EndsInKill(slots', 1, Len(cmds))
      BY <2>2, <2>3, <2>5 DEF KillQueued, EndsInKill, NoStart
    <3> QED
      BY <2>1, <2>4, <3>1 DEF KillTaken
  <2>6. ASSUME KillObeyed PROVE KillObeyed'
    <3>1. NoStart(slots', 1, Len(cmds))
      BY <2>2, <2>3, <2>6 DEF KillObeyed, NoStart
    <3> QED
      BY <2>1, <2>4, <2>6, <3>1 DEF KillObeyed, AcqdUp
  <2>7. ~KillTaken
    BY <2>1 DEF KillTaken
  <2> QED
    BY <2>1, <2>5, <2>6, <2>7 DEF KillComes
<1>17. CASE TakePhantoms
  <2>1. phantom > 0 /\ UNCHANGED <<mon, killedAcqd, killLost, cmds>>
    BY <1>17 DEF TakePhantoms, monitord
  <2>2. ~KillTaken /\ ~KillObeyed
    BY <2>1 DEF KillTaken, KillObeyed
  <2> QED
    BY <2>1, <2>2 DEF KillComes, KillQueued
<1>18. CASE Skip
  <2>1. slots[upto] = "KillAcqd" => ~AcqdUp
    BY <1>18 DEF Skip, Same, Zero, Consistent
  <2> QED
    BY <1>18, <2>1, CommandDone DEF Skip, AcqdUp, monitord, listening
<1>19. CASE KillPrograms
  BY <1>19, CommandDone DEF KillPrograms, Obeys, AcqdUp, monitord, listening
<1>20. CASE StartPrograms
  BY <1>20, CommandDone DEF StartPrograms, Obeys, monitord, listening
<1>21. ASSUME NEW c \in Commands, Begin(c) PROVE KillComes'
  BY <1>21 DEF Begin, KillComes
<1>22. CASE KillAcqd
  BY <1>22 DEF KillAcqd, Script, Consistent, KillComes
<1>23. CASE AwaitDead
  BY <1>23 DEF AwaitDead, Script, Consistent, KillComes
<1>24. CASE StartMonitord
  BY <1>24 DEF StartMonitord, Script, monitord, Consistent, KillComes
<1>25. CASE StartAcqd
  <2>1. cpc = "startAcqd" /\ UNCHANGED <<mon, killedAcqd, killLost, cmds>>
    BY <1>25 DEF StartAcqd, monitord
  <2>2. ~KillTaken /\ ~KillObeyed
    BY <2>1 DEF KillTaken, KillObeyed
  <2> QED
    BY <2>1, <2>2 DEF KillComes, KillQueued
<1>26. CASE WindowPasses
  BY <1>26, Untouched DEF WindowPasses, AcqdUp, monitord, listening
<1>27. CASE UNCHANGED vars
  BY <1>27, Untouched DEF vars, AcqdUp, monitord, listening, executing
<1> QED
  BY <1>1, <1>2, <1>3, <1>4, <1>5, <1>6, <1>7, <1>8, <1>9, <1>10, <1>11, <1>12, <1>13,
     <1>14, <1>15, <1>16, <1>17, <1>18, <1>19, <1>20, <1>21, <1>22, <1>23, <1>24, <1>25,
     <1>26, <1>27 DEF Next, World, Daemon, Monitord, Cmdd

-----------------------------------------------------------------------------
(* The theorems *)

\* Nothing has happened yet.
LEMMA Start == Init => TypeOK /\ Consistent /\ KillComes
<1> SUFFICES ASSUME Init PROVE TypeOK /\ Consistent /\ KillComes
  OBVIOUS
<1>1. /\ mon = TRUE /\ killedAcqd = FALSE /\ missing = FALSE /\ killLost = FALSE /\ deaf = FALSE
      /\ cmds = <<>>
  BY DEF Init
<1>2. TypeOK
  <2>1. /\ mon \in BOOLEAN /\ killedAcqd \in BOOLEAN /\ missing \in BOOLEAN
        /\ killLost \in BOOLEAN /\ deaf \in BOOLEAN
    BY <1>1
  <2>2. cmds \in Seq(Commands) /\ Len(cmds) <= MaxQueue
    BY <1>1, SupervisionAssumption
  <2>3. slots \in [1 .. MaxQueue + 1 -> Commands \cup {Zero}]
    BY DEF Init
  <2> QED
    BY <2>1, <2>2, <2>3, SupervisionAssumption DEF Init, TypeOK, Space, Dump, Low, Mid,
       Plenty, Script
<1>3. Consistent
  BY <1>1 DEF Init, Consistent, Script, Zero
<1> QED
  BY <1>1, <1>2, <1>3 DEF KillComes

\* Every variable stays in its type: space and pid files, Monitord's memory of
\* what it did, the queue of commands and the slots that Cmdd executes.
THEOREM Typing == Spec => []TypeOK
<1>1. Init => TypeOK /\ Consistent
  BY Start
<1>2. TypeOK /\ Consistent /\ [Next]_vars => (TypeOK /\ Consistent)'
  BY TypeStep, ConsistentStep
<1> QED
  BY <1>1, <1>2, PTL DEF Spec

\* An Acqd that Monitord has had killed is down once all commands are obeyed
\* (Monitord.c:233, Cmdd.c:3608), if the ground does not start it and Cmdd has
\* not died with the kill in its memory: neither checkProcesses, nor daemon(1),
\* nor a clear that obeys old commands again brings it back.
THEOREM StaysDown ==
    ASSUME "StartAcqd" \notin Uplinked
    PROVE  Spec => []AcqdStaysDown
<1>1. Init => SupInv
  BY Start DEF SupInv
<1>2. SupInv /\ [Next]_vars => SupInv'
  BY TypeStep, ConsistentStep, KillStep DEF SupInv
<1>3. SupInv => AcqdStaysDown
  <2> SUFFICES ASSUME SupInv, mon, killedAcqd, ~Outstanding, ~killLost PROVE ~AcqdUp
    BY DEF AcqdStaysDown
  <2>1. KillQueued \/ KillTaken \/ KillObeyed
    BY DEF SupInv, KillComes
  <2>2. ~KillQueued
    BY DEF Outstanding, KillQueued, EndsInKill
  <2>3. ~KillTaken
    BY DEF Outstanding, KillTaken
  <2> QED
    BY <2>1, <2>2, <2>3 DEF KillObeyed
<1> QED
  BY <1>1, <1>2, <1>3, PTL DEF Spec
=============================================================================
