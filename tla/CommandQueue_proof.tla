------------------------- MODULE CommandQueue_proof -------------------------
(***************************************************************************)
(* For any writers and commands, any number of calls, seconds and deaths.  *)
(* Types need no more than counting: a link is made by a call of its own,  *)
(* and a scan at Cmdd's start offers each link once more.  That a command  *)
(* is obeyed once, and in order, holds while each is sent in a second of   *)
(* its own; then a name belongs to a call, and the file of a call is there *)
(* once, between its writing and Cmdd's removing it.                       *)
(***************************************************************************)
EXTENDS CommandQueue, SequenceTheorems, FiniteSetTheorems, TLAPS

-----------------------------------------------------------------------------
(* Types and sizes *)

Call == [cmd : Commands, time : Times, open : SUBSET Calls]

\* The calls that have returned: each has made a link at most.
Returned == DOMAIN calls \ Open

\* The writers' memories: each is in a call of its own, or in none.
WriterType ==
    /\ clock \in Times
    /\ calls \in Seq(Call) /\ Len(calls) <= MaxWrites
    /\ wpc \in [Writers -> {"idle", "look", "write", "link"}]
    /\ wcall \in [Writers -> {0} \cup DOMAIN calls]
    /\ wtag \in [Writers -> {0, 1}]
    /\ \A w \in Writers : wcall[w] = 0 <=> wpc[w] = "idle"
    /\ \A v, w \in Writers : wcall[v] = wcall[w] => v = w \/ wcall[v] = 0

FileType ==
    /\ dir \in [Names -> {0} \cup DOMAIN calls]
    /\ link \subseteq Names
    /\ list \in Seq(Names)

\* The links there can be, in the directory and in the list.
Sizes ==
    /\ IsFiniteSet(Returned) /\ IsFiniteSet(link)
    /\ Cardinality(link) <= Cardinality(Returned)
    /\ phase = "watching" => Len(list) <= Cardinality(Returned)
    /\ Len(list) <= 2 * Cardinality(Returned)

Taking == {"fill", "rmFile", "rmLink"}

CmddType ==
    /\ phase \in {"down", "watching", "up"}
    /\ pc \in {"idle", "execute"} \cup Taking
    /\ phase # "up" => pc = "idle"
    /\ phase = "down" => list = <<>>
    /\ batch \in 0 .. 2 * MaxWrites /\ upto \in 0 .. batch
    /\ pc # "idle" => upto > 0
    /\ pc \in Taking => Len(list) > batch - upto
    /\ slots \in [1 .. 2 * MaxWrites -> {0} \cup DOMAIN calls]
    /\ done \in Seq(DOMAIN calls)
    /\ skipped \subseteq DOMAIN calls

QueueType == WriterType /\ FileType /\ Sizes /\ CmddType

-----------------------------------------------------------------------------
(* Calls in seconds of their own *)

\* The name of a call's file.
Of(c) == <<calls[c].time, 0>>

\* d was sent before c, and had returned then; or it is c.
Before(d, c) == d = c \/ (d < c /\ d \notin calls[c].open)

\* Time goes on, and who was in a call is known to the next one.
Sent ==
    /\ \A c \in DOMAIN calls : calls[c].time <= clock /\ calls[c].open \subseteq DOMAIN calls
    /\ \A d, c \in DOMAIN calls : d < c => calls[d].time <= calls[c].time
    /\ \A c \in DOMAIN calls, d \in Open : d < c => d \in calls[c].open

\* A name is used by its call only: the file is there from its writing on, and
\* the link and all that Cmdd knows of it not before the call has returned.
Owned ==
    /\ \A w \in Writers : wtag[w] = 0
    /\ \A n \in Names : dir[n] # 0 => n = Of(dir[n])
    /\ \A w \in Writers :
          /\ wpc[w] \in {"look", "write"} => dir[Of(wcall[w])] = 0
          /\ wpc[w] = "link" => dir[Of(wcall[w])] = wcall[w]
    /\ \A n \in link \cup Range(list) : \E c \in Returned : n = Of(c)
    /\ \A c \in Returned : dir[Of(c)] # 0 => Of(c) \in link
    /\ phase = "up" => link \subseteq Range(list)
    /\ pc = "rmLink" => dir[Head(list)] = 0

\* The slots of the batch that have been filled and are still to be executed.
Live ==
    CASE pc = "fill" -> 1 .. upto - 1
      [] pc \in {"rmFile", "rmLink"} -> 1 .. upto
      [] pc = "execute" -> upto .. batch
      [] OTHER -> {}

\* The name at i is in the list once, and its file is there.
Fresh(i) ==
    /\ dir[list[i]] # 0
    /\ \A j \in DOMAIN list : list[j] = list[i] => j = i

Zeroed == \A k \in DOMAIN slots : slots[k] = 0

\* What is read from a missing file is nothing: either the slot is empty, as
\* all are in the first batch, or the file is there.
Emptied(i) ==
    \/ pc = "idle" /\ Zeroed
    \/ pc \in Taking /\ i <= batch - upto + 1 /\ slots[upto + i - 1] = 0
    \/ pc \in {"rmFile", "rmLink"} /\ i = 1

Unstale ==
    /\ phase # "up" => Zeroed
    /\ \A i \in DOMAIN list : Emptied(i) \/ Fresh(i)

\* The file that Cmdd has just read is still there.
JustRead(k) == pc = "rmFile" /\ k = upto

\* Whoever was sent before c and had returned will not come behind it: its
\* name is before c's in the list, ...
InList ==
    \A c, d \in DOMAIN calls : (Before(d, c) /\ d # c) =>
        \A i \in DOMAIN list : list[i] = Of(c) =>
            \/ dir[Of(d)] = 0
            \/ phase = "watching" /\ Of(d) \in link
            \/ \E j \in DOMAIN list : j < i /\ list[j] = Of(d)

\* ... its slot is before c's in the batch and its file is gone, ...
InSlots ==
    \A c \in DOMAIN calls, k \in Live : slots[k] = c =>
        /\ c \in Returned
        /\ pc = "rmFile" /\ k = upto => Head(list) = Of(c)
        /\ \A d \in DOMAIN calls : Before(d, c) =>
              /\ dir[Of(d)] = 0 \/ (d = c /\ JustRead(k))
              /\ \A m \in Live : slots[m] = d => m <= k

\* ... or both its file and its slot are gone.
InDone ==
    \A c \in DOMAIN calls, i \in DOMAIN done : done[i] = c =>
        /\ c \in Returned
        /\ \A d \in DOMAIN calls : Before(d, c) =>
              dir[Of(d)] = 0 /\ \A m \in Live : slots[m] # d

ApartInv ==
    Apart => Owned /\ Unstale /\ InList /\ InSlots /\ InDone /\ ObeyedOnce /\ ObeyedInOrder

CommandInv == QueueType /\ Sent /\ ApartInv

-----------------------------------------------------------------------------
(* Sequences *)

\* scandir returns every link there is, once, by second and tag.
LEMMA ListingHolds ==
    ASSUME NEW d \in SUBSET Names, IsFiniteSet(d), NEW s \in Listings(d)
    PROVE  s \in Seq(Names) /\ Range(s) = d /\ Len(s) = Cardinality(d)
<1> DEFINE n == Cardinality(d)
<1>1. n \in Nat
  BY FS_CardinalityType
<1>2. IsFiniteSet(1 .. n) /\ Cardinality(1 .. n) = n
  BY <1>1, FS_Interval
<1>3. s \in [1 .. n -> d] /\ \A i, j \in 1 .. n : i < j => Earlier(s[i], s[j])
  BY DEF Listings
<1>4. \A m \in Names : ~Earlier(m, m)
  BY DEF Earlier, Names, Times, Start
<1>5. ASSUME NEW i \in 1 .. n, NEW j \in 1 .. n, s[i] = s[j] PROVE i = j
  <2>1. s[i] \in Names
    BY <1>3
  <2>2. ~(i < j) /\ ~(j < i)
    BY <1>3, <1>4, <1>5, <2>1
  <2> QED
    BY <1>1, <2>2
<1>6. s \in Injection(1 .. n, d)
  BY <1>3, <1>5 DEF Injection, IsInjective
<1>7. s \in Surjection(1 .. n, d)
  BY <1>1, <1>2, <1>6, FS_Injection
<1>8. Range(s) = d
  BY <1>3, <1>7 DEF Surjection, Range
<1>9. s \in Seq(Names) /\ Len(s) = n
  BY <1>1, <1>3
<1> QED
  BY <1>8, <1>9

\* One more at the end.
LEMMA Appended ==
    ASSUME NEW S, NEW s \in Seq(S), NEW e \in S, NEW t, t = Append(s, e)
    PROVE  /\ t \in Seq(S) /\ Len(s) \in Nat /\ Len(t) = Len(s) + 1
           /\ DOMAIN s = 1 .. Len(s) /\ DOMAIN t = 1 .. Len(s) + 1
           /\ \A i \in DOMAIN s : t[i] = s[i]
           /\ t[Len(s) + 1] = e
<1>1. /\ t \in Seq(S) /\ Len(t) = Len(s) + 1
      /\ \A i \in 1 .. Len(s) : t[i] = s[i]
      /\ t[Len(s) + 1] = e
  BY AppendProperties
<1>2. Len(s) \in Nat /\ DOMAIN s = 1 .. Len(s) /\ DOMAIN t = 1 .. Len(s) + 1
  BY <1>1, LenProperties
<1> QED
  BY <1>1, <1>2

LEMMA RangeAppended ==
    ASSUME NEW S, NEW s \in Seq(S), NEW e \in S PROVE Range(Append(s, e)) = Range(s) \cup {e}
<1> DEFINE t == Append(s, e)
<1>1. /\ t \in Seq(S) /\ Len(t) = Len(s) + 1
      /\ \A i \in 1 .. Len(s) : t[i] = s[i]
      /\ t[Len(s) + 1] = e
  BY AppendProperties
<1> HIDE DEF t
<1>2. Len(s) \in Nat /\ DOMAIN s = 1 .. Len(s) /\ DOMAIN t = 1 .. Len(s) + 1
  BY <1>1, LenProperties
<1>3. \A i \in DOMAIN t : i \in DOMAIN s \/ i = Len(s) + 1
  BY <1>2
<1>4. Range(t) \subseteq Range(s) \cup {e}
  BY <1>1, <1>2, <1>3 DEF Range
<1>5. Range(s) \subseteq Range(t)
  <2>1. \A i \in DOMAIN s : i \in DOMAIN t /\ t[i] = s[i]
    BY <1>1, <1>2
  <2> QED
    BY <2>1 DEF Range
<1>6. e \in Range(t)
  <2>1. Len(s) + 1 \in DOMAIN t
    BY <1>2
  <2> QED
    BY <1>1, <2>1 DEF Range
<1> QED
  BY <1>4, <1>5, <1>6 DEF t

LEMMA RangeIn == ASSUME NEW S, NEW s \in Seq(S) PROVE Range(s) \subseteq S
<1>1. \A i \in DOMAIN s : s[i] \in S
  BY LenProperties, ElementOfSeq
<1> QED
  BY <1>1 DEF Range

\* The first is taken.
LEMMA Taken ==
    ASSUME NEW S, NEW s \in Seq(S), s # <<>>, NEW t, t = Tail(s)
    PROVE  /\ t \in Seq(S) /\ Len(s) \in Nat \ {0} /\ Len(t) = Len(s) - 1
           /\ DOMAIN s = 1 .. Len(s) /\ DOMAIN t = 1 .. Len(s) - 1
           /\ Head(s) = s[1] /\ s[1] \in S /\ s[1] \in Range(s)
           /\ \A i \in DOMAIN t : t[i] = s[i + 1] /\ i + 1 \in DOMAIN s
           /\ Range(s) = Range(t) \cup {s[1]}
<1>1. /\ t \in Seq(S) /\ Len(t) = Len(s) - 1 /\ Head(s) \in S
      /\ \A i \in 1 .. Len(t) : t[i] = s[i + 1]
  BY HeadTailProperties
<1>2. Len(s) \in Nat \ {0} /\ DOMAIN s = 1 .. Len(s) /\ DOMAIN t = 1 .. Len(t) /\ Head(s) = s[1]
  BY <1>1, LenProperties, EmptySeq
<1>3. \A i \in DOMAIN t : t[i] = s[i + 1] /\ i + 1 \in DOMAIN s
  BY <1>1, <1>2
<1>4. \A i \in DOMAIN s : i = 1 \/ (i - 1 \in DOMAIN t /\ t[i - 1] = s[i])
  BY <1>1, <1>2
<1>5. Range(s) \subseteq Range(t) \cup {s[1]}
  BY <1>4 DEF Range
<1>6. Range(t) \subseteq Range(s)
  BY <1>3 DEF Range
<1>7. s[1] \in Range(s)
  BY <1>2 DEF Range
<1> QED
  BY <1>1, <1>2, <1>3, <1>5, <1>6, <1>7

\* One sequence before the other.
LEMMA Joined ==
    ASSUME NEW S, NEW s \in Seq(S), NEW t \in Seq(S), NEW u, u = s \o t
    PROVE  /\ u \in Seq(S) /\ Len(s) \in Nat /\ Len(t) \in Nat /\ Len(u) = Len(s) + Len(t)
           /\ DOMAIN s = 1 .. Len(s) /\ DOMAIN t = 1 .. Len(t) /\ DOMAIN u = 1 .. Len(s) + Len(t)
           /\ \A i \in DOMAIN s : i \in DOMAIN u /\ u[i] = s[i]
           /\ \A i \in DOMAIN u : i \notin DOMAIN s => i - Len(s) \in DOMAIN t /\ u[i] = t[i - Len(s)]
<1>1. /\ u \in Seq(S) /\ Len(u) = Len(s) + Len(t)
      /\ \A i \in 1 .. Len(s) + Len(t) : u[i] = IF i <= Len(s) THEN s[i] ELSE t[i - Len(s)]
  BY ConcatProperties
<1>2. /\ Len(s) \in Nat /\ Len(t) \in Nat /\ DOMAIN s = 1 .. Len(s) /\ DOMAIN t = 1 .. Len(t)
      /\ DOMAIN u = 1 .. Len(s) + Len(t)
  BY <1>1, LenProperties
<1>3. \A i \in DOMAIN s : i \in DOMAIN u /\ u[i] = s[i]
  BY <1>1, <1>2
<1>4. \A i \in DOMAIN u : i \notin DOMAIN s => i - Len(s) \in DOMAIN t /\ u[i] = t[i - Len(s)]
  BY <1>1, <1>2
<1> QED
  BY <1>1, <1>2, <1>3, <1>4

LEMMA RangeJoined ==
    ASSUME NEW S, NEW s \in Seq(S), NEW t \in Seq(S) PROVE Range(s \o t) = Range(s) \cup Range(t)
<1> DEFINE u == s \o t
<1>1. /\ u \in Seq(S) /\ Len(s) \in Nat /\ Len(t) \in Nat /\ Len(u) = Len(s) + Len(t)
      /\ DOMAIN s = 1 .. Len(s) /\ DOMAIN t = 1 .. Len(t) /\ DOMAIN u = 1 .. Len(s) + Len(t)
      /\ \A i \in DOMAIN s : i \in DOMAIN u /\ u[i] = s[i]
      /\ \A i \in DOMAIN u : i \notin DOMAIN s => i - Len(s) \in DOMAIN t /\ u[i] = t[i - Len(s)]
  BY Joined
<1> HIDE DEF u
<1>4. \A i \in DOMAIN t : i + Len(s) \in DOMAIN u /\ u[i + Len(s)] = t[i]
  BY <1>1
<1>5. Range(u) \subseteq Range(s) \cup Range(t)
  BY <1>1 DEF Range
<1>6. Range(s) \subseteq Range(u)
  BY <1>1 DEF Range
<1>7. Range(t) \subseteq Range(u)
  BY <1>4 DEF Range
<1> QED
  BY <1>5, <1>6, <1>7 DEF u

-----------------------------------------------------------------------------
(* The writers *)

\* Who is in a call, and how calls are numbered.
LEMMA Numbered ==
    WriterType => /\ Len(calls) \in Nat /\ DOMAIN calls = 1 .. Len(calls)
                  /\ DOMAIN calls \subseteq Calls /\ MaxWrites \in Nat
                  /\ Open \subseteq DOMAIN calls /\ 0 \notin DOMAIN calls
                  /\ \A c \in DOMAIN calls : calls[c] \in Call
<1> SUFFICES ASSUME WriterType
             PROVE  /\ Len(calls) \in Nat /\ DOMAIN calls = 1 .. Len(calls)
                    /\ DOMAIN calls \subseteq Calls /\ MaxWrites \in Nat
                    /\ Open \subseteq DOMAIN calls /\ 0 \notin DOMAIN calls
                    /\ \A c \in DOMAIN calls : calls[c] \in Call
  OBVIOUS
<1>1. calls \in Seq(Call) /\ Len(calls) <= MaxWrites /\ MaxWrites \in Nat
  BY CommandAssumption DEF WriterType
<1>2. /\ Len(calls) \in Nat /\ DOMAIN calls = 1 .. Len(calls)
      /\ \A c \in DOMAIN calls : calls[c] \in Call
  BY <1>1, LenProperties
<1>3. Open \subseteq DOMAIN calls
  BY DEF WriterType, Open
<1> QED
  BY <1>1, <1>2, <1>3 DEF Calls

\* A call begins.
LEMMA SendOpens ==
    ASSUME WriterType, NEW w \in Writers, NEW c \in Commands, Send(w, c)
    PROVE  LET e == Len(calls) + 1 IN
           /\ calls' \in Seq(Call) /\ Len(calls') = e
           /\ DOMAIN calls' = DOMAIN calls \cup {e} /\ e \notin DOMAIN calls /\ e \in Calls
           /\ \A d \in DOMAIN calls : calls'[d] = calls[d]
           /\ calls'[e].time = clock /\ calls'[e].open = Open
           /\ Open' = Open \cup {e} /\ Returned' = Returned
<1> DEFINE e == Len(calls) + 1
           r == [cmd |-> c, time |-> clock, open |-> Open]
<1>1. /\ Len(calls) \in Nat /\ DOMAIN calls = 1 .. Len(calls) /\ Open \subseteq DOMAIN calls
      /\ Open \subseteq Calls /\ 0 \notin DOMAIN calls /\ MaxWrites \in Nat
  BY Numbered
<1>2. r \in Call
  BY <1>1 DEF Call, WriterType
<1>3. /\ wpc[w] = "idle" /\ Len(calls) < MaxWrites /\ calls' = Append(calls, r)
      /\ wcall' = [wcall EXCEPT ![w] = e]
  BY DEF Send
<1> HIDE DEF r
<1>4. /\ calls' \in Seq(Call) /\ Len(calls') = e /\ DOMAIN calls' = 1 .. e /\ calls'[e] = r
      /\ \A d \in DOMAIN calls : calls'[d] = calls[d]
  BY <1>1, <1>2, <1>3, Appended DEF WriterType
<1>5. wcall[w] = 0 /\ wcall \in [Writers -> {0} \cup DOMAIN calls]
  BY <1>3 DEF WriterType
<1>6. /\ DOMAIN calls' = DOMAIN calls \cup {e} /\ e \notin DOMAIN calls /\ e \in Calls /\ e # 0
  BY <1>1, <1>3, <1>4 DEF Calls
<1>7. Open' = Open \cup {e}
  <2>1. \A v \in Writers : wcall'[v] = IF v = w THEN e ELSE wcall[v]
    BY <1>3, <1>5
  <2>2. Open' = { wcall'[v] : v \in Writers } \ {0}
    BY DEF Open
  <2>3. Open = { wcall[v] : v \in Writers } \ {0}
    BY DEF Open
  <2>4. Open' \subseteq Open \cup {e}
    BY <2>1, <2>2, <2>3
  <2>5. Open \cup {e} \subseteq Open'
    <3>1. \A v \in Writers : wcall[v] # 0 => wcall'[v] = wcall[v]
      BY <1>5, <2>1
    <3> QED
      BY <1>6, <2>1, <2>2, <2>3, <3>1
  <2> QED
    BY <2>4, <2>5
<1>8. Returned' = Returned
  BY <1>1, <1>6, <1>7 DEF Returned
<1>9. calls'[e].time = clock /\ calls'[e].open = Open
  BY <1>4 DEF r
<1> QED
  BY <1>4, <1>6, <1>7, <1>8, <1>9

\* A call returns.
LEMMA LinkCloses ==
    ASSUME WriterType, NEW w \in Writers, MakeLink(w)
    PROVE  /\ Open' = Open \ {wcall[w]} /\ wcall[w] \in Open
           /\ Returned' = Returned \cup {wcall[w]} /\ wcall[w] \in DOMAIN calls
<1>1. wpc[w] = "link" /\ wcall' = [wcall EXCEPT ![w] = 0] /\ calls' = calls
  BY DEF MakeLink
<1>2. /\ wcall[w] # 0 /\ wcall \in [Writers -> {0} \cup DOMAIN calls]
      /\ \A v \in Writers : wcall[v] = wcall[w] => v = w
  BY <1>1 DEF WriterType
<1>3. \A v \in Writers : wcall'[v] = IF v = w THEN 0 ELSE wcall[v]
  BY <1>1, <1>2
<1>4. Open' = { wcall'[v] : v \in Writers } \ {0} /\ Open = { wcall[v] : v \in Writers } \ {0}
  BY DEF Open
<1>5. wcall[w] \in Open
  BY <1>2, <1>4
<1>6. Open' \subseteq Open \ {wcall[w]}
  BY <1>2, <1>3, <1>4
<1>7. Open \ {wcall[w]} \subseteq Open'
  BY <1>3, <1>4
<1> QED
  BY <1>1, <1>2, <1>5, <1>6, <1>7 DEF Returned

\* What other steps leave alone.
LEMMA SameCalls ==
    ASSUME UNCHANGED <<calls, wcall>> PROVE UNCHANGED <<Open, Returned>>
  BY DEF Open, Returned

\* Every step keeps each writer in a call of its own.
LEMMA WriterStep == WriterType /\ [Next]_vars => WriterType'
<1> SUFFICES ASSUME WriterType, [Next]_vars PROVE WriterType'
  OBVIOUS
<1>1. CASE Tick
  <2>1. clock' \in Times
    BY <1>1, CommandAssumption DEF Tick, WriterType, Times, Start
  <2>2. UNCHANGED writers
    BY <1>1 DEF Tick
  <2> QED
    BY <2>1, <2>2 DEF WriterType, writers
<1>2. ASSUME NEW w \in Writers, NEW c \in Commands, Send(w, c) PROVE WriterType'
  <2> DEFINE e == Len(calls) + 1
  <2>1. /\ calls' \in Seq(Call) /\ Len(calls') = e
        /\ DOMAIN calls' = DOMAIN calls \cup {e} /\ e \notin DOMAIN calls
    BY <1>2, SendOpens
  <2>2. /\ clock' = clock /\ Len(calls) < MaxWrites /\ wpc[w] = "idle"
        /\ wpc' = [wpc EXCEPT ![w] = "look"] /\ wcall' = [wcall EXCEPT ![w] = e]
        /\ wtag' = [wtag EXCEPT ![w] = 0]
    BY <1>2 DEF Send, writersKeep
  <2>3. Len(calls') <= MaxWrites /\ e # 0
    BY <2>1, <2>2, Numbered
  <2> HIDE DEF e
  <2> QED
    BY <2>1, <2>2, <2>3 DEF WriterType
<1>3. ASSUME NEW w \in Writers, Look(w) PROVE WriterType'
  BY <1>3 DEF Look, WriterType, writersKeep
<1>4. ASSUME NEW w \in Writers, WriteStruct(w) PROVE WriterType'
  BY <1>4 DEF WriteStruct, WriterType, writersKeep
<1>5. ASSUME NEW w \in Writers, MakeLink(w) PROVE WriterType'
  BY <1>5 DEF MakeLink, WriterType, writersKeep
<1>6. CASE UNCHANGED <<clock, writers>>
  BY <1>6 DEF WriterType, writers
<1> QED
  BY <1>1, <1>2, <1>3, <1>4, <1>5, <1>6
  DEF Next, WriteCommandAndLink, AddWatch, Scan, Die, Cmdd, CheckForNewCommand, FillCommand,
      RemoveFile, RemoveLink, Skip, Execute, cmddKeeps, vars

-----------------------------------------------------------------------------
(* Files, links and the list *)

LEMMA NameType ==
    ASSUME WriterType, NEW w \in Writers, wpc[w] # "idle"
    PROVE  Name(w) \in Names /\ wcall[w] \in DOMAIN calls /\ wcall[w] \in Open
<1>1. wcall[w] \in DOMAIN calls /\ wcall[w] # 0
  BY DEF WriterType
<1>2. calls[wcall[w]].time \in Times /\ wtag[w] \in {0, 1}
  BY <1>1, Numbered DEF WriterType, Call
<1> QED
  BY <1>1, <1>2 DEF Name, Names, Open

\* Every step keeps the files, the links and the list in their types.
LEMMA FileStep == QueueType /\ [Next]_vars => FileType'
<1> SUFFICES ASSUME WriterType, FileType, Sizes, CmddType, [Next]_vars PROVE FileType'
  BY DEF QueueType
<1>1. ASSUME NEW w \in Writers, NEW c \in Commands, Send(w, c) PROVE FileType'
  <2>1. DOMAIN calls \subseteq DOMAIN calls'
    BY <1>1, SendOpens
  <2>2. UNCHANGED <<dir, link, list>>
    BY <1>1 DEF Send, files
  <2> QED
    BY <2>1, <2>2 DEF FileType
<1>2. ASSUME NEW w \in Writers, WriteStruct(w) PROVE FileType'
  <2>1. /\ dir' = [dir EXCEPT ![Name(w)] = wcall[w]] /\ wpc[w] # "idle"
        /\ UNCHANGED <<calls, link, list>>
    BY <1>2 DEF WriteStruct
  <2>2. wcall[w] \in DOMAIN calls
    BY <2>1, NameType
  <2> QED
    BY <2>1, <2>2 DEF FileType
<1>3. ASSUME NEW w \in Writers, MakeLink(w) PROVE FileType'
  <2>1. /\ link' = link \cup {Name(w)} /\ list' \in {list, Append(list, Name(w))}
        /\ wpc[w] # "idle" /\ UNCHANGED <<calls, dir>>
    BY <1>3 DEF MakeLink
  <2>2. Name(w) \in Names
    BY <2>1, NameType
  <2>3. list' \in Seq(Names)
    BY <2>1, <2>2, Appended DEF FileType
  <2> QED
    BY <2>1, <2>2, <2>3 DEF FileType
<1>4. CASE RemoveFile
  BY <1>4 DEF RemoveFile, FileType, cmddKeeps, writers
<1>5. CASE RemoveLink
  <2>1. list # <<>>
    BY <1>5 DEF RemoveLink, CmddType, Taking
  <2>2. list' \in Seq(Names)
    BY <1>5, <2>1, Taken DEF RemoveLink, FileType
  <2> QED
    BY <1>5, <2>2 DEF RemoveLink, FileType, cmddKeeps, writers
<1>6. CASE Die
  BY <1>6 DEF Die, FileType, writers, files
<1>7. CASE Scan
  <2>1. PICK s \in Listings(link) : list' = s \o list
    BY <1>7 DEF Scan
  <2>2. s \in Seq(Names)
    BY ListingHolds DEF FileType, Sizes
  <2>3. list' \in Seq(Names)
    BY <2>1, <2>2, Joined DEF FileType
  <2> QED
    BY <1>7, <2>3 DEF Scan, FileType, writers, files
<1>8. CASE UNCHANGED <<calls, dir, link, list>>
  BY <1>8 DEF FileType
<1> QED
  BY <1>1, <1>2, <1>3, <1>4, <1>5, <1>6, <1>7, <1>8
  DEF Next, WriteCommandAndLink, Cmdd, Tick, Look, AddWatch, CheckForNewCommand, FillCommand,
      Skip, Execute, cmddKeeps, writersKeep, writers, files, vars

\* A link is made by a call that returns, and found again when Cmdd starts.
LEMMA SizesStep == QueueType /\ [Next]_vars => Sizes'
<1> SUFFICES ASSUME WriterType, FileType, Sizes, CmddType, [Next]_vars PROVE Sizes'
  BY DEF QueueType
<1>1. /\ IsFiniteSet(Returned) /\ IsFiniteSet(link) /\ Len(list) \in Nat
      /\ Cardinality(Returned) \in Nat /\ Cardinality(link) \in Nat
  BY FS_CardinalityType, LenProperties DEF Sizes, FileType
<1>2. ASSUME NEW w \in Writers, NEW c \in Commands, Send(w, c) PROVE Sizes'
  <2>1. Returned' = Returned
    BY <1>2, SendOpens
  <2> QED
    BY <1>2, <2>1 DEF Send, Sizes, files, writersKeep
<1>3. ASSUME NEW w \in Writers, MakeLink(w) PROVE Sizes'
  <2>1. /\ link' = link \cup {Name(w)} /\ phase' = phase /\ wpc[w] # "idle"
        /\ list' = list \/ (phase # "down" /\ list' = Append(list, Name(w)))
    BY <1>3 DEF MakeLink, writersKeep
  <2>2. Returned' = Returned \cup {wcall[w]} /\ wcall[w] \in Open
    BY <1>3, LinkCloses
  <2>3. /\ IsFiniteSet(Returned') /\ Cardinality(Returned') = Cardinality(Returned) + 1
    <3>1. wcall[w] \notin Returned
      BY <2>2 DEF Returned
    <3>2. /\ IsFiniteSet(Returned \cup {wcall[w]})
          /\ Cardinality(Returned \cup {wcall[w]}) =
               IF wcall[w] \in Returned THEN Cardinality(Returned) ELSE Cardinality(Returned) + 1
      BY <1>1, FS_AddElement
    <3> QED
      BY <2>2, <3>1, <3>2
  <2>4. IsFiniteSet(link') /\ Cardinality(link') <= Cardinality(link) + 1
    <3> DEFINE n == Name(w)
    <3>1. /\ IsFiniteSet(link \cup {n})
          /\ Cardinality(link \cup {n}) =
               IF n \in link THEN Cardinality(link) ELSE Cardinality(link) + 1
      BY <1>1, FS_AddElement
    <3>2. link' = link \cup {n}
      BY <2>1
    <3> HIDE DEF n
    <3> QED
      BY <1>1, <3>1, <3>2
  <2>5. Len(list') \in Nat /\ Len(list') <= Len(list) + 1
    BY <1>1, <2>1, Appended, NameType DEF FileType
  <2> QED
    BY <1>1, <2>1, <2>3, <2>4, <2>5, FS_CardinalityType DEF Sizes
<1>4. CASE Scan
  <2>1. PICK s \in Listings(link) : list' = s \o list
    BY <1>4 DEF Scan
  <2>2. s \in Seq(Names) /\ Len(s) = Cardinality(link)
    BY ListingHolds DEF FileType, Sizes
  <2>3. Len(list') = Cardinality(link) + Len(list)
    <3>1. list \in Seq(Names)
      BY DEF FileType
    <3>2. Len(s \o list) = Len(s) + Len(list)
      BY <2>2, <3>1, ConcatProperties
    <3> QED
      BY <2>1, <2>2, <3>2
  <2>4. phase = "watching" /\ phase' = "up" /\ UNCHANGED <<calls, wcall, link>>
    BY <1>4 DEF Scan, writers, files
  <2> QED
    BY <1>1, <2>3, <2>4, SameCalls DEF Sizes
<1>5. CASE RemoveLink
  <2>1. list # <<>> /\ phase = "up"
    BY <1>5 DEF RemoveLink, CmddType, Taking
  <2>2. Len(list') \in Nat /\ Len(list') < Len(list)
    BY <1>1, <1>5, <2>1, Taken DEF RemoveLink, FileType
  <2>3. IsFiniteSet(link') /\ Cardinality(link') <= Cardinality(link)
    BY <1>1, <1>5, FS_Subset DEF RemoveLink
  <2>4. phase' = phase /\ UNCHANGED <<calls, wcall>>
    BY <1>5 DEF RemoveLink, cmddKeeps, writers
  <2> QED
    BY <1>1, <2>1, <2>2, <2>3, <2>4, SameCalls, FS_CardinalityType DEF Sizes
<1>6. CASE Die
  <2>1. list' = <<>> /\ phase' = "down" /\ UNCHANGED <<calls, wcall, link>>
    BY <1>6 DEF Die, writers, files
  <2>2. Len(list') = 0
    BY <2>1
  <2> QED
    BY <1>1, <2>1, <2>2, SameCalls DEF Sizes
<1>7. CASE AddWatch
  <2>1. Len(list) = 0 /\ UNCHANGED <<calls, wcall, link, list>>
    BY <1>7 DEF AddWatch, CmddType, writers, files
  <2> QED
    BY <1>1, <2>1, SameCalls DEF Sizes
<1>8. CASE UNCHANGED <<calls, wcall, link, list, phase>>
  BY <1>8, SameCalls DEF Sizes
<1> QED
  BY <1>2, <1>3, <1>4, <1>5, <1>6, <1>7, <1>8
  DEF Next, WriteCommandAndLink, Cmdd, Tick, Look, WriteStruct, CheckForNewCommand, FillCommand,
      RemoveFile, Skip, Execute, cmddKeeps, writersKeep, writers, files, vars

\* All that Cmdd counts fits.
LEMMA BatchFits == QueueType => Len(list) \in 0 .. 2 * MaxWrites
<1> SUFFICES ASSUME WriterType, FileType, Sizes PROVE Len(list) \in 0 .. 2 * MaxWrites
  BY DEF QueueType
<1>1. Returned \subseteq 1 .. MaxWrites /\ MaxWrites \in Nat
  BY Numbered DEF Returned, Calls
<1>2. IsFiniteSet(1 .. MaxWrites) /\ Cardinality(1 .. MaxWrites) = MaxWrites
  BY <1>1, FS_Interval
<1>3. Cardinality(Returned) \in Nat /\ Cardinality(Returned) <= MaxWrites
  BY <1>1, <1>2, FS_Subset, FS_CardinalityType DEF Sizes
<1> QED
  BY <1>1, <1>3, LenProperties DEF Sizes, FileType

\* Every step keeps Cmdd in its places and its slots.
LEMMA CmddStep == QueueType /\ [Next]_vars => CmddType'
<1> SUFFICES ASSUME QueueType, WriterType, FileType, CmddType, [Next]_vars PROVE CmddType'
  BY DEF QueueType
<1>1. /\ MaxWrites \in Nat /\ DOMAIN calls \subseteq Calls /\ 0 \notin DOMAIN calls
      /\ Len(list) \in Nat /\ Len(list) <= 2 * MaxWrites
  BY Numbered, BatchFits
<1>2. ASSUME NEW w \in Writers, NEW c \in Commands, Send(w, c) PROVE CmddType'
  <2>1. DOMAIN calls \subseteq DOMAIN calls'
    BY <1>2, SendOpens
  <2>2. UNCHANGED <<phase, pc, batch, upto, slots, list, done, skipped>>
    BY <1>2 DEF Send, writersKeep, reading, history
  <2>3. done' \in Seq(DOMAIN calls')
    BY <2>1, <2>2, SeqDef DEF CmddType
  <2> QED
    BY <2>1, <2>2, <2>3 DEF CmddType
<1>3. ASSUME NEW w \in Writers, MakeLink(w) PROVE CmddType'
  <2>1. UNCHANGED <<calls, phase, pc, batch, upto, slots, done, skipped>>
    BY <1>3 DEF MakeLink, writersKeep, reading, history
  <2>2. list' = list \/ (phase # "down" /\ list' = Append(list, Name(w)))
    BY <1>3 DEF MakeLink
  <2>3. Len(list') \in Nat /\ Len(list') >= Len(list)
    <3>1. wpc[w] # "idle"
      BY <1>3 DEF MakeLink
    <3> QED
      BY <1>1, <2>2, <3>1, Appended, NameType DEF FileType
  <2> QED
    BY <1>1, <2>1, <2>2, <2>3 DEF CmddType
<1>4. CASE AddWatch
  BY <1>4 DEF AddWatch, CmddType, writers, reading, history
<1>5. CASE Scan
  BY <1>5 DEF Scan, CmddType, Taking, writers, reading, history
<1>6. CASE Die
  <2>1. DOMAIN slots = 1 .. 2 * MaxWrites
    BY DEF CmddType
  <2> QED
    BY <1>1, <1>6, <2>1 DEF Die, CmddType, Taking, writers, history
<1>7. CASE CheckForNewCommand
  <2>1. Len(list) > 0
    BY <1>1, <1>7, EmptySeq DEF CheckForNewCommand, FileType
  <2> QED
    BY <1>1, <1>7, <2>1 DEF CheckForNewCommand, CmddType, Taking, cmddKeeps, writers, history
<1>8. CASE FillCommand
  <2>1. /\ pc = "fill" /\ pc' = "rmFile"
        /\ slots' \in {slots, [slots EXCEPT ![upto] = dir[Head(list)]]}
        /\ UNCHANGED <<calls, phase, batch, upto, list, done, skipped>>
    BY <1>8 DEF FillCommand, cmddKeeps, writers, history
  <2>2. list # <<>>
    BY <1>1, <2>1 DEF CmddType, Taking
  <2>3. dir[Head(list)] \in {0} \cup DOMAIN calls
    BY <2>2, Taken DEF FileType
  <2>4. slots' \in [1 .. 2 * MaxWrites -> {0} \cup DOMAIN calls]
    BY <2>1, <2>3 DEF CmddType
  <2> QED
    BY <2>1, <2>4 DEF CmddType, Taking
<1>9. CASE RemoveFile
  BY <1>9 DEF RemoveFile, CmddType, Taking, cmddKeeps, writers, history
<1>10. CASE RemoveLink
  <2>1. list # <<>>
    BY <1>1, <1>10 DEF RemoveLink, CmddType, Taking
  <2>2. Len(list') = Len(list) - 1
    BY <1>10, <2>1, Taken DEF RemoveLink, FileType
  <2>3. /\ pc = "rmLink"
        /\ \/ upto < batch /\ pc' = "fill" /\ upto' = upto + 1
           \/ ~(upto < batch) /\ pc' = "execute" /\ upto' = 1
        /\ UNCHANGED <<calls, phase, batch, slots, done, skipped>>
    BY <1>10 DEF RemoveLink, cmddKeeps, writers, history
  <2> QED
    BY <1>1, <2>2, <2>3 DEF CmddType, Taking
<1>11. CASE Skip
  <2>1. upto \in 1 .. 2 * MaxWrites
    BY <1>1, <1>11 DEF Skip, CmddType
  <2>2. slots[upto] \in {0} \cup DOMAIN calls
    BY <2>1 DEF CmddType
  <2>3. skipped' \subseteq DOMAIN calls
    BY <1>11, <2>2 DEF Skip, CmddType
  <2> QED
    BY <1>1, <1>11, <2>3 DEF Skip, CmddType, Taking, NextOfBatch, cmddKeeps, writers
<1>12. CASE Execute
  <2>1. upto \in 1 .. 2 * MaxWrites
    BY <1>1, <1>12 DEF Execute, CmddType
  <2>2. slots[upto] \in DOMAIN calls
    <3>1. slots[upto] # 0
      BY <1>12 DEF Execute, CheckCommand, Content
    <3> QED
      BY <2>1, <3>1 DEF CmddType
  <2>3. done' \in Seq(DOMAIN calls)
    BY <1>12, <2>2, Appended DEF Execute, CmddType
  <2> QED
    BY <1>1, <1>12, <2>3 DEF Execute, CmddType, Taking, NextOfBatch, cmddKeeps, writers
<1>13. CASE UNCHANGED <<calls, phase, pc, batch, upto, slots, list, done, skipped>>
  BY <1>13 DEF CmddType
<1> QED
  BY <1>2, <1>3, <1>4, <1>5, <1>6, <1>7, <1>8, <1>9, <1>10, <1>11, <1>12, <1>13
  DEF Next, WriteCommandAndLink, Cmdd, Tick, Look, WriteStruct, writersKeep, writers, reading,
      history, vars

LEMMA QueueStep == QueueType /\ [Next]_vars => QueueType'
  BY WriterStep, FileStep, SizesStep, CmddStep DEF QueueType

LEMMA QueueStart == Init => QueueType
<1> SUFFICES ASSUME Init PROVE QueueType
  OBVIOUS
<1>1. calls = <<>> /\ DOMAIN calls = {} /\ Len(calls) = 0 /\ calls \in Seq(Call)
  BY DEF Init
<1>2. WriterType
  BY <1>1, CommandAssumption DEF Init, WriterType, Times, Start
<1>3. list = <<>> /\ link = {} /\ Len(list) = 0 /\ list \in Seq(Names)
  BY DEF Init
<1>4. FileType
  BY <1>3 DEF Init, FileType
<1>5. Returned = {}
  BY <1>1 DEF Returned
<1>6. Sizes
  BY <1>3, <1>5, FS_EmptySet DEF Sizes
<1>7. CmddType
  BY <1>1, CommandAssumption DEF Init, CmddType, Taking
<1> QED
  BY <1>2, <1>4, <1>6, <1>7 DEF QueueType

LEMMA QueueTypeOK == QueueType => TypeOK
<1> SUFFICES ASSUME WriterType, FileType, CmddType PROVE TypeOK
  BY DEF QueueType
<1>1. DOMAIN calls \subseteq Calls
  BY Numbered
<1>2. done \in Seq({0} \cup Calls)
  BY <1>1, SeqDef DEF CmddType
<1> QED
  BY <1>1, <1>2 DEF TypeOK, WriterType, FileType, CmddType, Taking

-----------------------------------------------------------------------------
(* Calls in seconds of their own *)

\* A call is what it was, and who has returned stays so.
Grown ==
    /\ DOMAIN calls \subseteq DOMAIN calls' /\ Returned \subseteq Returned'
    /\ \A c \in DOMAIN calls : calls'[c] = calls[c]

LEMMA Grows == QueueType /\ [Next]_vars => Grown
<1> SUFFICES ASSUME WriterType, [Next]_vars PROVE Grown
  BY DEF QueueType
<1>1. ASSUME NEW w \in Writers, NEW c \in Commands, Send(w, c) PROVE Grown
  BY <1>1, SendOpens DEF Grown
<1>2. ASSUME NEW w \in Writers, MakeLink(w) PROVE Grown
  <2>1. Returned' = Returned \cup {wcall[w]}
    BY <1>2, LinkCloses
  <2> QED
    BY <1>2, <2>1 DEF Grown, MakeLink
<1>3. CASE UNCHANGED <<calls, wcall>>
  BY <1>3, SameCalls DEF Grown
<1> QED
  BY <1>1, <1>2, <1>3
  DEF Next, WriteCommandAndLink, Cmdd, Tick, Look, WriteStruct, AddWatch, Scan, Die, CheckForNewCommand,
      FillCommand, RemoveFile, RemoveLink, Skip, Execute, cmddKeeps, writersKeep, writers, vars

\* So are its name and its order, and what has been crowded stays so.
LEMMA Kept ==
    ASSUME QueueType, [Next]_vars
    PROVE  /\ \A c \in DOMAIN calls : Of(c)' = Of(c)
           /\ \A c, d \in DOMAIN calls : Before(d, c)' <=> Before(d, c)
           /\ Apart' => Apart
<1>1. Grown
  BY Grows
<1>2. \A c \in DOMAIN calls : c \in DOMAIN calls' /\ calls'[c] = calls[c]
  BY <1>1 DEF Grown
<1> QED
  BY <1>2 DEF Of, Before, Apart, Solo

\* Every step keeps the calls in their order.
LEMMA SentStep == QueueType /\ Sent /\ [Next]_vars => Sent'
<1> SUFFICES ASSUME QueueType, WriterType, Sent, [Next]_vars PROVE Sent'
  BY DEF QueueType
<1>1. /\ Open \subseteq DOMAIN calls /\ DOMAIN calls = 1 .. Len(calls) /\ Len(calls) \in Nat
      /\ clock \in Nat /\ \A c \in DOMAIN calls : calls[c].time \in Nat
  BY Numbered, CommandAssumption DEF WriterType, Call, Times, Start
<1>2. CASE Tick
  <2>1. clock' = clock + 1 /\ UNCHANGED <<calls, wcall>>
    BY <1>2 DEF Tick, writers
  <2>2. \A c \in DOMAIN calls : calls[c].time <= clock + 1
    BY <1>1 DEF Sent
  <2> QED
    BY <2>1, <2>2, SameCalls DEF Sent
<1>3. ASSUME NEW w \in Writers, NEW c \in Commands, Send(w, c) PROVE Sent'
  <2> DEFINE e == Len(calls) + 1
  <2>1. /\ DOMAIN calls' = DOMAIN calls \cup {e}
        /\ \A d \in DOMAIN calls : calls'[d] = calls[d]
        /\ calls'[e].time = clock /\ calls'[e].open = Open /\ Open' = Open \cup {e}
    BY <1>3, SendOpens
  <2>2. clock' = clock
    BY <1>3 DEF Send, writersKeep
  <2>3. ~(e < e) /\ \A d \in DOMAIN calls : ~(e < d) /\ d # e
    BY <1>1
  <2> HIDE DEF e
  <2>4. ASSUME NEW b \in DOMAIN calls'
        PROVE  calls'[b].time <= clock' /\ calls'[b].open \subseteq DOMAIN calls'
    <3>1. CASE b = e
      <4>1. clock <= clock
        BY <1>1
      <4> QED
        BY <1>1, <2>1, <2>2, <3>1, <4>1
    <3>2. CASE b \in DOMAIN calls
      BY <2>1, <2>2, <3>2 DEF Sent
    <3> QED
      BY <2>1, <3>1, <3>2
  <2>5. \A d, b \in DOMAIN calls' : d < b => calls'[d].time <= calls'[b].time
    BY <1>1, <2>1, <2>3 DEF Sent
  <2>6. ASSUME NEW b \in DOMAIN calls', NEW d \in Open', d < b PROVE d \in calls'[b].open
    <3>1. CASE b = e
      BY <2>1, <2>3, <2>6, <3>1
    <3>2. CASE b \in DOMAIN calls
      BY <2>1, <2>3, <2>6, <3>2 DEF Sent
    <3> QED
      BY <2>1, <3>1, <3>2
  <2> QED
    BY <2>4, <2>5, <2>6 DEF Sent
<1>4. ASSUME NEW w \in Writers, MakeLink(w) PROVE Sent'
  <2>1. Open' \subseteq Open /\ UNCHANGED <<clock, calls>>
    BY <1>4, LinkCloses DEF MakeLink, writersKeep
  <2> QED
    BY <2>1 DEF Sent
<1>5. CASE UNCHANGED <<clock, calls, wcall>>
  BY <1>5, SameCalls DEF Sent
<1> QED
  BY <1>2, <1>3, <1>4, <1>5
  DEF Next, WriteCommandAndLink, Cmdd, Look, WriteStruct, AddWatch, Scan, Die, CheckForNewCommand,
      FillCommand, RemoveFile, RemoveLink, Skip, Execute, cmddKeeps, writersKeep, writers, vars

\* A name is of one call.
LEMMA OneName ==
    ASSUME QueueType, Apart, NEW c \in DOMAIN calls, NEW d \in DOMAIN calls
    PROVE  Of(c) \in Names /\ (Of(c) = Of(d) => c = d)
<1>1. calls[c].time \in Times
  BY Numbered DEF QueueType, Call
<1> QED
  BY <1>1 DEF Of, Names, Apart, Solo

\* Whoever was sent before has returned, and has the earlier name.
LEMMA SentFirst ==
    ASSUME QueueType, Sent, Apart, NEW c \in DOMAIN calls, NEW d \in DOMAIN calls,
           Before(d, c), d # c
    PROVE  d < c /\ d \in Returned /\ Earlier(Of(d), Of(c))
<1>1. d < c /\ d \notin calls[c].open
  BY DEF Before
<1>2. d \notin Open
  BY <1>1 DEF Sent
<1>3. calls[d].time <= calls[c].time /\ calls[d].time # calls[c].time
  BY <1>1 DEF Sent, Apart, Solo
<1>4. calls[c].time \in Nat /\ calls[d].time \in Nat
  BY Numbered, CommandAssumption DEF QueueType, Call, Times, Start
<1> QED
  BY <1>1, <1>2, <1>3, <1>4 DEF Returned, Earlier, Of

\* Nobody who has returned uses the name of a call that has not.
LEMMA OtherName ==
    ASSUME QueueType, Apart, NEW w \in Writers, wpc[w] # "idle"
    PROVE  /\ wcall[w] \in DOMAIN calls /\ wcall[w] \notin Returned /\ Of(wcall[w]) \in Names
           /\ \A d \in DOMAIN calls : Of(d) = Of(wcall[w]) => d = wcall[w]
           /\ \A v \in Writers : wcall[v] = wcall[w] => v = w
           /\ wtag[w] = 0 => Name(w) = Of(wcall[w])
<1>1. wcall[w] \in DOMAIN calls /\ wcall[w] \in Open /\ wcall[w] # 0
  BY NameType DEF QueueType, WriterType
<1>2. Of(wcall[w]) \in Names /\ \A d \in DOMAIN calls : Of(d) = Of(wcall[w]) => d = wcall[w]
  BY <1>1, OneName
<1>3. wtag[w] = 0 => Name(w) = Of(wcall[w])
  BY DEF Name, Of
<1>4. \A v \in Writers : wcall[v] = wcall[w] => v = w
  BY <1>1 DEF QueueType, WriterType
<1> QED
  BY <1>1, <1>2, <1>3, <1>4 DEF Returned

\* Every step keeps each name to its call.
LEMMA OwnedStep == QueueType /\ Apart' /\ Owned /\ [Next]_vars => Owned'
<1> SUFFICES ASSUME QueueType, Apart', Owned, [Next]_vars PROVE Owned'
  OBVIOUS
<1> USE DEF QueueType
<1>1. Apart /\ Grown /\ \A c \in DOMAIN calls : Of(c)' = Of(c)
  BY Kept, Grows
<1>2. 0 \notin DOMAIN calls /\ DOMAIN calls \subseteq Calls
  BY Numbered
<1>3. pc \in Taking => list # <<>> /\ phase = "up" /\ list[1] \in Range(list) /\ Head(list) = list[1]
  <2>1. pc \in Taking => list # <<>> /\ phase = "up"
    BY Numbered, LenProperties DEF CmddType, FileType, Taking, Calls
  <2> QED
    BY <2>1, Taken DEF FileType
<1>4. ASSUME NEW w \in Writers, NEW c \in Commands, Send(w, c) PROVE Owned'
  <2>0. PICK e \in Calls : e = Len(calls) + 1
    BY <1>4, SendOpens
  <2>1. e \notin DOMAIN calls /\ e \in DOMAIN calls' /\ Returned' = Returned
    BY <1>4, <2>0, SendOpens
  <2>2. /\ wpc' = [wpc EXCEPT ![w] = "look"] /\ wcall' = [wcall EXCEPT ![w] = e]
        /\ wtag' = [wtag EXCEPT ![w] = 0] /\ wpc[w] = "idle"
        /\ UNCHANGED <<dir, link, list, phase, pc>>
    BY <1>4, <2>0 DEF Send, files, writersKeep, reading
  <2>3. QueueType'
    BY QueueStep
  <2>4. Of(e)' \in Names /\ \A d \in DOMAIN calls : Of(e)' # Of(d)
    <3>1. ASSUME NEW d \in DOMAIN calls PROVE Of(e)' # Of(d)
      <4>1. d \in DOMAIN calls' /\ Of(d)' = Of(d) /\ d # e
        BY <1>1, <2>1 DEF Grown
      <4>2. calls'[d].time # calls'[e].time
        BY <2>1, <4>1 DEF Apart, Solo
      <4>3. Of(d)' # Of(e)'
        BY <4>2 DEF Of
      <4> QED
        BY <4>1, <4>3
    <3>2. calls'[e].time = clock /\ clock \in Times
      BY <1>4, <2>0, SendOpens DEF WriterType
    <3>3. Of(e)' \in Names
      BY <3>2 DEF Of, Names
    <3> QED
      BY <3>1, <3>3
  <2>5. dir[Of(e)'] = 0
    BY <2>4 DEF Owned, FileType
  <2>6. ASSUME NEW v \in Writers
        PROVE  /\ wpc'[v] \in {"look", "write"} => dir'[Of(wcall[v])'] = 0
               /\ wpc'[v] = "link" => dir'[Of(wcall[v])'] = wcall'[v]
    <3>1. CASE v = w
      <4>1. wpc'[v] = "look" /\ wcall'[v] = e /\ Of(wcall[v])' = Of(e)'
        BY <2>2, <3>1 DEF WriterType, Of
      <4> QED
        BY <2>2, <2>5, <4>1
    <3>2. CASE v # w
      <4>1. wpc'[v] = wpc[v] /\ wcall'[v] = wcall[v]
        BY <2>2, <3>2 DEF WriterType
      <4>2. CASE wpc[v] = "idle"
        BY <4>1, <4>2
      <4>3. CASE wpc[v] # "idle"
        <5>1. wcall[v] \in DOMAIN calls
          BY <4>3, OtherName, <1>1
        <5>2. Of(wcall[v])' = Of(wcall[v])
          BY <1>1, <4>1, <5>1 DEF Of, Grown
        <5> QED
          BY <2>2, <4>1, <5>2 DEF Owned
      <4> QED
        BY <4>2, <4>3
    <3> QED
      BY <3>1, <3>2
  <2>7. \A n \in Names : dir[n] # 0 => dir[n] \in DOMAIN calls
    BY DEF FileType
  <2>8. \A c1 \in Returned : c1 \in DOMAIN calls /\ Of(c1)' = Of(c1)
    BY <1>1 DEF Returned
  <2>9. \A n \in Names : dir'[n] # 0 => n = Of(dir[n])'
    BY <1>1, <2>2, <2>7 DEF Owned
  <2> QED
    BY <2>1, <2>2, <2>6, <2>8, <2>9 DEF Owned
<1>5. ASSUME NEW w \in Writers, Look(w) PROVE Owned'
  <2>1. wtag[w] = 0 /\ wpc[w] = "look" /\ wpc[w] # "idle"
    BY <1>5 DEF Look, Owned
  <2>2. dir[Name(w)] = 0
    BY <1>1, <2>1, OtherName DEF Owned
  <2>3. /\ wpc' = [wpc EXCEPT ![w] = "write"]
        /\ UNCHANGED <<calls, wcall, wtag, dir, link, list, phase, pc>>
    BY <1>5, <2>2 DEF Look, files, writersKeep, reading
  <2> QED
    BY <2>1, <2>3, SameCalls DEF Owned, Of, WriterType
<1>6. ASSUME NEW w \in Writers, WriteStruct(w) PROVE Owned'
  <2> DEFINE x == wcall[w]
  <2>1. /\ wpc[w] = "write" /\ wpc' = [wpc EXCEPT ![w] = "link"]
        /\ dir' = [dir EXCEPT ![Name(w)] = wcall[w]]
        /\ UNCHANGED <<calls, wcall, wtag, link, list, phase, pc>>
    BY <1>6 DEF WriteStruct, writersKeep, reading
  <2>2. /\ x \in DOMAIN calls /\ x \notin Returned /\ Name(w) = Of(x)
        /\ \A d \in DOMAIN calls : Of(d) = Of(x) => d = x
        /\ \A v \in Writers : wcall[v] = x => v = w
    BY <1>1, <2>1, OtherName DEF Owned
  <2>3. dir' = [dir EXCEPT ![Of(x)] = x] /\ UNCHANGED <<Open, Returned>>
    BY <2>1, <2>2, SameCalls
  <2>4. \A d \in DOMAIN calls \ {x} : dir'[Of(d)] = dir[Of(d)]
    BY <2>2, <2>3, <1>1, OneName DEF FileType
  <2>5. dir'[Of(x)] = x
    BY <2>2, <2>3, <1>1, OneName DEF FileType
  <2>6. \A n \in Names : dir'[n] # 0 => n = Of(dir'[n])
    BY <2>3, <2>5 DEF Owned, FileType
  <2>7. \A v \in Writers : v # w /\ wpc[v] # "idle" => dir'[Of(wcall[v])] = dir[Of(wcall[v])]
    BY <1>1, <2>2, <2>4, OtherName
  <2>8. ASSUME NEW v \in Writers
        PROVE  /\ wpc'[v] \in {"look", "write"} => dir'[Of(wcall[v])] = 0
               /\ wpc'[v] = "link" => dir'[Of(wcall[v])] = wcall[v]
    <3>1. CASE v = w
      BY <2>1, <2>5, <3>1 DEF WriterType
    <3>2. CASE v # w
      BY <2>1, <2>7, <3>2 DEF WriterType, Owned
    <3> QED
      BY <3>1, <3>2
  <2>9. \A c \in Returned : dir'[Of(c)] = dir[Of(c)]
    BY <2>2, <2>4 DEF Returned
  <2>10. pc = "rmLink" => dir'[Head(list)] = 0
    <3> SUFFICES ASSUME pc = "rmLink" PROVE dir'[Head(list)] = 0
      OBVIOUS
    <3>1. PICK c \in Returned : Head(list) = Of(c)
      BY <1>3 DEF Owned, Taking
    <3> QED
      BY <2>9, <3>1 DEF Owned
  <2> HIDE DEF x
  <2>11. \A n \in Names : dir'[n] # 0 => n = Of(dir[n])'
    BY <2>1, <2>6 DEF Of
  <2>12. \A v \in Writers : Of(wcall[v])' = Of(wcall[v])
    BY <2>1 DEF Of
  <2>13. \A c \in DOMAIN calls : Of(c)' = Of(c)
    BY <2>1 DEF Of
  <2> QED
    BY <2>1, <2>3, <2>8, <2>9, <2>10, <2>11, <2>12, <2>13 DEF Owned, Returned
<1>7. ASSUME NEW w \in Writers, MakeLink(w) PROVE Owned'
  <2> DEFINE x == wcall[w]
  <2>1. /\ wpc[w] = "link" /\ wpc' = [wpc EXCEPT ![w] = "idle"]
        /\ wcall' = [wcall EXCEPT ![w] = 0] /\ wtag' = [wtag EXCEPT ![w] = 0]
        /\ link' = link \cup {Name(w)}
        /\ list' = IF Name(w) \notin link /\ phase # "down" THEN Append(list, Name(w)) ELSE list
        /\ UNCHANGED <<calls, dir, phase, pc>>
    BY <1>7 DEF MakeLink, writersKeep, reading
  <2>2. /\ x \in DOMAIN calls /\ x \notin Returned /\ Name(w) = Of(x) /\ Of(x) \in Names
        /\ \A v \in Writers : wcall[v] = x => v = w
    BY <1>1, <2>1, OtherName DEF Owned
  <2>3. Returned' = Returned \cup {x}
    BY <1>7, LinkCloses
  <2>4. /\ Range(list') \subseteq Range(list) \cup {Of(x)}
        /\ phase = "up" /\ Of(x) \notin link => Range(list') = Range(list) \cup {Of(x)}
        /\ Range(list) \subseteq Range(list')
        /\ list # <<>> => Head(list') = Head(list)
    <3>1. CASE list' = list
      BY <2>1, <2>2, <3>1
    <3>2. CASE list' = Append(list, Of(x))
      <4>1. list \in Seq(Names)
        BY DEF FileType
      <4>2. Range(list') = Range(list) \cup {Of(x)}
        <5>1. PICK n \in Names : n = Of(x)
          BY <2>2
        <5>2. list' = Append(list, n)
          BY <3>2, <5>1
        <5>3. Range(Append(list, n)) = Range(list) \cup {n}
          BY <4>1, RangeAppended
        <5> QED
          BY <5>1, <5>2, <5>3
      <4>3. list # <<>> => Head(list') = Head(list)
        BY <2>2, <3>2, <4>1, AppendProperties, EmptySeq, LenProperties
      <4> QED
        BY <4>2, <4>3
    <3> QED
      BY <2>1, <2>2, <3>1, <3>2
  <2>5. \A c \in DOMAIN calls : Of(c)' = Of(c)
    BY <1>1
  <2>6. \A n \in link' \cup Range(list') : \E c \in Returned' : n = Of(c)'
    <3>1. \A c \in Returned' : Of(c)' = Of(c)
      BY <2>2, <2>3, <2>5 DEF Returned
    <3>2. \A n \in link' \cup Range(list') : \E c \in Returned' : n = Of(c)
      BY <2>1, <2>2, <2>3, <2>4 DEF Owned
    <3> QED
      BY <3>1, <3>2
  <2>7. \A c \in Returned' : dir'[Of(c)'] # 0 => Of(c)' \in link'
    BY <2>1, <2>2, <2>3, <2>5 DEF Owned, Returned
  <2>8. phase' = "up" => link' \subseteq Range(list')
    BY <2>1, <2>2, <2>4 DEF Owned
  <2>9. pc' = "rmLink" => dir'[Head(list')] = 0
    BY <1>3, <2>1, <2>4 DEF Owned, Taking
  <2> HIDE DEF x
  <2>10. \A n \in Names : dir'[n] # 0 => n = Of(dir[n])'
    BY <2>1 DEF Of, Owned
  <2>11. \A v \in Writers : wtag'[v] = 0
    BY <2>1 DEF Owned, WriterType
  <2>12. ASSUME NEW v \in Writers
         PROVE  /\ wpc'[v] \in {"look", "write"} => dir'[Of(wcall[v])'] = 0
                /\ wpc'[v] = "link" => dir'[Of(wcall[v])'] = wcall'[v]
    <3>1. CASE v = w
      BY <2>1, <3>1 DEF WriterType
    <3>2. CASE v # w
      <4>1. wpc'[v] = wpc[v] /\ wcall'[v] = wcall[v] /\ Of(wcall[v])' = Of(wcall[v])
        BY <2>1, <3>2 DEF WriterType, Of
      <4> QED
        BY <2>1, <4>1 DEF Owned
    <3> QED
      BY <3>1, <3>2
  <2> QED
    BY <2>6, <2>7, <2>8, <2>9, <2>10, <2>11, <2>12 DEF Owned
<1>8. CASE Scan
  <2>1. PICK s \in Listings(link) : list' = s \o list
    BY <1>8 DEF Scan
  <2>2. s \in Seq(Names) /\ Range(s) = link
    BY ListingHolds DEF FileType, Sizes
  <2>3. Range(list') = link \cup Range(list)
    <3>1. list \in Seq(Names)
      BY DEF FileType
    <3>2. Range(s \o list) = Range(s) \cup Range(list)
      BY <2>2, <3>1, RangeJoined
    <3> QED
      BY <2>1, <2>2, <3>2
  <2>4. /\ phase = "watching" /\ UNCHANGED <<calls, wpc, wcall, wtag, dir, link, pc>>
    BY <1>8 DEF Scan, writers, files, reading
  <2>5. pc # "rmLink"
    BY <2>4 DEF CmddType
  <2> QED
    BY <2>3, <2>4, <2>5, SameCalls DEF Owned, Of, Returned
<1>9. CASE Die
  <2>1. /\ list' = <<>> /\ phase' = "down" /\ pc' = "idle"
        /\ UNCHANGED <<calls, wpc, wcall, wtag, dir, link>>
    BY <1>9 DEF Die, writers, files
  <2>2. Range(list') = {}
    BY <2>1 DEF Range
  <2> QED
    BY <2>1, <2>2, SameCalls DEF Owned, Of, Returned
<1>10. CASE RemoveFile
  <2>1. /\ pc = "rmFile" /\ pc' = "rmLink" /\ dir' = [dir EXCEPT ![Head(list)] = 0]
        /\ UNCHANGED <<calls, wpc, wcall, wtag, link, list, phase>>
    BY <1>10 DEF RemoveFile, cmddKeeps, writers
  <2>2. PICK c \in Returned : Head(list) = Of(c)
    BY <1>3, <2>1 DEF Owned, Taking
  <2>3. c \in DOMAIN calls /\ Of(c) \in Names
    BY <1>1, <2>2, OneName DEF Returned
  <2>4. /\ dir'[Of(c)] = 0
        /\ \A n \in Names : dir'[n] # 0 => dir'[n] = dir[n]
        /\ \A n \in Names : dir[n] = 0 => dir'[n] = 0
        /\ \A n \in Names : n # Of(c) => dir'[n] = dir[n]
    BY <2>1, <2>2, <2>3 DEF FileType
  <2>5. ASSUME NEW v \in Writers, wpc[v] # "idle"
        PROVE  dir'[Of(wcall[v])] = dir[Of(wcall[v])]
    <3>1. Of(wcall[v]) \in Names /\ Of(wcall[v]) # Of(c)
      BY <1>1, <2>2, <2>3, <2>5, OtherName
    <3> QED
      BY <2>4, <3>1
  <2>6. \A v \in Writers : Of(wcall[v])' = Of(wcall[v])
    BY <2>1 DEF Of
  <2>7. ASSUME NEW v \in Writers
        PROVE  /\ wpc'[v] \in {"look", "write"} => dir'[Of(wcall[v])'] = 0
               /\ wpc'[v] = "link" => dir'[Of(wcall[v])'] = wcall'[v]
    BY <2>1, <2>5, <2>6 DEF Owned
  <2>8. \A n \in Names : dir'[n] # 0 => n = Of(dir[n])'
    BY <2>1, <2>4 DEF Of, Owned
  <2>9. \A b \in Returned : Of(b) \in Names /\ Of(b)' = Of(b)
    BY <1>1, OneName DEF Returned
  <2>10. Returned' = Returned
    BY <2>1, SameCalls
  <2>11. \A b \in Returned' : dir'[Of(b)'] # 0 => Of(b)' \in link'
    BY <2>1, <2>4, <2>9, <2>10 DEF Owned
  <2>12. \A n \in link' \cup Range(list') : \E b \in Returned' : n = Of(b)'
    BY <2>1, <2>9, <2>10 DEF Owned
  <2> QED
    BY <2>1, <2>2, <2>4, <2>7, <2>8, <2>11, <2>12 DEF Owned
<1>11. CASE RemoveLink
  <2>1. /\ pc = "rmLink" /\ pc' # "rmLink" /\ link' = link \ {list[1]} /\ list' = Tail(list)
        /\ UNCHANGED <<calls, wpc, wcall, wtag, dir, phase>>
    BY <1>3, <1>11 DEF RemoveLink, Taking, cmddKeeps, writers
  <2>2. Range(list) = Range(list') \cup {list[1]} /\ list[1] = Head(list)
    BY <1>3, <2>1, Taken DEF FileType, Taking
  <2>3. dir[list[1]] = 0
    BY <2>1, <2>2 DEF Owned
  <2>4. \A b \in DOMAIN calls : Of(b)' = Of(b)
    BY <1>1
  <2>5. Returned' = Returned /\ Returned \subseteq DOMAIN calls
    BY <2>1, SameCalls DEF Returned
  <2>6. \A b \in Returned' : dir'[Of(b)'] # 0 => Of(b)' \in link'
    BY <2>1, <2>3, <2>4, <2>5 DEF Owned
  <2>7. \A n \in link' \cup Range(list') : \E b \in Returned' : n = Of(b)'
    BY <2>1, <2>2, <2>4, <2>5 DEF Owned
  <2>8. phase' = "up" => link' \subseteq Range(list')
    BY <2>1, <2>2 DEF Owned
  <2> QED
    BY <2>1, <2>6, <2>7, <2>8 DEF Owned, Of
<1>12. CASE UNCHANGED <<calls, wpc, wcall, wtag, dir, link, list>> /\ phase' # "up" /\ pc' = pc
  BY <1>12, SameCalls DEF Owned, Of, Returned
<1>13. CASE UNCHANGED <<calls, wpc, wcall, wtag, dir, link, list, phase>> /\ pc' # "rmLink"
  BY <1>13, SameCalls DEF Owned, Of, Returned
<1>14. CASE UNCHANGED <<calls, wpc, wcall, wtag, dir, link, list, phase, pc>>
  BY <1>14, SameCalls DEF Owned, Of, Returned
<1>15. CASE CheckForNewCommand \/ FillCommand \/ Skip \/ Execute
  BY <1>13, <1>15 DEF CheckForNewCommand, FillCommand, Skip, Execute, NextOfBatch, cmddKeeps, writers, files
<1>16. CASE Tick \/ UNCHANGED vars
  BY <1>14, <1>16 DEF Tick, vars, writers, files, reading
<1>17. CASE AddWatch
  BY <1>12, <1>17 DEF AddWatch, writers, files, reading
<1> QED
  BY <1>4, <1>5, <1>6, <1>7, <1>8, <1>9, <1>10, <1>11, <1>15, <1>16, <1>17
  DEF Next, WriteCommandAndLink, Cmdd

-----------------------------------------------------------------------------
(* The batch *)

\* A slot is of the batch when it is filled, until it is executed.
LEMMA LiveFills ==
    ASSUME CmddType, FillCommand
    PROVE  upto \in Nat /\ upto \notin Live /\ Live' = Live \cup {upto} /\ \A k \in Live : k < upto
<1>1. pc = "fill" /\ pc' = "rmFile" /\ upto' = upto /\ upto \in Nat /\ upto > 0
  BY DEF FillCommand, CmddType
<1>2. Live = 1 .. upto - 1 /\ Live' = 1 .. upto
  BY <1>1 DEF Live
<1> QED
  BY <1>1, <1>2

LEMMA LiveStays ==
    ASSUME CmddType, RemoveFile \/ RemoveLink PROVE Live' = Live
<1>1. batch \in Nat /\ upto \in 0 .. batch
  BY DEF CmddType
<1>2. CASE RemoveFile
  BY <1>2 DEF RemoveFile, Live
<1>3. CASE RemoveLink
  <2>1. pc = "rmLink" /\ batch' = batch /\ Live = 1 .. upto
    BY <1>3 DEF RemoveLink, Live
  <2>2. CASE upto < batch /\ pc' = "fill" /\ upto' = upto + 1
    <3>1. Live' = 1 .. upto' - 1
      BY <2>2 DEF Live
    <3> QED
      BY <1>1, <2>1, <2>2, <3>1
  <2>3. CASE ~(upto < batch) /\ pc' = "execute" /\ upto' = 1
    <3>1. Live' = 1 .. batch
      BY <2>1, <2>3 DEF Live
    <3> QED
      BY <1>1, <2>1, <2>3, <3>1
  <2> QED
    BY <1>3, <2>2, <2>3 DEF RemoveLink
<1> QED
  BY <1>2, <1>3

LEMMA LiveShrinks ==
    ASSUME CmddType, pc = "execute", NextOfBatch, batch' = batch
    PROVE  /\ upto \in Live /\ upto \in 1 .. 2 * MaxWrites /\ Live' \subseteq Live
           /\ \A m \in Live' : upto < m
<1>1. batch \in Nat /\ upto \in 1 .. batch /\ batch <= 2 * MaxWrites /\ MaxWrites \in Nat
  BY CommandAssumption DEF CmddType
<1>2. Live = upto .. batch
  BY DEF Live
<1>3. CASE upto < batch /\ pc' = pc /\ upto' = upto + 1
  <2>1. Live' = upto' .. batch
    BY <1>3 DEF Live
  <2> QED
    BY <1>1, <1>2, <1>3, <2>1
<1>4. CASE pc' = "idle"
  <2>1. Live' = {}
    BY <1>4 DEF Live
  <2> QED
    BY <1>1, <1>2, <2>1
<1> QED
  BY <1>3, <1>4 DEF NextOfBatch

LEMMA LiveEmpty == (pc \notin Taking \cup {"execute"} => Live = {}) /\ (pc = "fill" /\ upto = 1 => Live = {})
  BY DEF Live, Taking

\* While Cmdd is taking links there is one to take.
LEMMA Takes ==
    QueueType => /\ MaxWrites \in Nat /\ batch \in Nat /\ upto \in 0 .. batch /\ list \in Seq(Names)
                 /\ pc # "idle" => phase = "up" /\ upto \in 1 .. 2 * MaxWrites
                 /\ pc \in Taking => /\ list # <<>> /\ Head(list) = list[1] /\ list[1] \in Names
                                     /\ 1 \in DOMAIN list /\ list[1] \in Range(list)
<1> SUFFICES ASSUME FileType, CmddType
             PROVE  /\ MaxWrites \in Nat /\ batch \in Nat /\ upto \in 0 .. batch /\ list \in Seq(Names)
                    /\ pc # "idle" => phase = "up" /\ upto \in 1 .. 2 * MaxWrites
                    /\ pc \in Taking => /\ list # <<>> /\ Head(list) = list[1] /\ list[1] \in Names
                                        /\ 1 \in DOMAIN list /\ list[1] \in Range(list)
  BY DEF QueueType
<1>1. MaxWrites \in Nat /\ list \in Seq(Names) /\ batch \in 0 .. 2 * MaxWrites /\ upto \in 0 .. batch
  BY CommandAssumption DEF FileType, CmddType
<1>2. pc # "idle" => phase = "up" /\ upto \in 1 .. 2 * MaxWrites
  BY <1>1 DEF CmddType
<1>3. pc \in Taking => list # <<>>
  BY <1>1, LenProperties DEF CmddType
<1>4. ASSUME list # <<>>
      PROVE  Head(list) = list[1] /\ list[1] \in Names /\ 1 \in DOMAIN list /\ list[1] \in Range(list)
  <2> DEFINE t == Tail(list)
  <2>1. t = Tail(list)
    OBVIOUS
  <2> HIDE DEF t
  <2> QED
    BY <1>1, <1>4, <2>1, Taken
<1> QED
  BY <1>1, <1>2, <1>3, <1>4

-----------------------------------------------------------------------------
(* What is read from a missing file *)

\* Every step that leaves the batch and the list alone, and takes no file away.
LEMMA UnstaleKept ==
    ASSUME Unstale, UNCHANGED <<pc, batch, upto, slots, list>>, phase = "up" => phase' = "up",
           \A n \in Range(list) : dir[n] # 0 => dir'[n] # 0
    PROVE  Unstale'
<1>1. \A i \in DOMAIN list : list[i] \in Range(list)
  BY DEF Range
<1>2. \A i \in DOMAIN list : Fresh(i) => Fresh(i)'
  BY <1>1 DEF Fresh
<1>3. \A i \in DOMAIN list : Emptied(i) => Emptied(i)'
  BY DEF Emptied, Zeroed
<1>4. Zeroed => Zeroed'
  BY DEF Zeroed
<1> QED
  BY <1>2, <1>3, <1>4 DEF Unstale

\* Every step leaves nothing behind that could be taken for a missing file.
LEMMA UnstaleStep == QueueType /\ Apart' /\ Owned /\ Unstale /\ [Next]_vars => Unstale'
<1> SUFFICES ASSUME QueueType, Apart', Owned, Unstale, [Next]_vars PROVE Unstale'
  OBVIOUS
<1>1. Apart
  BY Kept
<1>2. WriterType /\ FileType /\ CmddType
  BY DEF QueueType
<1>3. ASSUME UNCHANGED <<pc, batch, upto, slots, list, dir>>, phase = "up" => phase' = "up" PROVE Unstale'
  BY <1>3, UnstaleKept
<1>4. ASSUME NEW w \in Writers, WriteStruct(w) PROVE Unstale'
  <2>1. /\ dir' = [dir EXCEPT ![Name(w)] = wcall[w]]
        /\ UNCHANGED <<pc, batch, upto, slots, list, phase>>
    BY <1>4 DEF WriteStruct, writersKeep, reading
  <2>2. wcall[w] # 0
    BY <1>2, <1>4 DEF WriteStruct, WriterType
  <2>3. \A n \in Names : dir[n] # 0 => dir'[n] # 0
    BY <1>2, <2>1, <2>2 DEF FileType
  <2>4. Range(list) \subseteq Names
    BY <1>2, RangeIn DEF FileType
  <2> QED
    BY <2>1, <2>3, <2>4, UnstaleKept
<1>5. ASSUME NEW w \in Writers, MakeLink(w) PROVE Unstale'
  <2>1. /\ wpc[w] = "link" /\ UNCHANGED <<pc, batch, upto, slots, dir, phase>>
        /\ list' = IF Name(w) \notin link /\ phase # "down" THEN Append(list, Name(w)) ELSE list
    BY <1>5 DEF MakeLink, writersKeep, reading
  <2>2. CASE list' = list
    BY <1>3, <2>1, <2>2
  <2>3. CASE list' = Append(list, Name(w))
    <3>1. PICK n \in Names : n = Name(w) /\ dir[n] # 0 /\ n \notin Range(list)
      <4>1. /\ Name(w) = Of(wcall[w]) /\ Of(wcall[w]) \in Names /\ wcall[w] # 0
            /\ \A d \in Returned : Of(d) # Of(wcall[w])
        BY <1>1, <1>2, <2>1, OtherName DEF Owned, Returned, WriterType
      <4>2. dir[Of(wcall[w])] # 0 /\ Of(wcall[w]) \notin Range(list)
        BY <2>1, <4>1 DEF Owned
      <4> QED
        BY <4>1, <4>2
    <3> DEFINE e == Len(list) + 1
    <3>2. list \in Seq(Names) /\ list' = Append(list, n)
      BY <1>2, <2>3, <3>1 DEF FileType
    <3>3. /\ DOMAIN list' = DOMAIN list \cup {e} /\ \A i \in DOMAIN list : list'[i] = list[i]
          /\ list'[e] = n
      <4>1. /\ Len(list) \in Nat /\ DOMAIN list = 1 .. Len(list) /\ DOMAIN list' = 1 .. Len(list) + 1
            /\ \A i \in DOMAIN list : list'[i] = list[i]
            /\ list'[Len(list) + 1] = n
        BY <3>2, Appended
      <4> QED
        BY <4>1
    <3>4. \A i \in DOMAIN list : list[i] \in Range(list) /\ list[i] # n
      BY <3>1 DEF Range
    <3> HIDE DEF e
    <3>5. /\ dir'[list'[e]] # 0 /\ \A j \in DOMAIN list' : list'[j] = n => j = e
      BY <2>1, <3>1, <3>3, <3>4
    <3>6. ASSUME NEW i \in DOMAIN list, Fresh(i) PROVE Fresh(i)'
      BY <2>1, <3>3, <3>4, <3>6 DEF Fresh
    <3>7. ASSUME NEW i \in DOMAIN list, Emptied(i) PROVE Emptied(i)'
      BY <2>1, <3>7 DEF Emptied, Zeroed
    <3>8. ASSUME NEW i \in DOMAIN list' PROVE Emptied(i)' \/ Fresh(i)'
      <4>1. CASE i = e
        BY <3>3, <3>5, <4>1 DEF Fresh
      <4>2. CASE i \in DOMAIN list
        BY <3>6, <3>7, <4>2 DEF Unstale
      <4> QED
        BY <3>3, <4>1, <4>2
    <3>9. phase' # "up" => Zeroed'
      BY <2>1 DEF Unstale, Zeroed
    <3> QED
      BY <3>8, <3>9 DEF Unstale
  <2> QED
    BY <2>1, <2>2, <2>3
<1>6. CASE Scan
  <2>1. pc = "idle" /\ phase' = "up" /\ Zeroed /\ UNCHANGED <<pc, slots>>
    BY <1>2, <1>6 DEF Scan, Unstale, CmddType, reading
  <2>2. \A i \in DOMAIN list' : Emptied(i)'
    BY <2>1 DEF Emptied, Zeroed
  <2> QED
    BY <2>1, <2>2 DEF Unstale
<1>7. CASE Die
  <2>1. list' = <<>> /\ slots' = [i \in DOMAIN slots |-> 0]
    BY <1>7 DEF Die
  <2>2. Zeroed'
    BY <2>1 DEF Zeroed
  <2> QED
    BY <2>1, <2>2 DEF Unstale
<1>8. CASE CheckForNewCommand
  <2>1. /\ pc = "idle" /\ pc' = "fill" /\ batch' = Len(list) /\ upto' = 1
        /\ phase = "up" /\ phase' = "up" /\ UNCHANGED <<slots, dir, list>>
    BY <1>8 DEF CheckForNewCommand, cmddKeeps, files
  <2>2. DOMAIN list = 1 .. Len(list) /\ Len(list) \in Nat /\ Len(list) <= 2 * MaxWrites /\ MaxWrites \in Nat
    BY <1>2, LenProperties, BatchFits, CommandAssumption DEF FileType
  <2>3. DOMAIN slots = 1 .. 2 * MaxWrites
    BY <1>2 DEF CmddType
  <2>4. ASSUME NEW i \in DOMAIN list, Emptied(i) PROVE Emptied(i)'
    <3>1. Zeroed
      BY <2>1, <2>4 DEF Emptied, Taking
    <3>2. i \in DOMAIN slots /\ i \in Nat /\ i <= Len(list) - 1 + 1 /\ 1 + i - 1 = i
      BY <2>2, <2>3
    <3>3. slots[i] = 0
      BY <3>1, <3>2 DEF Zeroed
    <3>4. i <= batch' - upto' + 1 /\ slots'[upto' + i - 1] = 0
      BY <2>1, <3>2, <3>3
    <3> QED
      BY <2>1, <3>4 DEF Emptied, Taking
  <2>5. ASSUME NEW i \in DOMAIN list, Fresh(i) PROVE Fresh(i)'
    BY <2>1, <2>5 DEF Fresh
  <2> QED
    BY <2>1, <2>4, <2>5 DEF Unstale
<1>9. CASE FillCommand
  <2>1. /\ pc = "fill" /\ pc' = "rmFile" /\ phase = "up" /\ phase' = "up"
        /\ slots' = IF dir[Head(list)] # 0 THEN [slots EXCEPT ![upto] = dir[Head(list)]] ELSE slots
        /\ UNCHANGED <<batch, upto, dir, list>>
    BY <1>2, <1>9 DEF FillCommand, cmddKeeps, files, CmddType
  <2>2. \A k \in DOMAIN slots : k # upto => slots'[k] = slots[k]
    BY <1>2, <2>1 DEF CmddType
  <2>3. /\ DOMAIN list = 1 .. Len(list) /\ Len(list) \in Nat /\ batch \in Nat /\ upto \in 1 .. batch
        /\ batch <= 2 * MaxWrites /\ MaxWrites \in Nat /\ DOMAIN slots = 1 .. 2 * MaxWrites
    BY <1>2, <2>1, LenProperties, CommandAssumption DEF FileType, CmddType
  <2>4. ASSUME NEW i \in DOMAIN list, Emptied(i) PROVE Emptied(i)'
    <3>1. CASE i = 1
      BY <2>1, <3>1 DEF Emptied
    <3>2. CASE i # 1
      <4>1. i <= batch - upto + 1 /\ slots[upto + i - 1] = 0
        BY <2>1, <2>4 DEF Emptied
      <4>2. upto + i - 1 \in DOMAIN slots /\ upto + i - 1 # upto
        BY <2>3, <3>2, <4>1
      <4>3. slots'[upto + i - 1] = 0
        BY <2>2, <4>1, <4>2
      <4> QED
        BY <2>1, <4>1, <4>3 DEF Emptied, Taking
    <3> QED
      BY <3>1, <3>2
  <2>5. ASSUME NEW i \in DOMAIN list, Fresh(i) PROVE Fresh(i)'
    BY <2>1, <2>5 DEF Fresh
  <2> QED
    BY <2>1, <2>4, <2>5 DEF Unstale
<1>10. CASE RemoveFile
  <2>1. /\ pc = "rmFile" /\ pc' = "rmLink" /\ phase = "up" /\ phase' = "up"
        /\ dir' = [dir EXCEPT ![Head(list)] = 0] /\ UNCHANGED <<batch, upto, slots, list>>
    BY <1>2, <1>10 DEF RemoveFile, cmddKeeps, CmddType
  <2>2. Head(list) = list[1] /\ 1 \in DOMAIN list
    BY <2>1, Takes DEF Taking
  <2>3. ASSUME NEW i \in DOMAIN list, Emptied(i) PROVE Emptied(i)'
    BY <2>1, <2>3 DEF Emptied, Taking
  <2>4. ASSUME NEW i \in DOMAIN list, Fresh(i), i # 1 PROVE Fresh(i)'
    <3>1. list[i] # list[1]
      BY <2>2, <2>4 DEF Fresh
    <3>2. dir'[list[i]] = dir[list[i]]
      BY <2>1, <2>2, <3>1
    <3> QED
      BY <2>1, <2>4, <3>2 DEF Fresh
  <2>5. Emptied(1)'
    BY <2>1 DEF Emptied
  <2> QED
    BY <2>1, <2>3, <2>4, <2>5 DEF Unstale
<1>11. CASE RemoveLink
  <2>1. /\ pc = "rmLink" /\ phase = "up" /\ phase' = "up" /\ list' = Tail(list)
        /\ \/ upto < batch /\ pc' = "fill" /\ upto' = upto + 1
           \/ ~(upto < batch) /\ pc' = "execute" /\ upto' = 1
        /\ UNCHANGED <<batch, slots, dir>>
    BY <1>2, <1>11 DEF RemoveLink, cmddKeeps, CmddType
  <2>2. list # <<>> /\ list \in Seq(Names) /\ batch \in Nat /\ upto \in 0 .. batch
    BY <2>1, Takes DEF Taking
  <2>3. /\ DOMAIN list' = 1 .. Len(list) - 1 /\ Len(list) \in Nat
        /\ \A i \in DOMAIN list' : list'[i] = list[i + 1] /\ i + 1 \in DOMAIN list
    BY <2>1, <2>2, Taken
  <2>4. ASSUME NEW i \in DOMAIN list', Emptied(i + 1) PROVE Emptied(i)'
    <3>1. i \in Nat /\ i >= 1
      BY <2>3
    <3>2. i + 1 <= batch - upto + 1 /\ slots[upto + (i + 1) - 1] = 0
      BY <2>1, <2>4, <3>1 DEF Emptied
    <3>3. upto < batch
      BY <2>2, <3>1, <3>2
    <3>4. pc' = "fill" /\ upto' = upto + 1
      BY <2>1, <3>3
    <3>5. i <= batch' - upto' + 1 /\ upto' + i - 1 = upto + (i + 1) - 1
      BY <2>1, <2>2, <3>1, <3>2, <3>4
    <3>6. slots'[upto' + i - 1] = 0
      BY <2>1, <3>2, <3>5
    <3> QED
      BY <3>4, <3>5, <3>6 DEF Emptied, Taking
  <2>5. ASSUME NEW i \in DOMAIN list', Fresh(i + 1) PROVE Fresh(i)'
    <3>1. dir'[list'[i]] # 0
      BY <2>1, <2>3, <2>5 DEF Fresh
    <3>2. ASSUME NEW j \in DOMAIN list', list'[j] = list'[i] PROVE j = i
      <4>1. j + 1 = i + 1
        BY <2>3, <2>5, <3>2 DEF Fresh
      <4> QED
        BY <2>3, <4>1
    <3> QED
      BY <3>1, <3>2 DEF Fresh
  <2> QED
    BY <2>1, <2>3, <2>4, <2>5 DEF Unstale
<1>12. CASE Skip \/ Execute
  <2>1. /\ pc = "execute" /\ pc' \in {"execute", "idle"} /\ phase = "up" /\ phase' = "up"
        /\ UNCHANGED <<slots, dir, list>>
    BY <1>2, <1>12 DEF Skip, Execute, NextOfBatch, cmddKeeps, files, CmddType
  <2>2. \A i \in DOMAIN list : Fresh(i)
    BY <2>1 DEF Unstale, Emptied, Taking
  <2> QED
    BY <2>1, <2>2 DEF Unstale, Fresh
<1> QED
  BY <1>3, <1>4, <1>5, <1>6, <1>7, <1>8, <1>9, <1>10, <1>11, <1>12
  DEF Next, WriteCommandAndLink, Cmdd, Tick, Send, Look, AddWatch, writersKeep, reading, files, vars

-----------------------------------------------------------------------------
(* The order of the list *)

\* Whoever was sent before has its link behind its file; a writer is none of them.
LEMMA Ahead ==
    ASSUME QueueType, Sent, Apart, Owned, NEW c \in DOMAIN calls, NEW d \in DOMAIN calls,
           Before(d, c), d # c, dir[Of(d)] # 0
    PROVE  Of(d) \in link /\ Earlier(Of(d), Of(c))
  BY SentFirst DEF Owned

\* A file that is written is of nobody who has returned.
LEMMA WrittenApart ==
    ASSUME QueueType, Apart, Owned, NEW w \in Writers, WriteStruct(w)
    PROVE  \A d \in Returned : dir'[Of(d)] = dir[Of(d)]
<1>1. wpc[w] # "idle" /\ dir' = [dir EXCEPT ![Name(w)] = wcall[w]]
  BY DEF WriteStruct
<1>2. Name(w) = Of(wcall[w]) /\ wcall[w] \notin Returned /\ \A d \in DOMAIN calls : Of(d) = Of(wcall[w]) => d = wcall[w]
  BY <1>1, OtherName DEF Owned
<1>3. \A d \in Returned : Of(d) # Name(w)
  BY <1>2 DEF Returned
<1>4. \A d \in Returned : Of(d) \in Names
  BY OneName DEF Returned
<1> QED
  BY <1>1, <1>3, <1>4 DEF QueueType, FileType

\* Every step keeps the list in order.
LEMMA InListStep == QueueType /\ Sent /\ Apart' /\ Owned /\ InList /\ [Next]_vars => InList'
<1> SUFFICES ASSUME QueueType, Sent, Apart', Owned, InList, [Next]_vars PROVE InList'
  OBVIOUS
<1>1. /\ Apart /\ Grown /\ \A c \in DOMAIN calls : Of(c)' = Of(c)
      /\ \A c, d \in DOMAIN calls : Before(d, c)' <=> Before(d, c)
  BY Kept, Grows
<1>2. WriterType /\ FileType /\ CmddType
  BY DEF QueueType
<1>3. /\ list \in Seq(Names) /\ Len(list) \in Nat /\ DOMAIN list = 1 .. Len(list)
      /\ \A i \in DOMAIN list : list[i] \in Range(list)
  BY <1>2, LenProperties DEF FileType, Range
<1>4. ASSUME calls' = calls, link' = link, list' = list, phase = "watching" => phase' = "watching",
             \A d \in Returned : dir[Of(d)] = 0 => dir'[Of(d)] = 0
      PROVE  InList'
  <2>1. \A d \in DOMAIN calls : Of(d)' = Of(d)
    BY <1>1
  <2>2. ASSUME NEW c \in DOMAIN calls, NEW d \in DOMAIN calls, Before(d, c), d # c,
               NEW i \in DOMAIN list, list[i] = Of(c)
        PROVE  \/ dir'[Of(d)] = 0
               \/ phase' = "watching" /\ Of(d) \in link
               \/ \E j \in DOMAIN list : j < i /\ list[j] = Of(d)
    <3>1. d \in Returned
      BY <1>1, <2>2, SentFirst
    <3> QED
      BY <1>4, <2>2, <3>1 DEF InList
  <2> QED
    BY <1>1, <1>4, <2>1, <2>2 DEF InList
<1>5. ASSUME NEW w \in Writers, NEW c \in Commands, Send(w, c) PROVE InList'
  <2>1. PICK e \in Calls : e = Len(calls) + 1
    BY <1>2, <1>5, SendOpens
  <2>2. DOMAIN calls' = DOMAIN calls \cup {e} /\ e \notin DOMAIN calls
    BY <1>2, <1>5, <2>1, SendOpens
  <2>3. UNCHANGED <<dir, link, list, phase>>
    BY <1>5 DEF Send, files, writersKeep
  <2>4. \A d \in DOMAIN calls : d < e /\ ~(e < d)
    BY <1>2, <2>1, Numbered
  <2>5. ASSUME NEW b \in DOMAIN calls', NEW d \in DOMAIN calls', Before(d, b)', d # b,
               NEW i \in DOMAIN list', list'[i] = Of(b)'
        PROVE  b \in DOMAIN calls /\ d \in DOMAIN calls
    <3>1. PICK c1 \in Returned : list[i] = Of(c1)
      BY <1>3, <2>3, <2>5 DEF Owned
    <3>2. c1 \in DOMAIN calls' /\ Of(c1)' = Of(b)' /\ c1 \in DOMAIN calls
      BY <1>1, <2>2, <2>3, <2>5, <3>1 DEF Returned
    <3>3. c1 = b
      BY <3>2 DEF Apart, Solo, Of
    <3>4. d # e
      BY <2>4, <2>5, <3>2, <3>3 DEF Before
    <3> QED
      BY <2>2, <3>2, <3>3, <3>4
  <2>6. ASSUME NEW b \in DOMAIN calls', NEW d \in DOMAIN calls', Before(d, b)', d # b,
               NEW i \in DOMAIN list', list'[i] = Of(b)'
        PROVE  \/ dir'[Of(d)'] = 0
               \/ phase' = "watching" /\ Of(d)' \in link'
               \/ \E j \in DOMAIN list' : j < i /\ list'[j] = Of(d)'
    <3>1. b \in DOMAIN calls /\ d \in DOMAIN calls
      BY <2>5, <2>6
    <3>2. Before(d, b) /\ Of(b)' = Of(b) /\ Of(d)' = Of(d)
      BY <1>1, <2>6, <3>1
    <3> QED
      BY <2>3, <2>6, <3>1, <3>2 DEF InList
  <2> QED
    BY <2>6 DEF InList
<1>6. ASSUME NEW w \in Writers, WriteStruct(w) PROVE InList'
  BY <1>1, <1>4, <1>6, WrittenApart DEF WriteStruct, writersKeep
<1>7. ASSUME NEW w \in Writers, MakeLink(w) PROVE InList'
  <2>1. /\ wpc[w] = "link" /\ UNCHANGED <<calls, dir, phase>> /\ link' = link \cup {Name(w)}
        /\ list' = IF Name(w) \notin link /\ phase # "down" THEN Append(list, Name(w)) ELSE list
    BY <1>7 DEF MakeLink, writersKeep
  <2>2. CASE list' = list
    BY <1>1, <2>1, <2>2 DEF InList
  <2>3. CASE list' = Append(list, Name(w)) /\ phase # "down"
    <3>1. /\ Name(w) \in Names /\ Name(w) = Of(wcall[w]) /\ wcall[w] \in DOMAIN calls
          /\ \A d \in DOMAIN calls : Of(d) = Of(wcall[w]) => d = wcall[w]
      BY <1>1, <2>1, OtherName DEF Owned
    <3>2. PICK n \in Names : n = Name(w)
      BY <3>1
    <3>3. list' = Append(list, n)
      BY <2>3, <3>2
    <3>4. /\ DOMAIN list' = 1 .. Len(list) + 1 /\ list'[Len(list) + 1] = n
          /\ \A i \in DOMAIN list : list'[i] = list[i]
      BY <1>3, <3>3, Appended
    <3>5. \A i \in DOMAIN list' : i \in DOMAIN list \/ i = Len(list) + 1
      BY <1>3, <3>4
    <3>6. \A i \in DOMAIN list : i \in DOMAIN list' /\ i < Len(list) + 1
      BY <1>3, <3>4
    <3>7. ASSUME NEW c \in DOMAIN calls, NEW d \in DOMAIN calls, Before(d, c), d # c,
                 NEW i \in DOMAIN list', list'[i] = Of(c)
          PROVE  \/ dir[Of(d)] = 0
                 \/ phase = "watching" /\ Of(d) \in link'
                 \/ \E j \in DOMAIN list' : j < i /\ list'[j] = Of(d)
      <4>1. CASE i \in DOMAIN list
        <5>1. list[i] = Of(c)
          BY <3>4, <3>7, <4>1
        <5> QED
          BY <2>1, <3>4, <3>6, <3>7, <4>1, <5>1 DEF InList
      <4>2. CASE i = Len(list) + 1 /\ dir[Of(d)] # 0
        <5>1. Of(d) \in link
          BY <1>1, <3>7, <4>2, Ahead
        <5>2. CASE phase = "watching"
          BY <2>1, <5>1, <5>2
        <5>3. CASE phase = "up"
          <6>1. Of(d) \in Range(list)
            BY <5>1, <5>3 DEF Owned
          <6>2. PICK j \in DOMAIN list : list[j] = Of(d)
            BY <6>1 DEF Range
          <6> QED
            BY <3>4, <3>6, <4>2, <6>2
        <5> QED
          BY <1>2, <2>3, <5>2, <5>3 DEF CmddType
      <4> QED
        BY <3>5, <4>1, <4>2
    <3> QED
      BY <1>1, <2>1, <3>7 DEF InList
  <2> QED
    BY <2>1, <2>2, <2>3
<1>8. CASE Scan
  <2>1. PICK s \in Listings(link) : list' = s \o list
    BY <1>8 DEF Scan
  <2>2. s \in Seq(Names) /\ Range(s) = link
    BY ListingHolds DEF QueueType, FileType, Sizes
  <2>3. /\ Len(s) \in Nat /\ DOMAIN s = 1 .. Len(s) /\ DOMAIN list' = 1 .. Len(s) + Len(list)
        /\ \A i \in DOMAIN s : i \in DOMAIN list' /\ list'[i] = s[i]
    BY <1>3, <2>1, <2>2, Joined
  <2>4. \A i, j \in DOMAIN s : i < j => Earlier(s[i], s[j])
    BY DEF Listings
  <2>5. UNCHANGED <<calls, dir>>
    BY <1>8 DEF Scan, writers, files
  <2>6. ASSUME NEW c \in DOMAIN calls, NEW d \in DOMAIN calls, Before(d, c), d # c, dir[Of(d)] # 0,
               NEW i \in DOMAIN list', list'[i] = Of(c)
        PROVE  \E j \in DOMAIN list' : j < i /\ list'[j] = Of(d)
    <3>1. Of(d) \in link /\ Earlier(Of(d), Of(c))
      BY <1>1, <2>6, Ahead
    <3>2. PICK j \in DOMAIN s : s[j] = Of(d)
      BY <2>2, <3>1 DEF Range
    <3>3. ~Earlier(Of(c), Of(d)) /\ ~Earlier(Of(d), Of(d))
      <4>1. Of(c) \in Names /\ Of(d) \in Names
        BY <1>1, OneName
      <4> QED
        BY <3>1, <4>1, CommandAssumption DEF Earlier, Names, Times, Start
    <3>4. ASSUME i \in DOMAIN s PROVE j < i
      <4>1. s[i] = Of(c)
        BY <2>3, <2>6, <3>4
      <4>2. ~(i < j) /\ i # j
        BY <2>4, <3>1, <3>2, <3>3, <3>4, <4>1
      <4> QED
        BY <2>3, <3>4, <4>2
    <3>5. ASSUME i \notin DOMAIN s PROVE j < i
      BY <1>3, <2>3, <3>5
    <3> QED
      BY <2>3, <3>2, <3>4, <3>5
  <2> QED
    BY <1>1, <2>5, <2>6 DEF InList
<1>9. CASE list' = <<>> /\ calls' = calls
  <2>1. DOMAIN list' = {}
    BY <1>9
  <2> QED
    BY <2>1 DEF InList
<1>10. CASE RemoveFile
  <2>1. dir' = [dir EXCEPT ![Head(list)] = 0] /\ UNCHANGED <<calls, link, list, phase>>
    BY <1>10 DEF RemoveFile, cmddKeeps, writers
  <2>2. \A n \in Names : dir[n] = 0 => dir'[n] = 0
    BY <1>2, <2>1 DEF FileType
  <2>3. \A d \in Returned : Of(d) \in Names
    BY <1>1, OneName DEF Returned
  <2> QED
    BY <1>4, <2>1, <2>2, <2>3
<1>11. CASE RemoveLink
  <2>1. pc = "rmLink" /\ list' = Tail(list) /\ UNCHANGED <<calls, dir>>
    BY <1>11 DEF RemoveLink, cmddKeeps, writers
  <2>2. list # <<>> /\ phase = "up" /\ dir[list[1]] = 0
    BY <2>1, Takes DEF Taking, Owned
  <2>3. /\ DOMAIN list' = 1 .. Len(list) - 1
        /\ \A i \in DOMAIN list' : list'[i] = list[i + 1] /\ i + 1 \in DOMAIN list
    BY <1>3, <2>1, <2>2, Taken
  <2>4. ASSUME NEW c \in DOMAIN calls, NEW d \in DOMAIN calls, Before(d, c), d # c, dir[Of(d)] # 0,
               NEW i \in DOMAIN list', list'[i] = Of(c)
        PROVE  \E j \in DOMAIN list' : j < i /\ list'[j] = Of(d)
    <3>1. i + 1 \in DOMAIN list /\ list[i + 1] = Of(c)
      BY <2>3, <2>4
    <3>2. phase # "watching"
      BY <2>2
    <3>3. PICK j \in DOMAIN list : j < i + 1 /\ list[j] = Of(d)
      BY <2>4, <3>1, <3>2 DEF InList
    <3>4. j # 1
      BY <2>2, <2>4, <3>3
    <3>5. j - 1 \in DOMAIN list' /\ j - 1 < i /\ (j - 1) + 1 = j
      BY <1>3, <2>3, <3>3, <3>4
    <3>6. list'[j - 1] = Of(d)
      BY <2>3, <3>3, <3>5
    <3> QED
      BY <3>5, <3>6
  <2> QED
    BY <1>1, <2>1, <2>4 DEF InList
<1>12. CASE UNCHANGED <<calls, dir, link, list>> /\ (phase = "watching" => phase' = "watching")
  BY <1>4, <1>12
<1>13. CASE AddWatch
  BY <1>2, <1>9, <1>13 DEF AddWatch, CmddType, writers
<1>14. CASE Die
  BY <1>9, <1>14 DEF Die, writers
<1> QED
  BY <1>5, <1>6, <1>7, <1>8, <1>10, <1>11, <1>12, <1>13, <1>14
  DEF Next, WriteCommandAndLink, Cmdd, Tick, Look, CheckForNewCommand, FillCommand, Skip, Execute,
      cmddKeeps, writersKeep, writers, files, vars

-----------------------------------------------------------------------------
(* The order of the batch and of what has been obeyed *)

\* Nothing is added to the batch, no file of a call that has returned comes
\* back, and a file that has been read goes.
Calm ==
    /\ Live' \subseteq Live /\ \A k \in Live' : slots'[k] = slots[k]
    /\ \A d \in Returned : dir[Of(d)] = 0 => dir'[Of(d)] = 0
    /\ \/ pc = "rmFile" /\ pc' = "rmFile" /\ upto' = upto /\ Head(list)' = Head(list)
       \/ pc' # "rmFile" /\ (pc = "rmFile" => dir'[Head(list)] = 0 \/ Live' = {})

LEMMA LiveIn == QueueType => \A k \in Live : k \in Nat /\ slots[k] \in {0} \cup DOMAIN calls
<1> SUFFICES ASSUME CmddType, NEW k \in Live PROVE k \in Nat /\ slots[k] \in {0} \cup DOMAIN calls
  BY DEF QueueType
<1>1. batch \in Nat /\ batch <= 2 * MaxWrites /\ upto \in 0 .. batch /\ MaxWrites \in Nat
  BY CommandAssumption DEF CmddType
<1>2. CASE pc = "fill"
  <2>1. k \in 1 .. upto - 1
    BY <1>2 DEF Live
  <2> QED
    BY <1>1, <2>1 DEF CmddType
<1>3. CASE pc \in {"rmFile", "rmLink"}
  <2>1. k \in 1 .. upto
    BY <1>3 DEF Live
  <2> QED
    BY <1>1, <2>1 DEF CmddType
<1>4. CASE pc = "execute"
  <2>1. k \in upto .. batch /\ upto > 0
    BY <1>4 DEF Live, CmddType
  <2> QED
    BY <1>1, <2>1 DEF CmddType
<1>5. CASE pc = "idle"
  BY <1>5, LiveEmpty DEF Taking
<1> QED
  BY <1>2, <1>3, <1>4, <1>5 DEF CmddType, Taking

\* Every step but the filling of a slot is calm.
LEMMA Calms == QueueType /\ Apart' /\ Owned /\ [Next]_vars => Calm \/ FillCommand
<1> SUFFICES ASSUME QueueType, Apart', Owned, [Next]_vars PROVE Calm \/ FillCommand
  OBVIOUS
<1>1. Apart
  BY Kept
<1>2. WriterType /\ FileType /\ CmddType
  BY DEF QueueType
<1>3. \A d \in Returned : Of(d) \in Names
  BY <1>1, OneName DEF Returned
<1>4. ASSUME UNCHANGED <<pc, batch, upto, slots>>,
             pc = "rmFile" => Head(list)' = Head(list),
             \A d \in Returned : dir'[Of(d)] = dir[Of(d)]
      PROVE  Calm
  BY <1>4 DEF Calm, Live
<1>5. ASSUME NEW w \in Writers, WriteStruct(w) PROVE Calm
  BY <1>1, <1>4, <1>5, WrittenApart DEF WriteStruct, writersKeep, reading
<1>6. ASSUME NEW w \in Writers, MakeLink(w) PROVE Calm
  <2>1. /\ wpc[w] # "idle" /\ UNCHANGED <<pc, batch, upto, slots, dir>>
        /\ list' = list \/ list' = Append(list, Name(w))
    BY <1>6 DEF MakeLink, writersKeep, reading
  <2>2. ASSUME pc = "rmFile" PROVE Head(list)' = Head(list)
    <3>1. Name(w) \in Names
      BY <1>2, <2>1, NameType
    <3>2. list \in Seq(Names) /\ list # <<>>
      BY <2>2, Takes DEF Taking
    <3> QED
      BY <2>1, <3>1, <3>2, AppendProperties, EmptySeq, LenProperties
  <2> QED
    BY <1>4, <2>1, <2>2
<1>7. CASE CheckForNewCommand \/ Die
  <2>1. Live' = {} /\ pc' # "rmFile" /\ dir' = dir
    BY <1>7, LiveEmpty DEF CheckForNewCommand, Die, Live, Taking, files
  <2> QED
    BY <2>1 DEF Calm
<1>8. CASE RemoveFile
  <2>1. /\ pc = "rmFile" /\ pc' = "rmLink" /\ dir' = [dir EXCEPT ![Head(list)] = 0] /\ slots' = slots
    BY <1>8 DEF RemoveFile
  <2>2. Head(list) \in Names
    BY <2>1, Takes DEF Taking
  <2>3. dir'[Head(list)] = 0 /\ \A n \in Names : dir[n] = 0 => dir'[n] = 0
    BY <1>2, <2>1, <2>2 DEF FileType
  <2> QED
    BY <1>2, <1>3, <1>8, <2>1, <2>3, LiveStays DEF Calm
<1>9. CASE RemoveLink
  <2>1. /\ pc = "rmLink" /\ pc' # "rmFile" /\ dir' = dir /\ slots' = slots
    BY <1>9 DEF RemoveLink
  <2> QED
    BY <1>2, <1>9, <2>1, LiveStays DEF Calm
<1>10. CASE Skip \/ Execute
  <2>1. /\ pc = "execute" /\ pc' # "rmFile" /\ dir' = dir /\ slots' = slots /\ NextOfBatch /\ batch' = batch
    BY <1>10 DEF Skip, Execute, NextOfBatch, files
  <2> QED
    BY <1>2, <2>1, LiveShrinks DEF Calm
<1>11. CASE Scan
  <2>1. pc = "idle" /\ UNCHANGED <<pc, batch, upto, slots, dir>>
    BY <1>2, <1>11 DEF Scan, CmddType, files, reading
  <2> QED
    BY <1>4, <2>1
<1>12. CASE UNCHANGED <<pc, batch, upto, slots, list, dir>>
  BY <1>4, <1>12
<1> QED
  BY <1>5, <1>6, <1>7, <1>8, <1>9, <1>10, <1>11, <1>12
  DEF Next, WriteCommandAndLink, Cmdd, Tick, Send, Look, AddWatch, writersKeep, reading, files, vars

\* What is filled is the file of the first link, or nothing.
LEMMA Filled ==
    ASSUME QueueType, Apart, Owned, Unstale, FillCommand
    PROVE  /\ \/ slots'[upto] = 0
              \/ \E c \in Returned : slots'[upto] = c /\ Head(list) = Of(c) /\ dir[Of(c)] = c
           /\ \A k \in Live : slots'[k] = slots[k]
           /\ UNCHANGED <<calls, wcall, dir, list>> /\ pc = "fill" /\ pc' = "rmFile" /\ upto' = upto
<1>1. /\ pc = "fill" /\ pc' = "rmFile"
      /\ slots' = IF dir[Head(list)] # 0 THEN [slots EXCEPT ![upto] = dir[Head(list)]] ELSE slots
      /\ UNCHANGED <<calls, wcall, upto, dir, list>>
  BY DEF FillCommand, cmddKeeps, files, writers
<1>2. /\ Head(list) = list[1] /\ list[1] \in Names /\ 1 \in DOMAIN list /\ list[1] \in Range(list)
      /\ upto \in 1 .. 2 * MaxWrites /\ upto \in Nat /\ batch \in Nat /\ upto <= batch
  BY <1>1, Takes DEF Taking
<1>3. slots \in [1 .. 2 * MaxWrites -> {0} \cup DOMAIN calls] /\ dir \in [Names -> {0} \cup DOMAIN calls]
  BY DEF QueueType, CmddType, FileType
<1>4. \A k \in Live : slots'[k] = slots[k]
  BY <1>1, <1>3, LiveFills DEF QueueType
<1>5. CASE dir[list[1]] = 0
  <2>1. Emptied(1)
    BY <1>2, <1>5 DEF Unstale, Fresh
  <2>2. slots[upto + 1 - 1] = 0 /\ upto + 1 - 1 = upto
    BY <1>1, <1>2, <2>1 DEF Emptied
  <2> QED
    BY <1>1, <1>2, <1>4, <1>5, <2>2
<1>6. CASE dir[list[1]] # 0
  <2>1. dir[list[1]] \in DOMAIN calls /\ list[1] = Of(dir[list[1]])
    BY <1>2, <1>3, <1>6 DEF Owned
  <2>2. PICK c \in Returned : list[1] = Of(c)
    BY <1>2 DEF Owned
  <2>3. c = dir[list[1]]
    BY <2>1, <2>2, OneName DEF Returned
  <2>4. slots'[upto] = c
    BY <1>1, <1>2, <1>3, <1>6, <2>3
  <2> QED
    BY <1>1, <1>2, <1>4, <2>2, <2>3, <2>4
<1> QED
  BY <1>5, <1>6

\* Nobody begins a call before one that has been sent.
LEMMA NoneEarlier ==
    ASSUME QueueType, [Next]_vars, NEW c \in DOMAIN calls, NEW d \in DOMAIN calls', Before(d, c)'
    PROVE  d \in DOMAIN calls /\ Before(d, c) /\ Of(d)' = Of(d)
<1>1. WriterType /\ WriterType' /\ Grown
  BY WriterStep, Grows DEF QueueType
<1>2. Len(calls) \in Nat /\ DOMAIN calls = 1 .. Len(calls)
  BY <1>1, Numbered
<1>3. Len(calls') \in Nat /\ DOMAIN calls' = 1 .. Len(calls')
  BY <1>1, LenProperties DEF WriterType
<1>4. d = c \/ d < c
  BY DEF Before
<1>5. d \in DOMAIN calls
  BY <1>2, <1>3, <1>4
<1> QED
  BY <1>5, Kept

\* Every step keeps the batch in order.
LEMMA InSlotsStep ==
    QueueType /\ Sent /\ Apart' /\ Owned /\ Unstale /\ InList /\ InSlots /\ [Next]_vars => InSlots'
<1> SUFFICES ASSUME QueueType, Sent, Apart', Owned, Unstale, InList, InSlots, [Next]_vars,
                    NEW c \in DOMAIN calls', NEW k \in Live', slots'[k] = c
             PROVE  /\ c \in Returned'
                    /\ pc' = "rmFile" /\ k = upto' => Head(list)' = Of(c)'
                    /\ \A d \in DOMAIN calls' : Before(d, c)' =>
                          /\ dir'[Of(d)'] = 0 \/ (d = c /\ JustRead(k)')
                          /\ \A m \in Live' : slots'[m] = d => m <= k
  BY DEF InSlots
<1>1. /\ Apart /\ Grown /\ \A b \in DOMAIN calls : Of(b)' = Of(b)
  BY Kept, Grows
<1>2. WriterType /\ CmddType /\ 0 \notin DOMAIN calls
  BY Numbered DEF QueueType
<1>3. c # 0
  <2>1. QueueType'
    BY QueueStep
  <2>2. WriterType'
    BY <2>1 DEF QueueType
  <2>3. calls' \in Seq(Call)'
    BY <2>2 DEF WriterType
  <2> QED
    BY <2>3, LenProperties
<1>4. \A j \in Live : j \in Nat /\ slots[j] \in {0} \cup DOMAIN calls
  BY LiveIn
<1>5. CASE Calm
  <2>1. k \in Live /\ slots[k] = c /\ c \in DOMAIN calls /\ Of(c)' = Of(c)
    BY <1>1, <1>3, <1>4, <1>5 DEF Calm
  <2>2. /\ c \in Returned
        /\ pc = "rmFile" /\ k = upto => Head(list) = Of(c)
    BY <2>1 DEF InSlots
  <2>3. ASSUME NEW d \in DOMAIN calls', Before(d, c)'
        PROVE  /\ dir'[Of(d)'] = 0 \/ (d = c /\ JustRead(k)')
               /\ \A m \in Live' : slots'[m] = d => m <= k
    <3>1. d \in DOMAIN calls /\ Before(d, c) /\ Of(d)' = Of(d)
      BY <2>1, <2>3, NoneEarlier
    <3>2. /\ dir[Of(d)] = 0 \/ (d = c /\ JustRead(k))
          /\ \A m \in Live : slots[m] = d => m <= k
      BY <2>1, <3>1 DEF InSlots
    <3>3. d \in Returned
      BY <1>1, <2>1, <2>2, <3>1, SentFirst
    <3>4. CASE dir[Of(d)] = 0
      BY <1>5, <3>1, <3>2, <3>3, <3>4 DEF Calm
    <3>5. CASE d = c /\ pc = "rmFile" /\ k = upto
      BY <1>5, <2>1, <2>2, <3>1, <3>2, <3>5 DEF Calm, JustRead
    <3> QED
      BY <3>2, <3>4, <3>5 DEF JustRead
  <2> QED
    BY <1>1, <1>5, <2>1, <2>2, <2>3 DEF Calm, Grown
<1>6. CASE FillCommand
  <2>1. /\ upto \in Nat /\ Live' = Live \cup {upto} /\ \A j \in Live : j < upto
        /\ upto \notin Live
    BY <1>2, <1>6, LiveFills
  <2>2. /\ \/ slots'[upto] = 0
           \/ \E b \in Returned : slots'[upto] = b /\ Head(list) = Of(b) /\ dir[Of(b)] = b
        /\ \A j \in Live : slots'[j] = slots[j]
        /\ UNCHANGED <<calls, wcall, dir, list>> /\ pc = "fill" /\ pc' = "rmFile" /\ upto' = upto
    BY <1>1, <1>6, Filled
  <2>3. Returned' = Returned /\ c \in DOMAIN calls
    BY <2>2, SameCalls
  <2>4. ASSUME slots'[upto] # 0, NEW d \in DOMAIN calls, dir[Of(d)] = 0 PROVE slots'[upto] # d
    BY <1>2, <2>2, <2>4 DEF Returned
  <2>5. ASSUME NEW d \in DOMAIN calls', Before(d, c)'
        PROVE  d \in DOMAIN calls /\ Before(d, c) /\ Of(d)' = Of(d)
    BY <2>3, <2>5, NoneEarlier
  <2>6. CASE k \in Live
    <3>1. slots[k] = c /\ k # upto
      BY <2>1, <2>2, <2>6
    <3>2. c \in Returned
      BY <2>3, <2>6, <3>1 DEF InSlots
    <3>3. ASSUME NEW d \in DOMAIN calls, Before(d, c)
          PROVE  dir[Of(d)] = 0 /\ \A m \in Live' : slots'[m] = d => m <= k
      <4>1. dir[Of(d)] = 0 /\ \A m \in Live : slots[m] = d => m <= k
        BY <2>2, <2>3, <2>6, <3>1, <3>3 DEF InSlots, JustRead
      <4>2. slots'[upto] # d
        BY <1>2, <2>4, <3>3, <4>1
      <4> QED
        BY <2>1, <2>2, <4>1, <4>2
    <3> QED
      BY <2>2, <2>3, <2>5, <3>1, <3>2, <3>3
  <2>7. CASE k = upto
    <3>1. c \in Returned /\ Head(list) = Of(c)
      BY <1>3, <2>2, <2>7
    <3>2. /\ Head(list) = list[1] /\ 1 \in DOMAIN list /\ DOMAIN list \subseteq Nat \ {0} /\ phase = "up"
      <4>1. list \in Seq(Names) /\ Head(list) = list[1] /\ 1 \in DOMAIN list /\ phase = "up"
        BY <2>2, Takes DEF Taking
      <4> QED
        BY <4>1, LenProperties
    <3>3. ASSUME NEW d \in DOMAIN calls, Before(d, c), d # c PROVE dir[Of(d)] = 0
      <4>1. \A j \in DOMAIN list : ~(j < 1)
        BY <3>2
      <4> QED
        BY <2>3, <3>1, <3>2, <3>3, <4>1 DEF InList
    <3>4. \A m \in Live' : m <= k
      BY <2>1, <2>7, <1>4
    <3>5. JustRead(k)'
      BY <2>2, <2>7 DEF JustRead
    <3>6. Head(list)' = Of(c)'
      BY <1>1, <2>2, <2>3, <3>1
    <3> QED
      BY <2>2, <2>3, <2>5, <3>1, <3>3, <3>4, <3>5, <3>6
  <2> QED
    BY <2>1, <2>6, <2>7
<1> QED
  BY <1>5, <1>6, Calms

\* Executing takes the command of a slot that holds one.
LEMMA Executed ==
    ASSUME QueueType, Execute
    PROVE  /\ slots[upto] \in DOMAIN calls /\ upto \in Live /\ done' = Append(done, slots[upto])
           /\ \A m \in Live' : upto < m /\ m \in Live
           /\ UNCHANGED <<calls, wcall, dir, slots>> /\ pc = "execute"
<1>1. /\ pc = "execute" /\ NextOfBatch /\ slots[upto] # 0 /\ done' = Append(done, slots[upto])
      /\ UNCHANGED <<calls, wcall, dir, slots, batch>>
  BY DEF Execute, CheckCommand, Content, cmddKeeps, writers, files
<1>2. upto \in Live /\ \A m \in Live' : upto < m /\ m \in Live
  BY <1>1, LiveShrinks DEF QueueType
<1>3. slots[upto] \in DOMAIN calls
  BY <1>1, <1>2, LiveIn
<1> QED
  BY <1>1, <1>2, <1>3

\* Nothing else is obeyed.
LEMMA DoneKept == [Next]_vars => Execute \/ done' = done
  BY DEF Next, WriteCommandAndLink, Cmdd, Tick, Send, Look, WriteStruct, MakeLink, AddWatch, Scan, Die,
         CheckForNewCommand, FillCommand, RemoveFile, RemoveLink, Skip, writersKeep, history, vars

\* Every step keeps what has been obeyed behind all that is there.
LEMMA InDoneStep ==
    QueueType /\ Sent /\ Apart' /\ Owned /\ Unstale /\ InSlots /\ InDone /\ [Next]_vars => InDone'
<1> SUFFICES ASSUME QueueType, Sent, Apart', Owned, Unstale, InSlots, InDone, [Next]_vars,
                    NEW c \in DOMAIN calls', NEW i \in DOMAIN done', done'[i] = c
             PROVE  /\ c \in Returned'
                    /\ \A d \in DOMAIN calls' : Before(d, c)' =>
                          dir'[Of(d)'] = 0 /\ \A m \in Live' : slots'[m] # d
  BY DEF InDone
<1>1. Apart /\ Grown
  BY Kept, Grows
<1>2. WriterType /\ CmddType /\ 0 \notin DOMAIN calls /\ done \in Seq(DOMAIN calls)
  BY Numbered DEF QueueType, CmddType
<1>3. \A j \in DOMAIN done : done[j] \in DOMAIN calls
  BY <1>2, LenProperties, ElementOfSeq
<1>4. CASE Execute
  <2> DEFINE b == slots[upto]
  <2>1. /\ b \in DOMAIN calls /\ upto \in Live /\ done' = Append(done, b)
        /\ \A m \in Live' : upto < m /\ m \in Live
        /\ UNCHANGED <<calls, wcall, dir, slots>> /\ pc = "execute"
    BY <1>4, Executed
  <2>2. Returned' = Returned /\ c \in DOMAIN calls
    BY <2>1, SameCalls
  <2>3. c = b \/ (i \in DOMAIN done /\ done[i] = c)
    <3>1. /\ Len(done) \in Nat /\ DOMAIN done = 1 .. Len(done) /\ DOMAIN done' = 1 .. Len(done) + 1
          /\ \A j \in DOMAIN done : done'[j] = done[j]
          /\ done'[Len(done) + 1] = b
      BY <1>2, <2>1, Appended
    <3> QED
      BY <3>1
  <2>4. CASE c = b
    <3>1. c \in Returned
      BY <2>1, <2>4 DEF InSlots
    <3>2. ASSUME NEW d \in DOMAIN calls, Before(d, c)
          PROVE  dir[Of(d)] = 0 /\ \A m \in Live' : slots[m] # d
      <4>1. dir[Of(d)] = 0 /\ \A m \in Live : slots[m] = d => m <= upto
        BY <2>1, <2>4, <3>2 DEF InSlots, JustRead
      <4>2. \A m \in Live : m \in Nat
        BY LiveIn
      <4> QED
        BY <2>1, <4>1, <4>2
    <3> QED
      BY <2>1, <2>2, <3>1, <3>2, NoneEarlier
  <2>5. CASE i \in DOMAIN done /\ done[i] = c
    <3>1. c \in Returned /\ \A d \in DOMAIN calls : Before(d, c) => dir[Of(d)] = 0 /\ \A m \in Live : slots[m] # d
      BY <2>2, <2>5 DEF InDone
    <3> QED
      BY <2>1, <2>2, <3>1, NoneEarlier
  <2> QED
    BY <2>3, <2>4, <2>5
<1>5. CASE done' = done
  <2>1. c \in DOMAIN calls /\ i \in DOMAIN done /\ done[i] = c
    BY <1>3, <1>5
  <2>2. c \in Returned /\ \A d \in DOMAIN calls : Before(d, c) => dir[Of(d)] = 0 /\ \A m \in Live : slots[m] # d
    BY <2>1 DEF InDone
  <2>3. c \in Returned'
    BY <1>1, <2>2 DEF Grown
  <2>4. ASSUME NEW d \in DOMAIN calls', Before(d, c)'
        PROVE  dir'[Of(d)'] = 0 /\ \A m \in Live' : slots'[m] # d
    <3>1. d \in DOMAIN calls /\ Before(d, c) /\ Of(d)' = Of(d)
      BY <2>1, <2>4, NoneEarlier
    <3>2. dir[Of(d)] = 0 /\ \A m \in Live : slots[m] # d
      BY <2>2, <3>1
    <3>3. d \in Returned
      BY <1>1, <2>1, <2>2, <3>1, SentFirst
    <3>4. CASE Calm
      BY <3>1, <3>2, <3>3, <3>4 DEF Calm
    <3>5. CASE FillCommand
      <4>1. /\ Live' = Live \cup {upto}
        BY <1>2, <3>5, LiveFills
      <4>2. /\ slots'[upto] = 0 \/ (\E b \in Returned : slots'[upto] = b /\ dir[Of(b)] = b)
            /\ \A j \in Live : slots'[j] = slots[j]
            /\ dir' = dir
        BY <1>1, <3>5, Filled
      <4>3. slots'[upto] # d
        BY <1>2, <3>1, <3>2, <4>2
      <4> QED
        BY <3>1, <3>2, <4>1, <4>2, <4>3
    <3> QED
      BY <3>4, <3>5, Calms
  <2> QED
    BY <2>3, <2>4
<1> QED
  BY <1>4, <1>5, DoneKept

-----------------------------------------------------------------------------
(* Theorems *)

\* Every step obeys what has not been obeyed yet, ...
LEMMA OnceStep ==
    QueueType /\ Apart' /\ InDone /\ ObeyedOnce /\ [Next]_vars => ObeyedOnce'
<1> SUFFICES ASSUME QueueType, Apart', InDone, ObeyedOnce, [Next]_vars,
                    NEW i \in DOMAIN done', NEW j \in DOMAIN done', i # j
             PROVE  done'[i] # done'[j]
  BY DEF ObeyedOnce
<1>1. Apart /\ done \in Seq(DOMAIN calls)
  BY Kept DEF QueueType, CmddType
<1>2. \A a, b \in DOMAIN done : a # b => done[a] # done[b]
  BY <1>1 DEF ObeyedOnce
<1>3. CASE Execute
  <2> DEFINE c == slots[upto]
  <2>1. c \in DOMAIN calls /\ upto \in Live /\ done' = Append(done, c)
    BY <1>3, Executed
  <2>2. \A a \in DOMAIN done : done[a] # c
    BY <2>1 DEF InDone, Before
  <2>3. /\ Len(done) \in Nat /\ DOMAIN done = 1 .. Len(done) /\ DOMAIN done' = 1 .. Len(done) + 1
        /\ \A a \in DOMAIN done : done'[a] = done[a]
        /\ done'[Len(done) + 1] = c
    BY <1>1, <2>1, Appended
  <2>4. \A a \in DOMAIN done' : a \in DOMAIN done \/ a = Len(done) + 1
    BY <2>3
  <2> QED
    BY <1>2, <2>2, <2>3, <2>4
<1> QED
  BY <1>2, <1>3, DoneKept

\* ... and nothing that should have come first.
LEMMA InOrderStep ==
    QueueType /\ Apart' /\ InDone /\ ObeyedInOrder /\ [Next]_vars => ObeyedInOrder'
<1> SUFFICES ASSUME QueueType, Apart', InDone, ObeyedInOrder, [Next]_vars,
                    NEW i \in DOMAIN done', NEW j \in DOMAIN done', i < j, done'[j] < done'[i]
             PROVE  done'[j] \in calls'[done'[i]].open
  BY DEF ObeyedInOrder
<1>1. Apart /\ Grown /\ done \in Seq(DOMAIN calls)
  BY Kept, Grows DEF QueueType, CmddType
<1>2. \A a \in DOMAIN done : done[a] \in DOMAIN calls
  BY <1>1, LenProperties, ElementOfSeq
<1>3. \A a, b \in DOMAIN done : a < b /\ done[b] < done[a] => done[b] \in calls'[done[a]].open
  BY <1>1, <1>2 DEF ObeyedInOrder, Grown
<1>4. CASE Execute
  <2> DEFINE c == slots[upto]
  <2>1. c \in DOMAIN calls /\ upto \in Live /\ done' = Append(done, c) /\ calls' = calls
    BY <1>4, Executed
  <2>2. ASSUME NEW a \in DOMAIN done, c < done[a] PROVE c \in calls[done[a]].open
    <3>1. ~Before(c, done[a])
      BY <1>2, <2>1 DEF InDone
    <3> QED
      BY <2>2, <3>1 DEF Before
  <2>3. /\ Len(done) \in Nat /\ DOMAIN done = 1 .. Len(done) /\ DOMAIN done' = 1 .. Len(done) + 1
        /\ \A a \in DOMAIN done : done'[a] = done[a]
        /\ done'[Len(done) + 1] = c
    BY <1>1, <2>1, Appended
  <2>4. i \in DOMAIN done /\ (j \in DOMAIN done \/ j = Len(done) + 1)
    BY <2>3
  <2> HIDE DEF c
  <2> QED
    BY <1>3, <2>1, <2>2, <2>3, <2>4
<1> QED
  BY <1>3, <1>4, DoneKept

LEMMA CommandStart == Init => CommandInv
<1> SUFFICES ASSUME Init PROVE CommandInv
  OBVIOUS
<1>1. /\ calls = <<>> /\ DOMAIN calls = {} /\ list = <<>> /\ DOMAIN list = {} /\ done = <<>> /\ DOMAIN done = {}
      /\ Range(list) = {} /\ link = {}
  BY DEF Init, Range
<1>2. Returned = {}
  BY <1>1 DEF Returned
<1>3. Sent
  BY <1>1 DEF Sent
<1>4. Owned
  BY <1>1, <1>2 DEF Init, Owned
<1>5. Unstale
  BY <1>1 DEF Init, Unstale, Zeroed
<1>6. InList /\ InSlots /\ InDone /\ ObeyedOnce /\ ObeyedInOrder
  BY <1>1 DEF InList, InSlots, InDone, ObeyedOnce, ObeyedInOrder
<1> QED
  BY <1>3, <1>4, <1>5, <1>6, QueueStart DEF CommandInv, ApartInv

LEMMA CommandStep == CommandInv /\ [Next]_vars => CommandInv'
<1> SUFFICES ASSUME CommandInv, [Next]_vars PROVE CommandInv'
  OBVIOUS
<1>1. QueueType /\ Sent /\ QueueType' /\ Sent'
  BY QueueStep, SentStep DEF CommandInv
<1>2. ASSUME Apart'
      PROVE  Owned' /\ Unstale' /\ InList' /\ InSlots' /\ InDone' /\ ObeyedOnce' /\ ObeyedInOrder'
  <2>1. Owned /\ Unstale /\ InList /\ InSlots /\ InDone /\ ObeyedOnce /\ ObeyedInOrder
    BY <1>1, <1>2, Kept DEF CommandInv, ApartInv
  <2>2. Owned' /\ Unstale'
    BY <1>1, <1>2, <2>1, OwnedStep, UnstaleStep
  <2>3. InList' /\ InSlots'
    BY <1>1, <1>2, <2>1, InListStep, InSlotsStep
  <2>4. InDone' /\ ObeyedOnce' /\ ObeyedInOrder'
    BY <1>1, <1>2, <2>1, InDoneStep, OnceStep, InOrderStep
  <2> QED
    BY <2>2, <2>3, <2>4
<1> QED
  BY <1>1, <1>2 DEF CommandInv, ApartInv

LEMMA CommandAlways == Spec => []CommandInv
  BY CommandStart, CommandStep, PTL DEF Spec

\* The type of the queue: what Cmdd counts never passes the number of slots,
\* since each call makes a link at most and a scan offers it once more.
THEOREM Typing == Spec => []TypeOK
<1>1. CommandInv => TypeOK
  BY QueueTypeOK DEF CommandInv
<1> QED
  BY <1>1, CommandAlways, PTL

\* A command sent in a second of its own is obeyed once at most, whenever Cmdd
\* dies or starts: when it is executed, its file is gone, and no other slot of
\* the batch holds it.
THEOREM Once == Spec => []ObeyedOnce
<1>1. CommandInv => ObeyedOnce
  BY DEF CommandInv, ApartInv, ObeyedOnce
<1> QED
  BY <1>1, CommandAlways, PTL

\* Of two commands in seconds of their own the one whose writer had returned
\* before the other began is obeyed first: its link is before the other's in
\* the list, its slot in the batch, and neither is there when it is gone.
THEOREM InOrder == Spec => []ObeyedInOrder
<1>1. CommandInv => ObeyedInOrder
  BY DEF CommandInv, ApartInv, ObeyedInOrder
<1> QED
  BY <1>1, CommandAlways, PTL

=============================================================================
