------------------------- MODULE TelemHandoff_proof -------------------------
(***************************************************************************)
(* The safety of the event telemetry hand-off for any set of events, any   *)
(* number of .sipd senders and any of them killed at any time: HandoffInv  *)
(* is inductive, and with it every step is a step of the abstract queue.   *)
(* While no .sipd sender is killed, its touch files are all held.          *)
(***************************************************************************)
EXTENDS TelemHandoff, Functions, TLAPS

LEMMA Members ==
    /\ "LOSd" \in Readers
    /\ Sips \subseteq Readers
    /\ Readers \subseteq Procs
    /\ "Monitord" \in Procs \ Readers
    /\ \A r \in Readers : r = "LOSd" \/ r \in Sips
    /\ "LOSd" \notin Sips
  BY HandoffAssumption DEF Readers, Procs

LEMMA FileChange ==
    ASSUME NEW F \in [Events -> SUBSET Files], NEW e \in Events,
           NEW S \in SUBSET Files
    PROVE  [F EXCEPT ![e] = S] \in [Events -> SUBSET Files]
  OBVIOUS

\* feed and sent are tables of counters.
LEMMA CounterChange ==
    ASSUME NEW C \in [Readers -> [Events -> Nat]],
           NEW r \in Readers, NEW e \in Events, NEW n \in Nat
    PROVE  /\ [C EXCEPT ![r][e] = n] \in [Readers -> [Events -> Nat]]
           /\ [C EXCEPT ![r][e] = n][r][e] = n
           /\ \A q \in Readers, d \in Events :
                 q # r \/ d # e => [C EXCEPT ![r][e] = n][q][d] = C[q][d]
  <1>1. C[r] \in [Events -> Nat]
    OBVIOUS
  <1>2. [C[r] EXCEPT ![e] = n] \in [Events -> Nat]
    BY <1>1
  <1>3. [C EXCEPT ![r][e] = n] = [C EXCEPT ![r] = [C[r] EXCEPT ![e] = n]]
    OBVIOUS
  <1> QED BY <1>1, <1>2, <1>3

\* Where every process stands after an Unlinking.
LEMMA UnlinkingType ==
    ASSUME TypeOK, NEW p \in Procs, NEW s \in Seq(Files), Unlinking(p, s)
    PROVE  /\ pc' \in [Procs -> Labels]
           /\ todo' \in [Procs -> Seq(Files)]
  BY DEF TypeOK, Unlinking, Labels

LEMMA TailOfFiles ==
    ASSUME NEW s \in Seq(Files), s # <<>>
    PROVE  Tail(s) \in Seq(Files) /\ Head(s) \in Files
  OBVIOUS

LEMMA GotoType ==
    ASSUME TypeOK, NEW p \in Procs, NEW l \in Labels, Goto(p, l)
    PROVE  TypeOK'
  BY DEF TypeOK, Goto

LEMMA InitType == Init => TypeOK
  <1> SUFFICES ASSUME Init PROVE TypeOK
    OBVIOUS
  <1>1. (CHOOSE e \in Events : TRUE) \in Events
    BY HandoffAssumption
  <1>2. cur \in [Procs -> Events]
    BY <1>1 DEF Init
  <1> QED BY <1>2 DEF Init, TypeOK, Stages, Labels, Files

LEMMA CurrentType ==
    ASSUME TypeOK, NEW p \in Procs
    PROVE  cur[p] \in Events /\ fs[cur[p]] \in SUBSET Files
  BY DEF TypeOK

LEMMA TouchFileType ==
    ASSUME TypeOK, NEW p \in Procs, NEW f \in Files, TouchFile(p, f)
    PROVE  TypeOK'
  <1>1. fs[cur[p]] \cup {f} \in SUBSET Files
    BY CurrentType
  <1>2. fs' \in [Events -> SUBSET Files]
    BY <1>1, CurrentType, FileChange DEF TypeOK, TouchFile
  <1> QED BY <1>2 DEF TypeOK, TouchFile, Labels

LEMMA TakeLinkType ==
    ASSUME TypeOK, NEW p \in Procs, TakeLink(p)
    PROVE  TypeOK'
  <1>1. fs[cur[p]] \ {"link"} \in SUBSET Files
    BY CurrentType
  <1>2. fs' \in [Events -> SUBSET Files]
    BY <1>1, CurrentType, FileChange DEF TypeOK, TakeLink
  <1> QED BY <1>2 DEF TypeOK, TakeLink, Labels

LEMMA FillHeaderType ==
    ASSUME TypeOK, NEW p \in Procs, NEW s \in Seq(Files), FillHeader(p, s)
    PROVE  TypeOK'
  BY GotoType, UnlinkingType DEF TypeOK, FillHeader, Labels

LEMMA SendBodyType ==
    ASSUME TypeOK, NEW p \in Readers, NEW s \in Seq(Files), SendBody(p, s)
    PROVE  TypeOK'
  <1>0. p \in Procs /\ cur[p] \in Events
    BY Members, CurrentType
  <1>1. pc' \in [Procs -> Labels] /\ todo' \in [Procs -> Seq(Files)]
    BY <1>0, UnlinkingType DEF TypeOK, SendBody, Labels
  <1>2. sent[p][cur[p]] + 1 \in Nat
    <2>1. sent[p] \in [Events -> Nat]
      BY DEF TypeOK
    <2> QED BY <1>0, <2>1, CurrentType
  <1>3. sent' = sent \/ sent' = [sent EXCEPT ![p][cur[p]] = sent[p][cur[p]] + 1]
    BY DEF SendBody
  <1>4. sent' \in [Readers -> [Events -> Nat]]
    <2>1. sent \in [Readers -> [Events -> Nat]]
      BY DEF TypeOK
    <2>2. [sent EXCEPT ![p][cur[p]] = sent[p][cur[p]] + 1]
              \in [Readers -> [Events -> Nat]]
      BY <1>0, <1>2, <2>1, CounterChange, Zenon
    <2> QED BY <1>3, <2>1, <2>2
  <1> QED BY <1>1, <1>4 DEF TypeOK, SendBody

LEMMA UnlinkNextType ==
    ASSUME TypeOK, NEW p \in Procs, UnlinkNext(p)
    PROVE  TypeOK'
  <1>1. todo[p] \in Seq(Files) /\ todo[p] # <<>>
    BY DEF TypeOK, UnlinkNext
  <1>2. pc' \in [Procs -> Labels] /\ todo' \in [Procs -> Seq(Files)]
    BY <1>1, TailOfFiles, UnlinkingType DEF UnlinkNext
  <1>3. fs[cur[p]] \ {Head(todo[p])} \in SUBSET Files
    BY CurrentType
  <1>4. fs' \in [Events -> SUBSET Files]
    BY <1>3, CurrentType, FileChange DEF TypeOK, UnlinkNext
  <1> QED BY <1>2, <1>4 DEF TypeOK, UnlinkNext

LEMMA NextType == TypeOK /\ [Next]_vars => TypeOK'
  <1> SUFFICES ASSUME TypeOK, [Next]_vars PROVE TypeOK'
    OBVIOUS
  <1>1. CASE Archived
    <2>1. PICK e \in Events : WriteOutputForTelem(e)
      BY <1>1 DEF Archived
    <2>2. \A f \in Files : fs[e] \cup {f} \in SUBSET Files
      BY DEF TypeOK
    <2>3. fs' \in [Events -> SUBSET Files]
      <3>1. \E f \in Files : fs' = [fs EXCEPT ![e] = fs[e] \cup {f}]
        BY <2>1 DEF WriteOutputForTelem, Files
      <3> QED BY <2>2, <3>1, FileChange DEF TypeOK
    <2>4. \A r \in Readers : [feed[r] EXCEPT ![e] = @ + 1] \in [Events -> Nat]
      BY DEF TypeOK
    <2>5. feed' \in [Readers -> [Events -> Nat]]
      <3>1. \/ feed' = feed
            \/ feed' = [r \in Readers |-> [feed[r] EXCEPT ![e] = @ + 1]]
        BY <2>1 DEF WriteOutputForTelem
      <3> QED BY <2>4, <3>1 DEF TypeOK
    <2>6. archived' \in [Events -> Stages]
      BY <2>1 DEF TypeOK, WriteOutputForTelem, Stages
    <2> QED BY <2>1, <2>3, <2>5, <2>6 DEF TypeOK, WriteOutputForTelem
  <1>2. ASSUME NEW r \in Readers, RefreshLinkDirs(r) PROVE TypeOK'
    <2>1. PICK k \in [Events -> 0 .. 1] : feed' = [feed EXCEPT ![r] =
                 [e \in Events |-> (IF e \in Links THEN 1 ELSE 0) + k[e]]]
      BY <1>2 DEF RefreshLinkDirs
    <2>2. [e \in Events |-> (IF e \in Links THEN 1 ELSE 0) + k[e]]
              \in [Events -> Nat]
      OBVIOUS
    <2>3. feed' \in [Readers -> [Events -> Nat]]
      BY <2>1, <2>2 DEF TypeOK
    <2> QED BY <1>2, <2>3 DEF RefreshLinkDirs, TypeOK
  <1>3. ASSUME NEW r \in Readers, NEW e \in Events, GetLastLink(r, e)
        PROVE TypeOK'
    <2>1. feed[r][e] - 1 \in Nat
      BY <1>3 DEF GetLastLink, TypeOK
    <2>2. feed' \in [Readers -> [Events -> Nat]]
      BY <1>3, <2>1, CounterChange DEF GetLastLink, TypeOK
    <2> QED BY <1>3, <2>2, Members DEF GetLastLink, TypeOK, Labels
  <1>4. ASSUME NEW r \in Readers, Kill(r) PROVE TypeOK'
    <2>1. [e \in Events |-> IF e \in Links THEN 1 ELSE 0] \in [Events -> Nat]
      OBVIOUS
    <2>2. feed' \in [Readers -> [Events -> Nat]]
      BY <1>4, <2>1 DEF Kill, TypeOK
    <2>3. <<>> \in Seq(Files)
      OBVIOUS
    <2>4. todo' \in [Procs -> Seq(Files)] /\ pc' \in [Procs -> Labels]
      BY <1>4, <2>3, Members DEF Kill, TypeOK, Labels
    <2> QED BY <1>4, <2>2, <2>4 DEF Kill, TypeOK
  <1>5. CASE Losd
    <2>1. /\ <<>> \in Seq(Files)
          /\ <<"hd", "losd">> \in Seq(Files)
          /\ <<"hd", "ev", "losd">> \in Seq(Files)
      BY DEF Files
    <2>2. ASSUME LosdCheck PROVE TypeOK'
      BY Members, <2>2, GotoType DEF LosdCheck, Labels
    <2>3. ASSUME LosdFinal PROVE TypeOK'
      BY Members, <2>1, <2>3, UnlinkingType DEF LosdFinal, TypeOK
    <2>4. ASSUME TouchFile("LOSd", "losd") PROVE TypeOK'
      BY <2>4, Members, TouchFileType DEF Files
    <2>5. ASSUME TakeLink("LOSd") PROVE TypeOK'
      BY <2>5, Members, TakeLinkType
    <2>6. ASSUME FillHeader("LOSd", <<"hd", "losd">>) PROVE TypeOK'
      BY <2>6, <2>1, Members, FillHeaderType
    <2>7. ASSUME SendBody("LOSd", <<"hd", "ev", "losd">>) PROVE TypeOK'
      BY <2>7, <2>1, Members, SendBodyType
    <2>8. ASSUME UnlinkNext("LOSd") PROVE TypeOK'
      BY <2>8, Members, UnlinkNextType
    <2> QED BY <1>5, <2>2, <2>3, <2>4, <2>5, <2>6, <2>7, <2>8 DEF Losd
  <1>6. ASSUME NEW s \in Sips, Sip(s) PROVE TypeOK'
    <2>1. /\ <<"sipd", "hd">> \in Seq(Files)
          /\ <<"hd", "ev", "sipd">> \in Seq(Files)
          /\ <<"hd", "ev", "sipd", "losd">> \in Seq(Files)
      BY DEF Files
    <2>2. ASSUME SipCheckLink(s) \/ SipCheckLosd(s) PROVE TypeOK'
      BY Members, <2>2, GotoType DEF SipCheckLink, SipCheckLosd, Labels
    <2>3. ASSUME SipFinal(s) PROVE TypeOK'
      BY Members, <2>1, <2>3, UnlinkingType DEF SipFinal, TypeOK
    <2>4. ASSUME TouchFile(s, "sipd") PROVE TypeOK'
      BY <2>4, Members, TouchFileType DEF Files
    <2>5. ASSUME TakeLink(s) PROVE TypeOK'
      BY <2>5, Members, TakeLinkType
    <2>6. ASSUME FillHeader(s, <<"sipd", "hd">>) PROVE TypeOK'
      BY <2>6, <2>1, Members, FillHeaderType
    <2>7. ASSUME SendBody(s, <<"hd", "ev", "sipd">>) PROVE TypeOK'
      BY <2>7, <2>1, Members, SendBodyType
    <2>8. ASSUME UnlinkNext(s) PROVE TypeOK'
      BY <2>8, Members, UnlinkNextType
    <2> QED BY <1>6, <2>2, <2>3, <2>4, <2>5, <2>6, <2>7, <2>8 DEF Sip
  <1>7. CASE Monitord
    <2>1. <<>> \in Seq(Files) /\ <<"hd", "link", "ev">> \in Seq(Files)
      BY DEF Files
    <2>2. ASSUME PurgeBegin PROVE TypeOK'
      BY <2>2 DEF PurgeBegin, TypeOK, Links
    <2>3. ASSUME NEW e \in Events, PurgeCheckSipd(e) PROVE TypeOK'
      BY <2>3, Members DEF PurgeCheckSipd, TypeOK, Labels
    <2>4. ASSUME PurgeCheckLosd PROVE TypeOK'
      <3>1. purged' \subseteq Events
        BY <2>4, Members, CurrentType DEF PurgeCheckLosd, TypeOK
      <3>2. pc' \in [Procs -> Labels] /\ todo' \in [Procs -> Seq(Files)]
        BY <2>1, <2>4, Members, UnlinkingType DEF PurgeCheckLosd
      <3> QED BY <2>4, <3>1, <3>2 DEF PurgeCheckLosd, TypeOK
    <2>5. ASSUME UnlinkNext("Monitord") PROVE TypeOK'
      BY <2>5, Members, UnlinkNextType
    <2> QED BY <1>7, <2>2, <2>3, <2>4, <2>5 DEF Monitord
  <1>8. CASE UNCHANGED vars
    BY <1>8 DEF vars, TypeOK
  <1> QED BY <1>1, <1>2, <1>3, <1>4, <1>5, <1>6, <1>7, <1>8 DEF Next, Fetch

\* Every variable stays in its type.
THEOREM Typing == Spec => []TypeOK
  <1> QED BY InitType, NextType, PTL DEF Spec

-----------------------------------------------------------------------------
(* HandoffInv is inductive. *)

LEMMA InitInv == Init => HandoffInv
  <1> SUFFICES ASSUME Init PROVE HandoffInv
    OBVIOUS
  <1>1. TypeOK
    BY InitType
  <1>2. \A e \in Events : archived[e] = "new" /\ fs[e] = {}
    BY DEF Init
  <1>3. \A r \in Readers, e \in Events : feed[r][e] = 0 /\ sent[r][e] = 0
    BY DEF Init
  <1>4. doomed = {} /\ \A p \in Procs : pc[p] = "idle"
    BY DEF Init
  <1>5. PrivateUntilLinked /\ WrittenInOrder /\ NothingLostUnsent
    BY <1>2, <1>3, <1>4 DEF PrivateUntilLinked, WrittenInOrder, NothingLostUnsent
  <1>6. FinalHasSent /\ UnlinksAccounted /\ TakenHasNoLink /\ SipSendsFresh
    BY <1>4, Members DEF FinalHasSent, UnlinksAccounted, TakenHasNoLink, SipSendsFresh
  <1>7. SentHasNoLink /\ LosdHeldBack /\ AtMostOnceEach
    BY <1>2, <1>3, Members DEF SentHasNoLink, LosdHeldBack, AtMostOnceEach
  <1>8. LosdSendsFresh
    BY <1>4, Members DEF LosdSendsFresh
  <1> QED BY <1>1, <1>5, <1>6, <1>7, <1>8 DEF HandoffInv

\* The invariant where nothing it mentions has changed.
LEMMA Unchanged ==
    ASSUME HandoffInv, UNCHANGED <<fs, archived, feed, pc, cur, todo, sent, purged>>,
           TypeOK', PrivateUntilLinked'
    PROVE  HandoffInv'
  BY DEF HandoffInv, WrittenInOrder, FinalHasSent, UnlinksAccounted, Accounted,
         SentBySomeone, NothingLostUnsent, SentHasNoLink, TakenHasNoLink,
         SipSendsFresh, LosdHeldBack, Awaits, LosdSendsFresh, AtMostOnceEach

\* What the invariant asks of p when it comes to stand at l with s to unlink.
Standing(p, l, s) ==
    /\ l = "unlink" => /\ s # <<>>
                       /\ Head(s) = "hd" \/ "hd" \notin fs[cur[p]]
                       /\ Accounted(cur[p])'
    /\ p \in Readers /\ l = "final" => sent[p][cur[p]] > 0
    /\ p \in Readers /\ l \in {"header", "body", "final"} =>
          "link" \notin fs[cur[p]]
    /\ p \in Sips /\ l \in {"checkLosd", "touch", "take", "header", "body"} =>
          sent[p][cur[p]] = 0
    /\ p = "LOSd" =>
          /\ sent[p][cur[p]] = 0 \/ "hd" \notin fs[cur[p]]
                \/ l \in {"final", "unlink"}
                \/ (l = "idle" /\ "sipd" \in fs[cur[p]])
          /\ l = "body" => sent[p][cur[p]] = 0

\* A step that only moves p on, deciding what p will do next.
Move(p, l, s) ==
    /\ pc' = [pc EXCEPT ![p] = l]
    /\ todo' = [todo EXCEPT ![p] = s]
    /\ purged \subseteq purged'
    /\ UNCHANGED <<fs, archived, feed, cur, doomed, sent>>

LEMMA MoveStep ==
    ASSUME HandoffInv, TypeOK', NEW p \in Procs, NEW l \in Labels \ {"check"},
           NEW s \in Seq(Files), pc[p] # "idle", Move(p, l, s), Standing(p, l, s)
    PROVE  HandoffInv'
  <1> USE Members DEF HandoffInv, TypeOK, Move, Standing
  <1>1. PrivateUntilLinked'
    BY DEF PrivateUntilLinked
  <1>2. WrittenInOrder' /\ SentHasNoLink' /\ AtMostOnceEach'
    BY DEF WrittenInOrder, SentHasNoLink, AtMostOnceEach
  <1>3. FinalHasSent'
    BY DEF FinalHasSent
  <1>4. UnlinksAccounted'
    <2> SUFFICES ASSUME NEW q \in Procs, pc'[q] = "unlink"
                 PROVE  /\ Accounted(cur[q])'
                        /\ todo'[q] # <<>>
                        /\ Head(todo'[q]) = "hd" \/ "hd" \notin fs[cur[q]]
      BY DEF UnlinksAccounted
    <2>1. CASE q = p
      BY <2>1
    <2>2. CASE q # p
      BY <2>2 DEF UnlinksAccounted, Accounted, SentBySomeone
    <2> QED BY <2>1, <2>2
  <1>5. NothingLostUnsent'
    BY DEF NothingLostUnsent, SentBySomeone
  <1>6. TakenHasNoLink'
    BY DEF TakenHasNoLink
  <1>7. SipSendsFresh'
    BY DEF SipSendsFresh
  <1>8. LosdHeldBack'
    BY DEF LosdHeldBack, Awaits
  <1>9. LosdSendsFresh'
    BY DEF LosdSendsFresh
  <1> QED BY <1>1, <1>2, <1>3, <1>4, <1>5, <1>6, <1>7, <1>8, <1>9


\* The steps of the daemons that are moves.

LEMMA LosdCheckStep ==
    ASSUME HandoffInv, TypeOK', LosdCheck
    PROVE  HandoffInv'
  <1> DEFINE l == IF Has("LOSd", "sipd") THEN "idle" ELSE "touch"
  <1>1. pc["LOSd"] = "check" /\ "LOSd" \in Procs /\ l \in Labels \ {"check"}
    BY Members DEF LosdCheck, Labels
  <1>2. Move("LOSd", l, todo["LOSd"]) /\ todo["LOSd"] \in Seq(Files)
    BY <1>1 DEF LosdCheck, Goto, Move, HandoffInv, TypeOK
  <1>3. Standing("LOSd", l, todo["LOSd"])
    BY <1>1, Members, CurrentType
       DEF Standing, HandoffInv, TypeOK, LosdHeldBack, Awaits, Has
  <1> QED BY <1>1, <1>2, <1>3, MoveStep

LEMMA LosdFinalStep ==
    ASSUME HandoffInv, TypeOK', LosdFinal
    PROVE  HandoffInv'
  <1> DEFINE s == IF Has("LOSd", "sipd") THEN <<>> ELSE <<"hd", "ev", "losd">>
             l == IF s = <<>> THEN "idle" ELSE "unlink"
  <1>1. pc["LOSd"] = "final" /\ "LOSd" \in Procs
    BY Members DEF LosdFinal
  <1>2. s \in Seq(Files) /\ l \in Labels \ {"check"}
    <2>1. <<>> \in Seq(Files) /\ <<"hd", "ev", "losd">> \in Seq(Files)
      BY DEF Files
    <2> QED BY <2>1 DEF Labels
  <1>3. Move("LOSd", l, s)
    BY DEF LosdFinal, Unlinking, Move
  <1>4. s # <<>> => Head(s) = "hd"
    OBVIOUS
  <1>5. sent["LOSd"][cur["LOSd"]] > 0 /\ Accounted(cur["LOSd"])'
    BY <1>1, <1>3, Members
       DEF HandoffInv, FinalHasSent, Accounted, SentBySomeone, Move
  <1>6. Standing("LOSd", l, s)
    BY <1>4, <1>5, Members DEF Standing, Has
  <1> QED BY <1>1, <1>2, <1>3, <1>6, MoveStep

LEMMA SipCheckStep ==
    ASSUME HandoffInv, TypeOK', NEW s \in Sips, SipCheckLink(s) \/ SipCheckLosd(s)
    PROVE  HandoffInv'
  <1> DEFINE l == IF pc[s] = "check"
                    THEN IF Has(s, "link") THEN "checkLosd" ELSE "idle"
                    ELSE IF Has(s, "losd") THEN "idle" ELSE "touch"
  <1>1. pc[s] \in {"check", "checkLosd"} /\ s \in Procs /\ s # "LOSd"
    BY Members DEF SipCheckLink, SipCheckLosd
  <1>2. l \in Labels \ {"check"}
    BY DEF Labels
  <1>3. Move(s, l, todo[s]) /\ todo[s] \in Seq(Files)
    BY <1>1 DEF SipCheckLink, SipCheckLosd, Goto, Move, HandoffInv, TypeOK
  <1>4. sent[s][cur[s]] \in Nat
    BY <1>1, Members, CurrentType DEF HandoffInv, TypeOK
  <1>5. Standing(s, l, todo[s])
    BY <1>1, <1>4, Members, CurrentType
       DEF Standing, HandoffInv, SentHasNoLink, SipSendsFresh, Has
  <1> QED BY <1>1, <1>2, <1>3, <1>5, MoveStep

LEMMA SipFinalStep ==
    ASSUME HandoffInv, TypeOK', NEW p \in Sips, SipFinal(p)
    PROVE  HandoffInv'
  <1> DEFINE s == IF Has(p, "losd") THEN <<"hd", "ev", "sipd", "losd">>
                                    ELSE <<"hd", "ev", "sipd">>
  <1>1. pc[p] = "final" /\ p \in Procs /\ p # "LOSd"
    BY Members DEF SipFinal
  <1>2. s \in Seq(Files) /\ s # <<>> /\ Head(s) = "hd" /\ "unlink" \in Labels \ {"check"}
    BY DEF Files, Labels
  <1>3. Move(p, "unlink", s)
    BY <1>2 DEF SipFinal, Unlinking, Move
  <1>4. sent[p][cur[p]] > 0 /\ Accounted(cur[p])'
    BY <1>1, <1>3, Members
       DEF HandoffInv, FinalHasSent, Accounted, SentBySomeone, Move
  <1>5. Standing(p, "unlink", s)
    BY <1>1, <1>2, <1>4 DEF Standing
  <1> QED BY <1>1, <1>2, <1>3, <1>5, MoveStep

\* An event whose header or waveforms are missing is accounted for.
LEMMA MissingAccounted ==
    ASSUME HandoffInv, NEW p \in Procs, pc[p] # "idle",
           ~Has(p, "hd") \/ ~Has(p, "ev")
    PROVE  Accounted(cur[p])
  BY CurrentType DEF HandoffInv, PrivateUntilLinked, NothingLostUnsent,
                     Accounted, Has

LEMMA FillHeaderStep ==
    ASSUME HandoffInv, TypeOK', NEW p \in Readers, NEW s \in Seq(Files), s # <<>>,
           FillHeader(p, s)
    PROVE  HandoffInv'
  <1>1. pc[p] = "header" /\ p \in Procs /\ {"body", "unlink"} \subseteq Labels \ {"check"}
    BY Members DEF FillHeader, Labels
  <1>2. CASE Has(p, "hd")
    <2>1. Move(p, "body", todo[p]) /\ todo[p] \in Seq(Files)
      BY <1>1, <1>2 DEF FillHeader, Goto, Move, HandoffInv, TypeOK
    <2>2. Standing(p, "body", todo[p])
      BY <1>1, <1>2, Members
         DEF Standing, HandoffInv, TakenHasNoLink, SipSendsFresh, LosdSendsFresh, Has
    <2> QED BY <1>1, <2>1, <2>2, MoveStep
  <1>3. CASE ~Has(p, "hd")
    <2>1. Move(p, "unlink", s)
      BY <1>3 DEF FillHeader, Unlinking, Move
    <2>2. Accounted(cur[p])'
      BY <1>1, <1>3, <2>1, MissingAccounted DEF Accounted, SentBySomeone, Move
    <2>3. Standing(p, "unlink", s)
      BY <1>3, <2>2, Members DEF Standing, Has
    <2> QED BY <1>1, <2>1, <2>3, MoveStep
  <1> QED BY <1>2, <1>3

LEMMA PurgeCheckLosdStep ==
    ASSUME HandoffInv, TypeOK', PurgeCheckLosd
    PROVE  HandoffInv'
  <1>1. /\ pc["Monitord"] = "checkLosd"
        /\ "Monitord" \in Procs
        /\ "Monitord" \notin Readers
        /\ {"idle", "unlink"} \subseteq Labels \ {"check"}
    BY Members DEF PurgeCheckLosd, Labels
  <1>2. CASE Has("Monitord", "losd")
    <2>1. Move("Monitord", "idle", <<>>) /\ <<>> \in Seq(Files)
      BY <1>2 DEF PurgeCheckLosd, Unlinking, Move
    <2>2. Standing("Monitord", "idle", <<>>)
      BY <1>1, Members DEF Standing
    <2> QED BY <1>1, <2>1, <2>2, MoveStep
  <1>3. CASE ~Has("Monitord", "losd")
    <2> DEFINE s == <<"hd", "link", "ev">>
    <2>1. s \in Seq(Files) /\ s # <<>> /\ Head(s) = "hd"
      BY DEF Files
    <2>2. Move("Monitord", "unlink", s) /\ cur["Monitord"] \in purged'
      BY <1>3, <2>1 DEF PurgeCheckLosd, Unlinking, Move
    <2>3. Accounted(cur["Monitord"])'
      BY <2>2 DEF Accounted, Move
    <2>4. Standing("Monitord", "unlink", s)
      BY <1>1, <2>1, <2>3, Members DEF Standing
    <2> QED BY <1>1, <2>1, <2>2, <2>4, MoveStep
  <1> QED BY <1>2, <1>3

-----------------------------------------------------------------------------
(* The steps that change files, lists or counts. *)

LEMMA WriteOutputStep ==
    ASSUME HandoffInv, TypeOK', NEW e \in Events, WriteOutputForTelem(e)
    PROVE  HandoffInv'
  <1>1. archived[e] # "linked" /\ archived \in [Events -> Stages]
    BY DEF WriteOutputForTelem, HandoffInv, TypeOK
  <1>2. \A d \in Events \ {e} :
           /\ fs'[d] = fs[d] /\ archived'[d] = archived[d]
           /\ \A r \in Readers : feed'[r][d] = feed[r][d]
    BY DEF WriteOutputForTelem, HandoffInv, TypeOK
  <1>3. /\ archived'[e] \in {"body", "header", "linked"}
        /\ archived'[e] # "linked" =>
              fs'[e] \subseteq fs[e] \cup {"ev", "hd"} /\ feed' = feed
        /\ archived'[e] = "body" => "ev" \in fs'[e]
        /\ archived'[e] = "header" => archived[e] = "body"
        /\ archived'[e] = "header" => "hd" \in fs'[e]
        /\ archived'[e] = "linked" => archived[e] = "header"
        /\ fs[e] \subseteq fs'[e]
    BY DEF WriteOutputForTelem, HandoffInv, TypeOK
  <1>4. UNCHANGED <<pc, cur, todo, doomed, sent, purged>>
    BY DEF WriteOutputForTelem
  <1>5. /\ \A r \in Readers : sent[r][e] = 0
        /\ \A p \in Procs : pc[p] # "idle" => cur[p] # e
    BY <1>1 DEF HandoffInv, PrivateUntilLinked
  <1>6. \A p \in Procs : cur[p] \in Events
    BY DEF HandoffInv, TypeOK
  <1>7. PrivateUntilLinked'
    BY <1>1, <1>2, <1>3, <1>4 DEF HandoffInv, PrivateUntilLinked
  <1>8. WrittenInOrder'
    BY <1>2, <1>3 DEF HandoffInv, WrittenInOrder
  <1>9. FinalHasSent' /\ SipSendsFresh' /\ AtMostOnceEach'
    BY <1>4 DEF HandoffInv, FinalHasSent, SipSendsFresh, AtMostOnceEach
  <1>10. UnlinksAccounted'
    BY <1>2, <1>4, <1>5, <1>6
       DEF HandoffInv, UnlinksAccounted, Accounted, SentBySomeone
  <1>11. NothingLostUnsent'
    BY <1>1, <1>2, <1>3, <1>4
       DEF HandoffInv, NothingLostUnsent, SentBySomeone, WrittenInOrder
  <1>12. SentHasNoLink'
    BY <1>2, <1>4, <1>5 DEF HandoffInv, SentHasNoLink
  <1>13. TakenHasNoLink'
    BY <1>2, <1>4, <1>5, <1>6, Members DEF HandoffInv, TakenHasNoLink
  <1>14. LosdHeldBack'
    <2> SUFFICES ASSUME NEW d \in Events, sent["LOSd"][d] > 0, Awaits("LOSd", d)'
                 PROVE  \/ "hd" \notin fs'[d]
                        \/ "sipd" \in fs'[d]
                        \/ (pc["LOSd"] \in {"final", "unlink"} /\ cur["LOSd"] = d)
      BY <1>4 DEF LosdHeldBack
    <2>1. d # e
      BY <1>5, Members
    <2> QED BY <2>1, <1>2, <1>4, Members DEF HandoffInv, LosdHeldBack, Awaits
  <1>15. LosdSendsFresh'
    BY <1>2, <1>4, <1>5, <1>6, Members DEF HandoffInv, LosdSendsFresh
  <1> QED BY <1>7, <1>8, <1>9, <1>10, <1>11, <1>12, <1>13, <1>14, <1>15
          DEF HandoffInv

\* The lists change: what a list offers has a link, or the list offered it
\* before and its owner has not been killed.
LEMMA FeedStep ==
    ASSUME HandoffInv, TypeOK', NEW r \in Readers,
           UNCHANGED <<fs, archived, sent, purged, cur, doomed>>,
           \A q \in Procs : pc'[q] = pc[q] \/ (q = r /\ pc'[q] = "idle"),
           \A q \in Procs : todo'[q] = todo[q] \/ (q = r /\ pc'[q] = "idle"),
           \A q \in Readers, e \in Events :
               feed'[q][e] > 0 => \/ "link" \in fs[e]
                                  \/ feed[q][e] > 0 /\ pc'[q] = pc[q]
    PROVE  HandoffInv'
  <1> USE Members DEF HandoffInv
  <1>1. \A q \in Readers, e \in Events : feed'[q][e] \in Nat /\ feed[q][e] \in Nat
    BY DEF TypeOK
  <1>2. PrivateUntilLinked'
    BY <1>1 DEF PrivateUntilLinked
  <1>3. WrittenInOrder' /\ NothingLostUnsent' /\ SentHasNoLink' /\ AtMostOnceEach'
    BY DEF WrittenInOrder, NothingLostUnsent, SentBySomeone, SentHasNoLink,
           AtMostOnceEach
  <1>4. FinalHasSent' /\ TakenHasNoLink' /\ SipSendsFresh' /\ LosdSendsFresh'
    BY DEF FinalHasSent, TakenHasNoLink, SipSendsFresh, LosdSendsFresh
  <1>5. UnlinksAccounted'
    BY DEF UnlinksAccounted, Accounted, SentBySomeone
  <1>6. LosdHeldBack'
    BY DEF LosdHeldBack, Awaits, SentHasNoLink
  <1> QED BY <1>2, <1>3, <1>4, <1>5, <1>6

LEMMA RefreshStep ==
    ASSUME HandoffInv, TypeOK', NEW r \in Readers, RefreshLinkDirs(r)
    PROVE  HandoffInv'
  <1>1. PICK k \in [Events -> 0 .. 1] :
            /\ \A e \in Events : k[e] <= feed[r][e]
            /\ feed' = [feed EXCEPT ![r] =
                          [e \in Events |-> (IF e \in Links THEN 1 ELSE 0) + k[e]]]
    BY DEF RefreshLinkDirs
  <1>2. feed \in [Readers -> [Events -> Nat]]
    BY DEF HandoffInv, TypeOK
  <1>3. ASSUME NEW q \in Readers, NEW e \in Events, feed'[q][e] > 0
        PROVE  "link" \in fs[e] \/ feed[q][e] > 0
    <2>1. CASE q # r
      BY <1>1, <1>2, <1>3, <2>1
    <2>2. CASE q = r
      <3>1. feed'[r][e] = (IF e \in Links THEN 1 ELSE 0) + k[e]
        BY <1>1, <1>2
      <3> QED BY <1>1, <1>2, <1>3, <2>2, <3>1 DEF Links
    <2> QED BY <2>1, <2>2
  <1>4. UNCHANGED <<fs, archived, pc, cur, todo, doomed, sent, purged>>
    BY DEF RefreshLinkDirs
  <1> QED BY <1>3, <1>4, FeedStep

LEMMA KillStep ==
    ASSUME HandoffInv, TypeOK', NEW r \in Readers, Kill(r)
    PROVE  HandoffInv'
  <1>1. /\ pc' = [pc EXCEPT ![r] = "idle"]
        /\ todo' = [todo EXCEPT ![r] = <<>>]
        /\ UNCHANGED <<fs, archived, cur, doomed, sent, purged>>
    BY DEF Kill
  <1>2. feed \in [Readers -> [Events -> Nat]] /\ pc \in [Procs -> Labels]
        /\ todo \in [Procs -> Seq(Files)]
    BY DEF HandoffInv, TypeOK
  <1>3. \A e \in Events : feed'[r][e] > 0 => "link" \in fs[e]
    BY <1>2 DEF Kill, Links
  <1>4. \A q \in Readers, e \in Events : q # r => feed'[q][e] = feed[q][e]
    BY <1>2 DEF Kill
  <1> QED BY <1>1, <1>2, <1>3, <1>4, Members, FeedStep

LEMMA GetLastLinkStep ==
    ASSUME HandoffInv, TypeOK', NEW r \in Readers, NEW e \in Events,
           GetLastLink(r, e)
    PROVE  HandoffInv'
  <1> USE Members DEF HandoffInv
  <1>1. /\ pc[r] = "idle" /\ pc' = [pc EXCEPT ![r] = "check"]
        /\ cur' = [cur EXCEPT ![r] = e]
        /\ UNCHANGED <<fs, archived, todo, doomed, sent, purged>>
    BY DEF GetLastLink
  <1>2. pc \in [Procs -> Labels] /\ cur \in [Procs -> Events]
    BY DEF TypeOK
  <1>3. \A q \in Readers, d \in Events : feed'[q][d] <= feed[q][d]
                                         /\ feed[q][d] \in Nat /\ feed'[q][d] \in Nat
    <2>1. feed \in [Readers -> [Events -> Nat]] /\ feed' \in [Readers -> [Events -> Nat]]
      BY DEF TypeOK
    <2>2. feed[r][e] - 1 \in Nat
      BY <2>1 DEF GetLastLink
    <2>3. feed' = [feed EXCEPT ![r][e] = feed[r][e] - 1]
      BY DEF GetLastLink
    <2>4. /\ feed'[r][e] = feed[r][e] - 1
          /\ \A q \in Readers, d \in Events :
                q # r \/ d # e => feed'[q][d] = feed[q][d]
      BY <2>1, <2>2, <2>3, CounterChange
    <2> QED BY <2>1, <2>4
  <1>4. feed[r][e] > 0
    BY DEF GetLastLink
  <1>5. archived[e] = "linked"
    BY <1>4 DEF PrivateUntilLinked
  <1>6. PrivateUntilLinked'
    BY <1>1, <1>2, <1>3, <1>5 DEF PrivateUntilLinked
  <1>7. WrittenInOrder' /\ NothingLostUnsent' /\ SentHasNoLink' /\ AtMostOnceEach'
    BY <1>1 DEF WrittenInOrder, NothingLostUnsent, SentBySomeone, SentHasNoLink,
                AtMostOnceEach
  <1>8. FinalHasSent' /\ TakenHasNoLink' /\ SipSendsFresh' /\ LosdSendsFresh'
    BY <1>1, <1>2 DEF FinalHasSent, TakenHasNoLink, SipSendsFresh, LosdSendsFresh
  <1>9. UnlinksAccounted'
    BY <1>1, <1>2 DEF UnlinksAccounted, Accounted, SentBySomeone
  <1>10. LosdHeldBack'
    BY <1>1, <1>2, <1>3, <1>4 DEF LosdHeldBack, Awaits
  <1> QED BY <1>6, <1>7, <1>8, <1>9, <1>10

LEMMA TouchFileStep ==
    ASSUME HandoffInv, TypeOK', NEW p \in Readers, NEW f \in {"losd", "sipd"},
           TouchFile(p, f)
    PROVE  HandoffInv'
  <1> USE Members DEF HandoffInv
  <1>1. /\ pc[p] = "touch" /\ pc' = [pc EXCEPT ![p] = "take"]
        /\ UNCHANGED <<archived, feed, cur, todo, doomed, sent, purged>>
        /\ pc \in [Procs -> Labels] /\ cur \in [Procs -> Events]
    BY DEF TouchFile, TypeOK
  <1>2. \A e \in Events : fs[e] \subseteq fs'[e] /\ fs'[e] \subseteq fs[e] \cup {f}
    BY DEF TouchFile, TypeOK
  <1>3. PrivateUntilLinked'
    BY <1>1, <1>2 DEF PrivateUntilLinked
  <1>4. WrittenInOrder' /\ AtMostOnceEach'
    BY <1>1, <1>2 DEF WrittenInOrder, AtMostOnceEach
  <1>5. NothingLostUnsent'
    BY <1>1, <1>2 DEF NothingLostUnsent, SentBySomeone
  <1>6. SentHasNoLink' /\ TakenHasNoLink'
    BY <1>1, <1>2 DEF SentHasNoLink, TakenHasNoLink
  <1>7. FinalHasSent' /\ SipSendsFresh'
    BY <1>1 DEF FinalHasSent, SipSendsFresh
  <1>8. UnlinksAccounted'
    BY <1>1, <1>2 DEF UnlinksAccounted, Accounted, SentBySomeone
  <1>9. LosdHeldBack'
    BY <1>1, <1>2 DEF LosdHeldBack, Awaits
  <1>10. LosdSendsFresh'
    BY <1>1, <1>2 DEF LosdSendsFresh
  <1> QED BY <1>3, <1>4, <1>5, <1>6, <1>7, <1>8, <1>9, <1>10

LEMMA TakeLinkStep ==
    ASSUME HandoffInv, TypeOK', NEW p \in Readers, TakeLink(p)
    PROVE  HandoffInv'
  <1> USE Members DEF HandoffInv
  <1>1. /\ pc[p] = "take" /\ pc' = [pc EXCEPT ![p] = "header"]
        /\ UNCHANGED <<archived, feed, cur, todo, doomed, sent, purged>>
        /\ pc \in [Procs -> Labels] /\ cur \in [Procs -> Events]
    BY DEF TakeLink, TypeOK
  <1>2. /\ \A e \in Events : fs[e] \ {"link"} \subseteq fs'[e] /\ fs'[e] \subseteq fs[e]
        /\ "link" \notin fs'[cur[p]]
    BY DEF TakeLink, TypeOK
  <1>3. PrivateUntilLinked'
    BY <1>1, <1>2 DEF PrivateUntilLinked
  <1>4. WrittenInOrder' /\ AtMostOnceEach'
    BY <1>1, <1>2 DEF WrittenInOrder, AtMostOnceEach
  <1>5. NothingLostUnsent'
    BY <1>1, <1>2 DEF NothingLostUnsent, SentBySomeone
  <1>6. SentHasNoLink' /\ TakenHasNoLink'
    BY <1>1, <1>2 DEF SentHasNoLink, TakenHasNoLink
  <1>7. FinalHasSent' /\ SipSendsFresh'
    BY <1>1 DEF FinalHasSent, SipSendsFresh
  <1>8. UnlinksAccounted'
    BY <1>1, <1>2 DEF UnlinksAccounted, Accounted, SentBySomeone
  <1>9. LosdHeldBack'
    BY <1>1, <1>2 DEF LosdHeldBack, Awaits
  <1>10. LosdSendsFresh'
    BY <1>1, <1>2 DEF LosdSendsFresh
  <1> QED BY <1>3, <1>4, <1>5, <1>6, <1>7, <1>8, <1>9, <1>10

\* A sender sends only what it has not sent.
LEMMA BodyIsFresh ==
    ASSUME HandoffInv, NEW p \in Readers, pc[p] = "body"
    PROVE  sent[p][cur[p]] = 0
  BY Members DEF HandoffInv, SipSendsFresh, LosdSendsFresh

LEMMA SendBodyStep ==
    ASSUME HandoffInv, TypeOK', NEW p \in Readers, NEW s \in Seq(Files),
           s # <<>>, Head(s) = "hd", SendBody(p, s)
    PROVE  HandoffInv'
  <1> USE Members DEF HandoffInv
  <1>1. pc[p] = "body" /\ p \in Procs /\ "unlink" \in Labels \ {"check"}
    BY DEF SendBody, Labels
  <1>2. sent[p][cur[p]] = 0
    BY <1>1, BodyIsFresh
  <1>3. CASE ~Has(p, "ev")
    <2>1. Move(p, "unlink", s)
      BY <1>3 DEF SendBody, Unlinking, Move
    <2>2. Accounted(cur[p])'
      BY <1>1, <1>3, <2>1, MissingAccounted DEF Accounted, SentBySomeone, Move
    <2>3. Standing(p, "unlink", s)
      BY <1>2, <2>2 DEF Standing
    <2> QED BY <1>1, <2>1, <2>3, MoveStep
  <1>4. CASE Has(p, "ev")
    <2>1. /\ sent' = [sent EXCEPT ![p][cur[p]] = sent[p][cur[p]] + 1]
          /\ pc' = [pc EXCEPT ![p] = "final"]
          /\ UNCHANGED <<fs, archived, feed, cur, todo, doomed, purged>>
      BY <1>4 DEF SendBody
    <2>2. /\ sent \in [Readers -> [Events -> Nat]]
          /\ pc \in [Procs -> Labels] /\ cur[p] \in Events
      BY CurrentType DEF TypeOK
    <2>3. /\ sent'[p][cur[p]] = 1
          /\ \A r \in Readers, e \in Events :
                r # p \/ e # cur[p] => sent'[r][e] = sent[r][e]
      BY <1>2, <2>1, <2>2, CounterChange
    <2>4. archived[cur[p]] = "linked" /\ "link" \notin fs[cur[p]]
      BY <1>1, <2>2 DEF PrivateUntilLinked, TakenHasNoLink
    <2>5. \A q \in Procs : cur[q] \in Events
      BY DEF TypeOK
    <2>6. \A e \in Events : SentBySomeone(e) => SentBySomeone(e)'
      <3>1. ASSUME NEW e \in Events, NEW r \in Readers, sent[r][e] > 0
            PROVE  sent'[r][e] > 0
        BY <2>3, <3>1
      <3> QED BY <3>1 DEF SentBySomeone
    <2>7. PrivateUntilLinked'
      BY <1>1, <2>1, <2>2, <2>3, <2>4 DEF PrivateUntilLinked
    <2>8. WrittenInOrder'
      BY <2>1 DEF WrittenInOrder
    <2>9. FinalHasSent'
      BY <1>1, <2>1, <2>2, <2>3, <2>5 DEF FinalHasSent
    <2>10. UnlinksAccounted'
      BY <2>1, <2>2, <2>5, <2>6 DEF UnlinksAccounted, Accounted
    <2>11. NothingLostUnsent'
      BY <2>1, <2>6 DEF NothingLostUnsent
    <2>12. SentHasNoLink'
      BY <2>1, <2>2, <2>3, <2>4 DEF SentHasNoLink
    <2>13. TakenHasNoLink'
      BY <2>1, <2>2, <2>4 DEF TakenHasNoLink
    <2>14. SipSendsFresh'
      BY <1>1, <2>1, <2>2, <2>3, <2>5 DEF SipSendsFresh
    <2>15. LosdHeldBack'
      BY <1>1, <2>1, <2>2, <2>3 DEF LosdHeldBack, Awaits
    <2>16. LosdSendsFresh'
      BY <1>1, <2>1, <2>2, <2>3, <2>5 DEF LosdSendsFresh
    <2>17. AtMostOnceEach'
      BY <2>3 DEF AtMostOnceEach
    <2> QED BY <2>7, <2>8, <2>9, <2>10, <2>11, <2>12, <2>13, <2>14, <2>15,
               <2>16, <2>17
  <1> QED BY <1>3, <1>4

LEMMA UnlinkNextStep ==
    ASSUME HandoffInv, TypeOK', NEW p \in Procs, UnlinkNext(p)
    PROVE  HandoffInv'
  <1> USE Members DEF HandoffInv
  <1> DEFINE c == cur[p]
             h == Head(todo[p])
  <1>1. /\ pc[p] = "unlink" /\ todo[p] \in Seq(Files) /\ todo[p] # <<>>
        /\ pc \in [Procs -> Labels] /\ todo \in [Procs -> Seq(Files)]
        /\ fs \in [Events -> SUBSET Files] /\ c \in Events
        /\ \A q \in Procs : cur[q] \in Events
    BY DEF UnlinkNext, TypeOK
  <1>2. /\ pc' = [pc EXCEPT ![p] = IF Tail(todo[p]) = <<>> THEN "idle" ELSE "unlink"]
        /\ todo' = [todo EXCEPT ![p] = Tail(todo[p])]
        /\ UNCHANGED <<archived, feed, cur, doomed, sent, purged>>
    BY DEF UnlinkNext, Unlinking
  <1>3. /\ fs'[c] = fs[c] \ {h}
        /\ \A e \in Events \ {c} : fs'[e] = fs[e]
    BY <1>1 DEF UnlinkNext
  <1>4. Accounted(c) /\ (h = "hd" \/ "hd" \notin fs[c])
    BY <1>1 DEF UnlinksAccounted
  <1>5. "hd" \notin fs'[c] /\ archived[c] = "linked"
    BY <1>1, <1>3, <1>4 DEF PrivateUntilLinked
  <1>6. PrivateUntilLinked'
    BY <1>1, <1>2, <1>3 DEF PrivateUntilLinked
  <1>7. WrittenInOrder'
    BY <1>2, <1>3, <1>5 DEF WrittenInOrder
  <1>8. FinalHasSent' /\ SipSendsFresh' /\ AtMostOnceEach'
    BY <1>1, <1>2 DEF FinalHasSent, SipSendsFresh, AtMostOnceEach
  <1>9. UnlinksAccounted'
    <2> SUFFICES ASSUME NEW q \in Procs, pc'[q] = "unlink"
                 PROVE  /\ Accounted(cur[q])
                        /\ todo'[q] # <<>>
                        /\ Head(todo'[q]) = "hd" \/ "hd" \notin fs'[cur[q]]
      BY <1>2 DEF UnlinksAccounted, Accounted, SentBySomeone
    <2>1. CASE q = p
      BY <1>1, <1>2, <1>4, <1>5, <2>1
    <2>2. CASE q # p
      BY <1>1, <1>2, <1>3, <2>2 DEF UnlinksAccounted
    <2> QED BY <2>1, <2>2
  <1>10. NothingLostUnsent'
    BY <1>2, <1>3, <1>4 DEF NothingLostUnsent, Accounted, SentBySomeone
  <1>11. SentHasNoLink'
    BY <1>2, <1>3 DEF SentHasNoLink
  <1>12. TakenHasNoLink'
    BY <1>1, <1>2, <1>3 DEF TakenHasNoLink
  <1>13. LosdHeldBack'
    BY <1>1, <1>2, <1>3, <1>5 DEF LosdHeldBack, Awaits
  <1>14. LosdSendsFresh'
    BY <1>1, <1>2, <1>3 DEF LosdSendsFresh
  <1> QED BY <1>6, <1>7, <1>8, <1>9, <1>10, <1>11, <1>12, <1>13, <1>14

LEMMA PurgeBeginStep ==
    ASSUME HandoffInv, TypeOK', PurgeBegin
    PROVE  HandoffInv'
  <1>1. UNCHANGED <<fs, archived, feed, pc, cur, todo, sent, purged>>
    BY DEF PurgeBegin
  <1>2. doomed' \subseteq Links
    BY DEF PurgeBegin
  <1>3. PrivateUntilLinked'
    BY <1>1, <1>2 DEF HandoffInv, PrivateUntilLinked, Links
  <1> QED BY <1>1, <1>3, Unchanged

LEMMA PurgeCheckSipdStep ==
    ASSUME HandoffInv, TypeOK', NEW e \in Events, PurgeCheckSipd(e)
    PROVE  HandoffInv'
  <1> USE Members DEF HandoffInv
  <1>1. /\ cur' = [cur EXCEPT !["Monitord"] = e]
        /\ \E l \in {"idle", "checkLosd"} : pc' = [pc EXCEPT !["Monitord"] = l]
        /\ e \in doomed /\ doomed' = doomed \ {e}
        /\ pc["Monitord"] = "idle"
        /\ UNCHANGED <<fs, archived, feed, todo, sent, purged>>
    BY DEF PurgeCheckSipd
  <1>2. pc \in [Procs -> Labels] /\ cur \in [Procs -> Events]
    BY DEF TypeOK
  <1>3. PrivateUntilLinked'
    BY <1>1, <1>2 DEF PrivateUntilLinked
  <1>4. \A r \in Readers : pc'[r] = pc[r] /\ cur'[r] = cur[r]
    BY <1>1, <1>2
  <1>5. WrittenInOrder' /\ NothingLostUnsent' /\ SentHasNoLink' /\ AtMostOnceEach'
    BY <1>1 DEF WrittenInOrder, NothingLostUnsent, SentBySomeone, SentHasNoLink,
                AtMostOnceEach
  <1>6. FinalHasSent' /\ TakenHasNoLink' /\ SipSendsFresh' /\ LosdSendsFresh'
    BY <1>1, <1>4 DEF FinalHasSent, TakenHasNoLink, SipSendsFresh, LosdSendsFresh
  <1>7. UnlinksAccounted'
    BY <1>1, <1>2 DEF UnlinksAccounted, Accounted, SentBySomeone
  <1>8. LosdHeldBack'
    BY <1>1, <1>4 DEF LosdHeldBack, Awaits
  <1> QED BY <1>3, <1>5, <1>6, <1>7, <1>8

LEMMA NextInv == HandoffInv /\ [Next]_vars => HandoffInv'
  <1> SUFFICES ASSUME HandoffInv, [Next]_vars PROVE HandoffInv'
    OBVIOUS
  <1>1. TypeOK'
    BY NextType DEF HandoffInv
  <1>2. CASE Archived
    BY <1>1, <1>2, WriteOutputStep DEF Archived
  <1>3. ASSUME NEW r \in Readers, RefreshLinkDirs(r) \/ Fetch(r) \/ Kill(r)
        PROVE  HandoffInv'
    BY <1>1, <1>3, RefreshStep, GetLastLinkStep, KillStep DEF Fetch
  <1>4. CASE Losd
    <2>1. /\ <<"hd", "losd">> \in Seq(Files) /\ <<"hd", "losd">> # <<>>
          /\ <<"hd", "ev", "losd">> \in Seq(Files)
          /\ <<"hd", "ev", "losd">> # <<>> /\ Head(<<"hd", "ev", "losd">>) = "hd"
      BY DEF Files
    <2>2. ASSUME FillHeader("LOSd", <<"hd", "losd">>) PROVE HandoffInv'
      BY <1>1, <2>1, <2>2, Members, FillHeaderStep
    <2>3. ASSUME SendBody("LOSd", <<"hd", "ev", "losd">>) PROVE HandoffInv'
      BY <1>1, <2>1, <2>3, Members, SendBodyStep
    <2> QED BY <1>1, <1>4, <2>2, <2>3, Members, LosdCheckStep, TouchFileStep,
               TakeLinkStep, LosdFinalStep, UnlinkNextStep DEF Losd
  <1>5. ASSUME NEW s \in Sips, Sip(s) PROVE HandoffInv'
    <2>1. /\ <<"sipd", "hd">> \in Seq(Files) /\ <<"sipd", "hd">> # <<>>
          /\ <<"hd", "ev", "sipd">> \in Seq(Files)
          /\ <<"hd", "ev", "sipd">> # <<>> /\ Head(<<"hd", "ev", "sipd">>) = "hd"
      BY DEF Files
    <2>2. ASSUME FillHeader(s, <<"sipd", "hd">>) PROVE HandoffInv'
      BY <1>1, <2>1, <2>2, Members, FillHeaderStep
    <2>3. ASSUME SendBody(s, <<"hd", "ev", "sipd">>) PROVE HandoffInv'
      BY <1>1, <2>1, <2>3, Members, SendBodyStep
    <2> QED BY <1>1, <1>5, <2>2, <2>3, Members, SipCheckStep, TouchFileStep,
               TakeLinkStep, SipFinalStep, UnlinkNextStep DEF Sip
  <1>6. CASE Monitord
    BY <1>1, <1>6, Members, PurgeBeginStep, PurgeCheckSipdStep,
       PurgeCheckLosdStep, UnlinkNextStep DEF Monitord
  <1>7. CASE UNCHANGED vars
    BY <1>1, <1>7, Unchanged DEF vars, HandoffInv, PrivateUntilLinked
  <1> QED BY <1>2, <1>3, <1>4, <1>5, <1>6, <1>7 DEF Next

\* The strengthened invariant of the hand-off holds in every reachable state.
THEOREM Inductive == Spec => []HandoffInv
  <1> QED BY InitInv, NextInv, PTL DEF Spec

\* No event disappears from the ramdisk before a daemon has sent it or
\* Monitord has recorded it.
THEOREM NothingLost == Spec => []NothingLostUnsent
  <1>1. HandoffInv => NothingLostUnsent
    BY DEF HandoffInv
  <1> QED BY <1>1, Inductive, PTL

\* No sender sends the waveforms of an event twice.
THEOREM SentOnce == Spec => []AtMostOnceEach
  <1>1. HandoffInv => AtMostOnceEach
    BY DEF HandoffInv
  <1> QED BY <1>1, Inductive, PTL

-----------------------------------------------------------------------------
(* Touch files while no .sipd sender is killed.                            *)

\* A .sipd sender has e's touch file, or its own, still to remove.
Holds(s, e) ==
    /\ cur[s] = e
    /\ \/ pc[s] \in {"take", "header", "body", "final"}
       \/ pc[s] = "unlink" /\ "sipd" \in Range(todo[s])

TouchHeld == \A e \in Events : "sipd" \in fs[e] => \E s \in Sips : Holds(s, e)

\* A step that touches no event, and after which every .sipd sender still holds
\* what it held, if its touch file is still there.
LEMMA HeldStep ==
    ASSUME TouchHeld,
           \A e \in Events : "sipd" \in fs'[e] => "sipd" \in fs[e],
           \A s \in Sips, e \in Events :
               Holds(s, e) /\ "sipd" \in fs'[e] => Holds(s, e)'
    PROVE  TouchHeld'
  BY DEF TouchHeld

\* What another process does, but touching, changes nothing for a .sipd sender.
LEMMA OthersStep ==
    ASSUME TouchHeld,
           \A e \in Events : "sipd" \in fs'[e] => "sipd" \in fs[e],
           \A s \in Sips : pc'[s] = pc[s] /\ cur'[s] = cur[s] /\ todo'[s] = todo[s]
    PROVE  TouchHeld'
  BY HeldStep DEF Holds

LEMMA WriteOutputHeld ==
    ASSUME TypeOK, TouchHeld, NEW e \in Events, WriteOutputForTelem(e)
    PROVE  TouchHeld'
  <1>1. UNCHANGED <<pc, cur, todo>>
    BY DEF WriteOutputForTelem
  <1>2. \E f \in {"ev", "hd", "link"} : fs' = [fs EXCEPT ![e] = @ \cup {f}]
    BY DEF WriteOutputForTelem
  <1>3. \A d \in Events : "sipd" \in fs'[d] => "sipd" \in fs[d]
    BY <1>2 DEF TypeOK
  <1> QED BY <1>1, <1>3, OthersStep

\* UnlinkNext of any process: the touch file is gone, or still to go.
LEMMA UnlinkNextHeld ==
    ASSUME TypeOK, TouchHeld, NEW p \in Procs, UnlinkNext(p)
    PROVE  TouchHeld'
  <1>1. /\ pc[p] = "unlink" /\ todo[p] \in Seq(Files) /\ todo[p] # <<>>
        /\ cur[p] \in Events /\ cur' = cur
        /\ fs' = [fs EXCEPT ![cur[p]] = @ \ {Head(todo[p])}]
    BY DEF UnlinkNext, TypeOK
  <1>2. /\ pc' = [pc EXCEPT ![p] = IF Tail(todo[p]) = <<>> THEN "idle" ELSE "unlink"]
        /\ todo' = [todo EXCEPT ![p] = Tail(todo[p])]
    BY DEF UnlinkNext, Unlinking
  <1>3. \A d \in Events : "sipd" \in fs'[d] => "sipd" \in fs[d]
    BY <1>1 DEF TypeOK
  <1>4. ASSUME NEW s \in Sips, NEW e \in Events, Holds(s, e), "sipd" \in fs'[e]
        PROVE  Holds(s, e)'
    <2>1. CASE s # p
      BY <1>1, <1>2, <1>4, <2>1, Members DEF Holds, TypeOK
    <2>2. CASE s = p
      <3>1. e = cur[p] /\ "sipd" \in Range(todo[p])
        BY <1>1, <1>4, <2>2 DEF Holds
      <3>2. Head(todo[p]) # "sipd"
        BY <1>1, <1>4, <3>1 DEF TypeOK
      <3>3. PICK i \in 1 .. Len(todo[p]) : todo[p][i] = "sipd"
        BY <1>1, <3>1 DEF Range
      <3>4. i # 1 /\ i - 1 \in 1 .. Len(Tail(todo[p]))
            /\ Tail(todo[p])[i - 1] = "sipd"
        BY <1>1, <3>2, <3>3
      <3>5. Tail(todo[p]) # <<>> /\ "sipd" \in Range(Tail(todo[p]))
        <4>1. /\ Tail(todo[p]) \in Seq(Files)
              /\ Len(Tail(todo[p])) \in Nat /\ Len(todo[p]) \in Nat
          BY <1>1
        <4>2. i - 1 \in DOMAIN Tail(todo[p])
          BY <3>4, <4>1
        <4>3. "sipd" \in Range(Tail(todo[p]))
          BY <3>4, <4>2, Zenon DEF Range
        <4>4. Len(Tail(todo[p])) # 0
          BY <3>4, <4>1
        <4>5. Tail(todo[p]) # <<>>
          <5>1. Len(<<>>) = 0
            OBVIOUS
          <5> QED BY <4>4, <5>1, Zenon
        <4> QED BY <4>3, <4>5
      <3>6. pc'[p] = "unlink" /\ todo'[p] = Tail(todo[p])
        BY <1>2, <3>5 DEF TypeOK
      <3> QED BY <1>1, <2>2, <3>1, <3>5, <3>6 DEF Holds
    <2> QED BY <2>1, <2>2
  <1> QED BY <1>3, <1>4, HeldStep

\* Every list of files a .sipd sender unlinks has the touch file in it.
LEMMA SipLists ==
    /\ "sipd" \in Range(<<"sipd", "hd">>)
    /\ "sipd" \in Range(<<"hd", "ev", "sipd">>)
    /\ "sipd" \in Range(<<"hd", "ev", "sipd", "losd">>)
    /\ <<"sipd", "hd">> # <<>> /\ <<"hd", "ev", "sipd">> # <<>>
    /\ <<"hd", "ev", "sipd", "losd">> # <<>>
  <1>1. <<"sipd", "hd">>[1] = "sipd" /\ 1 \in DOMAIN <<"sipd", "hd">>
    OBVIOUS
  <1>2. <<"hd", "ev", "sipd">>[3] = "sipd" /\ 3 \in DOMAIN <<"hd", "ev", "sipd">>
    OBVIOUS
  <1>3. /\ <<"hd", "ev", "sipd", "losd">>[3] = "sipd"
        /\ 3 \in DOMAIN <<"hd", "ev", "sipd", "losd">>
    OBVIOUS
  <1> QED BY <1>1, <1>2, <1>3 DEF Range

\* A .sipd sender that begins to unlink will unlink its touch file.
LEMMA UnlinkingHeld ==
    ASSUME TypeOK, TouchHeld, NEW s \in Sips, NEW q, Unlinking(s, q),
           "sipd" \in Range(q), q # <<>>, UNCHANGED <<fs, cur>>
    PROVE  TouchHeld'
  <1>1. /\ pc' = [pc EXCEPT ![s] = "unlink"] /\ todo' = [todo EXCEPT ![s] = q]
    BY DEF Unlinking
  <1>2. \A t \in Sips, e \in Events : Holds(t, e) => Holds(t, e)'
    BY <1>1, Members DEF Holds, TypeOK
  <1> QED BY <1>2, HeldStep

\* No step of a .sipd sender from one label to another lets go of a touch file.
LEMMA MoveHeld ==
    ASSUME TypeOK, TouchHeld, NEW s \in Sips, NEW l,
           pc' = [pc EXCEPT ![s] = l], UNCHANGED <<cur, todo>>,
           \A e \in Events : "sipd" \in fs'[e] => "sipd" \in fs[e],
           pc[s] \in {"idle", "check", "checkLosd", "touch"}
             \/ l \in {"take", "header", "body", "final"}
    PROVE  TouchHeld'
  <1>1. \A t \in Sips, e \in Events : Holds(t, e) => Holds(t, e)'
    BY Members DEF Holds, TypeOK
  <1> QED BY <1>1, HeldStep

LEMMA SipHeld ==
    ASSUME TypeOK, TouchHeld, NEW s \in Sips, Sip(s)
    PROVE  TouchHeld'
  <1>0. s \in Procs /\ cur[s] \in Events
    BY Members DEF TypeOK
  <1>1. CASE SipCheckLink(s) \/ SipCheckLosd(s)
    BY <1>1, MoveHeld DEF SipCheckLink, SipCheckLosd, Goto
  <1>2. CASE TouchFile(s, "sipd")
    <2>1. /\ fs' = [fs EXCEPT ![cur[s]] = @ \cup {"sipd"}]
          /\ pc' = [pc EXCEPT ![s] = "take"] /\ UNCHANGED <<cur, todo>>
      BY <1>2 DEF TouchFile
    <2>2. Holds(s, cur[s])'
      BY <1>0, <2>1 DEF Holds, TypeOK
    <2>3. ASSUME NEW e \in Events, e # cur[s], "sipd" \in fs'[e]
          PROVE  \E t \in Sips : Holds(t, e)'
      <3>1. "sipd" \in fs[e]
        BY <2>1, <2>3 DEF TypeOK
      <3>2. PICK t \in Sips : Holds(t, e)
        BY <3>1 DEF TouchHeld
      <3>3. t # s
        BY <2>3, <3>2 DEF Holds
      <3> QED BY <2>1, <3>2, <3>3, Members DEF Holds, TypeOK
    <2> QED BY <2>1, <2>2, <2>3 DEF TouchHeld
  <1>3. CASE TakeLink(s)
    <2>1. \A e \in Events : "sipd" \in fs'[e] => "sipd" \in fs[e]
      BY <1>3 DEF TakeLink, TypeOK
    <2> QED BY <1>3, <2>1, MoveHeld DEF TakeLink
  <1>4. CASE FillHeader(s, <<"sipd", "hd">>)
    <2>1. CASE Has(s, "hd")
      BY <1>4, <2>1, MoveHeld DEF FillHeader, Goto
    <2>2. CASE ~Has(s, "hd")
      BY <1>4, <2>2, SipLists, UnlinkingHeld DEF FillHeader
    <2> QED BY <2>1, <2>2
  <1>5. CASE SendBody(s, <<"hd", "ev", "sipd">>)
    <2>1. CASE Has(s, "ev")
      BY <1>5, <2>1, MoveHeld DEF SendBody
    <2>2. CASE ~Has(s, "ev")
      BY <1>5, <2>2, SipLists, UnlinkingHeld DEF SendBody
    <2> QED BY <2>1, <2>2
  <1>6. CASE SipFinal(s)
    <2>1. CASE Has(s, "losd")
      BY <1>6, <2>1, SipLists, UnlinkingHeld DEF SipFinal
    <2>2. CASE ~Has(s, "losd")
      BY <1>6, <2>2, SipLists, UnlinkingHeld DEF SipFinal
    <2> QED BY <2>1, <2>2
  <1>7. CASE UnlinkNext(s)
    BY <1>0, <1>7, UnlinkNextHeld
  <1> QED BY <1>1, <1>2, <1>3, <1>4, <1>5, <1>6, <1>7 DEF Sip

LEMMA LosdHeld ==
    ASSUME TypeOK, TouchHeld, Losd
    PROVE  TouchHeld'
  <1>1. CASE UnlinkNext("LOSd")
    BY <1>1, Members, UnlinkNextHeld
  <1>2. CASE ~UnlinkNext("LOSd")
    <2>1. /\ cur' = cur
          /\ \A s \in Sips : pc'[s] = pc[s] /\ todo'[s] = todo[s]
      BY <1>2, Members DEF Losd, LosdCheck, TouchFile, TakeLink, FillHeader,
         SendBody, LosdFinal, Goto, Unlinking, TypeOK
    <2>2. \/ fs' = fs
          \/ fs' = [fs EXCEPT ![cur["LOSd"]] = @ \cup {"losd"}]
          \/ fs' = [fs EXCEPT ![cur["LOSd"]] = @ \ {"link"}]
      <3>1. CASE TouchFile("LOSd", "losd") \/ TakeLink("LOSd")
        BY <3>1 DEF TouchFile, TakeLink
      <3>2. CASE \/ LosdCheck \/ LosdFinal
                 \/ FillHeader("LOSd", <<"hd", "losd">>)
                 \/ SendBody("LOSd", <<"hd", "ev", "losd">>)
        BY <3>2 DEF LosdCheck, FillHeader, SendBody, LosdFinal, Goto
      <3> QED BY <1>2, <3>1, <3>2 DEF Losd
    <2>3. \A e \in Events : "sipd" \in fs'[e] => "sipd" \in fs[e]
      <3>1. cur["LOSd"] \in Events /\ fs \in [Events -> SUBSET Files]
        BY Members DEF TypeOK
      <3> QED BY <2>2, <3>1
    <2> QED BY <2>1, <2>3, OthersStep
  <1> QED BY <1>1, <1>2

LEMMA MonitordHeld ==
    ASSUME TypeOK, TouchHeld, Monitord
    PROVE  TouchHeld'
  <1>0. \A s \in Sips : s # "Monitord" /\ s \in Procs
    BY Members
  <1>1. CASE UnlinkNext("Monitord")
    BY <1>1, Members, UnlinkNextHeld
  <1>2. CASE ~UnlinkNext("Monitord")
    <2>1. /\ fs' = fs
          /\ \A s \in Sips : pc'[s] = pc[s] /\ cur'[s] = cur[s] /\ todo'[s] = todo[s]
      BY <1>0, <1>2 DEF Monitord, PurgeBegin, PurgeCheckSipd, PurgeCheckLosd,
         Unlinking, TypeOK
    <2> QED BY <2>1, OthersStep
  <1> QED BY <1>1, <1>2

\* getLastLink is called by a sender that holds nothing; only LOSd is killed.
LEMMA ReaderHeld ==
    ASSUME TypeOK, TouchHeld, Sips \cap Killable = {},
           NEW r \in Readers, RefreshLinkDirs(r) \/ Fetch(r) \/ Kill(r)
    PROVE  TouchHeld'
  <1>1. CASE RefreshLinkDirs(r)
    BY <1>1, OthersStep DEF RefreshLinkDirs
  <1>2. CASE Fetch(r)
    <2>1. pc[r] = "idle" /\ UNCHANGED <<fs, todo>>
          /\ \A s \in Sips : s # r => pc'[s] = pc[s] /\ cur'[s] = cur[s]
      BY <1>2, Members DEF Fetch, GetLastLink, TypeOK
    <2>2. \A s \in Sips, e \in Events : Holds(s, e) => Holds(s, e)'
      BY <2>1 DEF Holds
    <2> QED BY <2>1, <2>2, HeldStep
  <1>3. CASE Kill(r)
    <2>1. r \notin Sips /\ UNCHANGED <<fs, cur>>
      BY <1>3 DEF Kill
    <2>2. \A s \in Sips : pc'[s] = pc[s] /\ todo'[s] = todo[s]
      BY <1>3, <2>1, Members DEF Kill, TypeOK
    <2> QED BY <2>1, <2>2, OthersStep
  <1> QED BY <1>1, <1>2, <1>3

LEMMA NextHeld ==
    ASSUME Sips \cap Killable = {}
    PROVE  TypeOK /\ TouchHeld /\ [Next]_vars => TouchHeld'
  <1> SUFFICES ASSUME TypeOK, TouchHeld, [Next]_vars PROVE TouchHeld'
    OBVIOUS
  <1>1. CASE UNCHANGED vars
    BY <1>1, OthersStep DEF vars
  <1> QED BY <1>1, WriteOutputHeld, ReaderHeld, LosdHeld, SipHeld, MonitordHeld
          DEF Next, Archived

\* While none of SIPd and Openportd is killed, whatever way their
\* readAndSendEventRamdisk returns, it leaves no touch file of theirs.  (A kill
\* of SIPd leaves one: its high-rate thread is cancelled for a command.)
THEOREM TouchReleased ==
    ASSUME Sips \cap Killable = {} PROVE Spec => []SipTouchReleased
  <1>1. Init => TouchHeld
    BY DEF Init, TouchHeld
  <1>2. TouchHeld => SipTouchReleased
    BY DEF TouchHeld, Holds, SipTouchReleased
  <1> QED BY <1>1, <1>2, NextHeld, Typing, PTL DEF Spec

-----------------------------------------------------------------------------
(* The hand-off implements the abstract queue.                             *)

\* The abstract state, as module TelemHandoff maps it.
Stage(e) == IF archived[e] # "linked" THEN "new"
            ELSE IF {"hd", "ev"} \subseteq fs[e] THEN "queued" ELSE "gone"

SentBy(e) == { r \in Readers : sent[r][e] > 0 }

\* A step that changes neither the sent counts nor what is recorded, and that
\* loses files of accounted events only, is a Delete or a stutter.
LEMMA FilesStep ==
    ASSUME HandoffInv, NEW c \in Events, archived[c] = "linked",
           UNCHANGED <<archived, sent, purged>>,
           \A e \in Events \ {c} : fs'[e] = fs[e],
           fs'[c] \cap {"hd", "ev"} \subseteq fs[c],
           Accounted(c) \/ fs[c] \cap {"hd", "ev"} \subseteq fs'[c]
    PROVE  [Delivery!DeliveryNext]_(Delivery!deliveryVars)
  <1>1. \A e \in Events : SentBy(e)' = SentBy(e)
    BY DEF SentBy
  <1>2. \A e \in Events \ {c} : Stage(e)' = Stage(e)
    BY DEF Stage
  <1>3. Stage(c)' = Stage(c) \/ (Stage(c) = "queued" /\ Stage(c)' = "gone")
    BY DEF Stage
  <1>4. Stage(c)' # Stage(c) => SentBy(c) # {} \/ c \in purged
    BY DEF Stage, Accounted, SentBySomeone, SentBy
  <1>5. CASE Stage(c)' = Stage(c)
    BY <1>1, <1>2, <1>5 DEF Delivery!deliveryVars, Stage, SentBy
  <1>6. CASE Stage(c) = "queued" /\ Stage(c)' = "gone"
    <2>1. Delivery!Delete(c)
      BY <1>1, <1>2, <1>4, <1>6 DEF Delivery!Delete, Stage, SentBy
    <2> QED BY <2>1 DEF Delivery!DeliveryNext
  <1> QED BY <1>3, <1>5, <1>6

\* Nothing the queue mentions changes.
LEMMA StutterStep ==
    ASSUME UNCHANGED <<fs, archived, sent, purged>>
    PROVE  [Delivery!DeliveryNext]_(Delivery!deliveryVars)
  BY DEF Delivery!deliveryVars

LEMMA QueueStep ==
    ASSUME HandoffInv, NEW c \in Events, WriteOutputForTelem(c)
    PROVE  [Delivery!DeliveryNext]_(Delivery!deliveryVars)
  <1>1. /\ UNCHANGED <<sent, purged>>
        /\ archived[c] # "linked"
        /\ \A e \in Events \ {c} : fs'[e] = fs[e] /\ archived'[e] = archived[e]
        /\ archived'[c] = "linked" => {"hd", "ev"} \subseteq fs'[c]
    BY DEF WriteOutputForTelem, HandoffInv, TypeOK, WrittenInOrder
  <1>2. \A e \in Events : SentBy(e)' = SentBy(e)
    BY <1>1 DEF SentBy
  <1>3. \A e \in Events \ {c} : Stage(e)' = Stage(e)
    BY <1>1 DEF Stage
  <1>4. Stage(c) = "new" /\ Stage(c)' \in {"new", "queued"}
    BY <1>1 DEF Stage
  <1>5. CASE Stage(c)' = "new"
    BY <1>1, <1>2, <1>3, <1>4, <1>5 DEF Delivery!deliveryVars, Stage, SentBy
  <1>6. CASE Stage(c)' = "queued"
    <2>1. Delivery!Queue(c)
      BY <1>1, <1>2, <1>3, <1>4, <1>6 DEF Delivery!Queue, Stage, SentBy
    <2> QED BY <2>1 DEF Delivery!DeliveryNext
  <1> QED BY <1>4, <1>5, <1>6

LEMMA SendStep ==
    ASSUME HandoffInv, NEW p \in Readers, NEW s, SendBody(p, s)
    PROVE  [Delivery!DeliveryNext]_(Delivery!deliveryVars)
  <1>0. PICK c \in Events : c = cur[p]
    BY Members, CurrentType DEF HandoffInv
  <1>1. /\ pc[p] = "body"
        /\ sent \in [Readers -> [Events -> Nat]]
        /\ UNCHANGED <<fs, archived, purged>>
    BY DEF SendBody, HandoffInv, TypeOK
  <1>2. CASE sent' = sent
    BY <1>1, <1>2, StutterStep
  <1>3. CASE sent' = [sent EXCEPT ![p][c] = sent[p][c] + 1]
    <2>1. sent[p][c] = 0
      BY <1>0, <1>1, BodyIsFresh
    <2>2. /\ sent'[p][c] = 1
          /\ \A r \in Readers, e \in Events :
                r # p \/ e # c => sent'[r][e] = sent[r][e]
      BY <1>1, <1>3, <2>1, CounterChange
    <2>3. SentBy(c)' = SentBy(c) \cup {p} /\ p \notin SentBy(c)
      <3>1. \A r \in Readers : sent'[r][c] > 0 <=> sent[r][c] > 0 \/ r = p
        BY <2>2
      <3>2. ~(sent[p][c] > 0)
        BY <2>1
      <3> QED BY <3>1, <3>2 DEF SentBy
    <2>4. \A e \in Events \ {c} : SentBy(e)' = SentBy(e)
      BY <2>2 DEF SentBy
    <2>5. archived[c] = "linked"
      BY <1>0, <1>1, Members DEF HandoffInv, PrivateUntilLinked
    <2>6. Stage(c) # "new" /\ \A e \in Events : Stage(e)' = Stage(e)
      BY <1>1, <2>5 DEF Stage
    <2>7. Delivery!Send(p, c)
      BY <1>1, <2>3, <2>4, <2>6 DEF Delivery!Send, Stage, SentBy
    <2> QED BY <1>1, <2>7 DEF Delivery!DeliveryNext
  <1>4. sent' = sent \/ sent' = [sent EXCEPT ![p][c] = sent[p][c] + 1]
    BY <1>0 DEF SendBody
  <1> QED BY <1>2, <1>3, <1>4

LEMMA RecordStep ==
    ASSUME HandoffInv, PurgeCheckLosd
    PROVE  [Delivery!DeliveryNext]_(Delivery!deliveryVars)
  <1> DEFINE c == cur["Monitord"]
  <1>1. /\ pc["Monitord"] = "checkLosd" /\ c \in Events
        /\ UNCHANGED <<fs, archived, sent>>
        /\ purged' = purged \/ purged' = purged \cup {c}
    BY Members, CurrentType DEF PurgeCheckLosd, HandoffInv
  <1>2. CASE purged' = purged
    BY <1>1, <1>2, StutterStep
  <1>3. CASE purged' = purged \cup {c}
    <2>1. Stage(c) # "new"
      BY <1>1, Members DEF HandoffInv, PrivateUntilLinked, Stage
    <2>2. Delivery!Record(c)
      BY <1>1, <1>3, <2>1 DEF Delivery!Record, Stage
    <2> QED BY <1>1, <2>2 DEF Delivery!DeliveryNext
  <1> QED BY <1>1, <1>2, <1>3

LEMMA FileOfOneEvent ==
    ASSUME HandoffInv, NEW p \in Procs,
           \/ \E f \in {"losd", "sipd"} : TouchFile(p, f)
           \/ TakeLink(p)
           \/ UnlinkNext(p)
    PROVE  [Delivery!DeliveryNext]_(Delivery!deliveryVars)
  <1> DEFINE c == cur[p]
  <1>1. /\ UNCHANGED <<archived, sent, purged>>
        /\ pc[p] # "idle"
        /\ c \in Events
        /\ fs \in [Events -> SUBSET Files]
    BY CurrentType DEF TouchFile, TakeLink, UnlinkNext, HandoffInv, TypeOK
  <1>2. archived[c] = "linked"
    BY <1>1 DEF HandoffInv, PrivateUntilLinked
  <1>3. \A e \in Events \ {c} : fs'[e] = fs[e]
    BY <1>1 DEF TouchFile, TakeLink, UnlinkNext
  <1>4. fs'[c] \cap {"hd", "ev"} \subseteq fs[c]
    BY <1>1 DEF TouchFile, TakeLink, UnlinkNext
  <1>5. Accounted(c) \/ fs[c] \cap {"hd", "ev"} \subseteq fs'[c]
    BY <1>1 DEF TouchFile, TakeLink, UnlinkNext, HandoffInv, UnlinksAccounted
  <1> QED BY <1>1, <1>2, <1>3, <1>4, <1>5, FilesStep

LEMMA NextImplements ==
    HandoffInv /\ [Next]_vars => [Delivery!DeliveryNext]_(Delivery!deliveryVars)
  <1> SUFFICES ASSUME HandoffInv, [Next]_vars
               PROVE  [Delivery!DeliveryNext]_(Delivery!deliveryVars)
    OBVIOUS
  <1>1. CASE Archived
    BY <1>1, QueueStep DEF Archived
  <1>2. ASSUME NEW r \in Readers, RefreshLinkDirs(r) \/ Fetch(r) \/ Kill(r)
        PROVE  [Delivery!DeliveryNext]_(Delivery!deliveryVars)
    BY <1>2, StutterStep DEF RefreshLinkDirs, Fetch, GetLastLink, Kill
  <1>3. ASSUME NEW p \in Readers, NEW s, FillHeader(p, s)
        PROVE  [Delivery!DeliveryNext]_(Delivery!deliveryVars)
    BY <1>3, StutterStep DEF FillHeader, Goto
  <1>4. CASE Losd
    BY <1>3, <1>4, Members, FileOfOneEvent, SendStep, StutterStep
       DEF Losd, LosdCheck, LosdFinal, Goto
  <1>5. ASSUME NEW s \in Sips, Sip(s)
        PROVE  [Delivery!DeliveryNext]_(Delivery!deliveryVars)
    BY <1>3, <1>5, Members, FileOfOneEvent, SendStep, StutterStep
       DEF Sip, SipCheckLink, SipCheckLosd, SipFinal, Goto
  <1>6. CASE Monitord
    BY <1>6, Members, FileOfOneEvent, RecordStep, StutterStep
       DEF Monitord, PurgeBegin, PurgeCheckSipd
  <1>7. CASE UNCHANGED vars
    BY <1>7, StutterStep DEF vars
  <1> QED BY <1>1, <1>2, <1>4, <1>5, <1>6, <1>7 DEF Next

LEMMA InitImplements == Init => Delivery!DeliveryInit
  <1> SUFFICES ASSUME Init PROVE Delivery!DeliveryInit
    OBVIOUS
  <1>1. \A e \in Events : archived[e] = "new"
    BY DEF Init
  <1>2. \A e \in Events : SentBy(e) = {}
    BY DEF Init, SentBy
  <1> QED BY <1>1, <1>2 DEF Delivery!DeliveryInit, Init, SentBy

\* The five daemons together implement the abstract telemetry queue: each
\* downlink gets an event at most once, and the data go away only after a
\* downlink has had them or a purge file names the event.
THEOREM Refines == Spec => ImplementsDelivery
  <1> QED BY Inductive, InitImplements, NextImplements, PTL
          DEF Spec, ImplementsDelivery, Delivery!DeliverySpec

=============================================================================
