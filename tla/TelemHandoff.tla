---------------------------- MODULE TelemHandoff ----------------------------
(***************************************************************************)
(* The event telemetry directory of one priority, shared without any lock  *)
(* by Archived (which fills it), LOSd, SIPd and Openportd (which send and  *)
(* delete) and Monitord (which purges it when nobody keeps up).            *)
(*                                                                         *)
(* For event e the directory may hold                                      *)
(*    ev    the waveforms,             ev_<e>.dat                          *)
(*    hd    the header,                hd_<e>.dat                          *)
(*    link  the link that queues it,   link/hd_<e>.dat                     *)
(*    losd  LOSd's touch file,         hd_<e>.dat.losd                     *)
(*    sipd  SIPd's or Openportd's,     hd_<e>.dat.sipd                     *)
(* A daemon that is to send e first looks for the other side's touch file, *)
(* then creates its own: two system calls, so both sides can hold a touch. *)
(* One step of the specification is one system call on the directory.      *)
(***************************************************************************)
EXTENDS Integers, FiniteSets, Sequences

CONSTANTS
    Events,         \* event numbers
    Sips,           \* the senders whose touch is .sipd: SIPd, Openportd
    Killable,       \* the senders that may be killed and restarted
    MaxQueue,       \* maxEventQueueSize of Monitord.config
    Margin          \* the 100 links of purgeDirectory

ASSUME HandoffAssumption ==
    /\ Events \subseteq Nat
    /\ IsFiniteSet(Events)
    /\ Events # {}
    /\ "LOSd" \notin Sips
    /\ "Monitord" \notin Sips
    /\ Killable \subseteq Sips \cup {"LOSd"}
    /\ MaxQueue \in Nat
    /\ Margin \in Nat

Readers == Sips \cup {"LOSd"}
Procs == Readers \cup {"Monitord"}

Files == {"ev", "hd", "link", "losd", "sipd"}

VARIABLES
    fs,             \* fs[e]: which of Files exist for event e
    archived,       \* archived[e]: how far Archived is with e
    feed,           \* feed[r][e]: entries of e in r's link list (LinkFeed)
    pc,             \* pc[p]: the system call p is about to make
    cur,            \* cur[p]: the event p is working on
    todo,           \* todo[p]: the files p is still going to unlink
    doomed,         \* the events Monitord has still to look at in this purge
    sent,           \* sent[r][e]: how often r has sent e (history)
    purged          \* events recorded in Monitord's purge files

vars == <<fs, archived, feed, pc, cur, todo, doomed, sent, purged>>

Stages == {"new", "body", "header", "linked"}
Labels == {"idle", "check", "checkLosd", "touch", "take", "header", "body",
           "final", "unlink"}

Links == { e \in Events : "link" \in fs[e] }

Init ==
    /\ fs = [e \in Events |-> {}]
    /\ archived = [e \in Events |-> "new"]
    /\ feed = [r \in Readers |-> [e \in Events |-> 0]]
    /\ pc = [p \in Procs |-> "idle"]
    /\ cur = [p \in Procs |-> CHOOSE e \in Events : TRUE]
    /\ todo = [p \in Procs |-> <<>>]
    /\ doomed = {}
    /\ sent = [r \in Readers |-> [e \in Events |-> 0]]
    /\ purged = {}

-----------------------------------------------------------------------------
(* Archived *)

MutWriteOutputForTelem(e) ==
    /\ \/ /\ archived[e] = "new"
          /\ archived' = [archived EXCEPT ![e] = "header"]
          /\ fs' = [fs EXCEPT ![e] = @ \cup {"hd"}]
          /\ UNCHANGED feed
       \/ /\ archived[e] = "header"
          /\ archived' = [archived EXCEPT ![e] = "body"]
          /\ fs' = [fs EXCEPT ![e] = @ \cup {"link"}]
          /\ feed' = [r \in Readers |-> [feed[r] EXCEPT ![e] = @ + 1]]
       \/ /\ archived[e] = "body"
          /\ archived' = [archived EXCEPT ![e] = "linked"]
          /\ fs' = [fs EXCEPT ![e] = @ \cup {"ev"}]
          /\ UNCHANGED feed
    /\ UNCHANGED <<pc, cur, todo, doomed, sent, purged>>
\* The waveforms first, then the header, and only then the link that makes
\* the event visible to the senders.
WriteOutputForTelem(e) ==
    /\ \/ /\ archived[e] = "new"
          /\ archived' = [archived EXCEPT ![e] = "body"]
          /\ fs' = [fs EXCEPT ![e] = @ \cup {"ev"}]
          /\ UNCHANGED feed
       \/ /\ archived[e] = "body"
          /\ archived' = [archived EXCEPT ![e] = "header"]
          /\ fs' = [fs EXCEPT ![e] = @ \cup {"hd"}]
          /\ UNCHANGED feed
       \/ /\ archived[e] = "header"
          /\ archived' = [archived EXCEPT ![e] = "linked"]
          /\ fs' = [fs EXCEPT ![e] = @ \cup {"link"}]
          /\ feed' = [r \in Readers |-> [feed[r] EXCEPT ![e] = @ + 1]]
    /\ UNCHANGED <<pc, cur, todo, doomed, sent, purged>>

-----------------------------------------------------------------------------
(* The link list of a sender, as linkWatchLib keeps it (module LinkFeed).  *)

\* refreshLinkDirs, or a scan after a creation inotify has not delivered.
RefreshLinkDirs(r) ==
    /\ pc[r] = "idle"
    /\ \E k \in [Events -> 0 .. 1] :
          /\ \A e \in Events : k[e] <= feed[r][e]
          /\ feed' = [feed EXCEPT ![r] =
                        [e \in Events |-> (IF e \in Links THEN 1 ELSE 0) + k[e]]]
    /\ UNCHANGED <<fs, archived, pc, cur, todo, doomed, sent, purged>>

\* getLastLink hands out an entry; the call of readAndSendEventRamdisk begins.
GetLastLink(r, e) ==
    /\ pc[r] = "idle"
    /\ feed[r][e] > 0
    /\ feed' = [feed EXCEPT ![r][e] = @ - 1]
    /\ cur' = [cur EXCEPT ![r] = e]
    /\ pc' = [pc EXCEPT ![r] = "check"]
    /\ UNCHANGED <<fs, archived, todo, doomed, sent, purged>>

\* The process is killed, or SIPd's high-rate thread is cancelled, and the
\* program starts again: it forgets its list and scans the directory.
Kill(r) ==
    /\ r \in Killable
    /\ pc' = [pc EXCEPT ![r] = "idle"]
    /\ todo' = [todo EXCEPT ![r] = <<>>]
    /\ feed' = [feed EXCEPT ![r] =
                  [e \in Events |-> IF e \in Links THEN 1 ELSE 0]]
    /\ UNCHANGED <<fs, archived, cur, doomed, sent, purged>>

-----------------------------------------------------------------------------
(* The system calls of a sender working on e == cur[p]. *)

Goto(p, l) ==
    /\ pc' = [pc EXCEPT ![p] = l]
    /\ UNCHANGED <<fs, archived, feed, cur, todo, doomed, sent, purged>>

\* Go on with unlinking the files s, in that order; none: the call returns.
Unlinking(p, s) ==
    /\ pc' = [pc EXCEPT ![p] = IF s = <<>> THEN "idle" ELSE "unlink"]
    /\ todo' = [todo EXCEPT ![p] = s]

Has(p, f) == f \in fs[cur[p]]

TouchFile(p, f) ==
    /\ pc[p] = "touch"
    /\ fs' = [fs EXCEPT ![cur[p]] = @ \cup {f}]
    /\ pc' = [pc EXCEPT ![p] = "take"]
    /\ UNCHANGED <<archived, feed, cur, todo, doomed, sent, purged>>

MutTakeLink(p) ==
    /\ pc[p] = "take"
    /\ Goto(p, "header")
\* The link goes: from here on no fresh scan offers the event.
TakeLink(p) ==
    /\ pc[p] = "take"
    /\ fs' = [fs EXCEPT ![cur[p]] = @ \ {"link"}]
    /\ pc' = [pc EXCEPT ![p] = "header"]
    /\ UNCHANGED <<archived, feed, cur, todo, doomed, sent, purged>>

\* fillHeader: on failure the files listed in s are unlinked.
FillHeader(p, s) ==
    /\ pc[p] = "header"
    /\ IF Has(p, "hd") THEN Goto(p, "body")
       ELSE /\ Unlinking(p, s)
            /\ UNCHANGED <<fs, archived, feed, cur, doomed, sent, purged>>

\* genericReadOfFile of the waveforms, and their transmission.
SendBody(p, s) ==
    /\ pc[p] = "body"
    /\ IF Has(p, "ev")
         THEN /\ sent' = [sent EXCEPT ![p][cur[p]] = @ + 1]
              /\ pc' = [pc EXCEPT ![p] = "final"]
              /\ UNCHANGED todo
         ELSE Unlinking(p, s) /\ UNCHANGED sent
    /\ UNCHANGED <<fs, archived, feed, cur, doomed, purged>>

UnlinkNext(p) ==
    /\ pc[p] = "unlink"
    /\ todo[p] # <<>>
    /\ fs' = [fs EXCEPT ![cur[p]] = @ \ {Head(todo[p])}]
    /\ Unlinking(p, Tail(todo[p]))
    /\ UNCHANGED <<archived, feed, cur, doomed, sent, purged>>

-----------------------------------------------------------------------------
(* LOSd: readAndSendEventRamdisk.  It never looks whether the link still   *)
(* exists, and on a missing header it tries to unlink psev_<e>.dat where   *)
(* the waveforms are ev_<e>.dat, so they stay.                             *)

MutLosdCheck ==
    /\ pc["LOSd"] = "check"
    /\ Goto("LOSd", "touch")
LosdCheck ==
    /\ pc["LOSd"] = "check"
    /\ Goto("LOSd", IF Has("LOSd", "sipd") THEN "idle" ELSE "touch")

\* Everything goes, unless SIPd is at it too: then it is left to SIPd.
LosdFinal ==
    /\ pc["LOSd"] = "final"
    /\ Unlinking("LOSd", IF Has("LOSd", "sipd") THEN <<>>
                         ELSE <<"hd", "ev", "losd">>)
    /\ UNCHANGED <<fs, archived, feed, cur, doomed, sent, purged>>

Losd ==
    \/ LosdCheck
    \/ TouchFile("LOSd", "losd")
    \/ TakeLink("LOSd")
    \/ FillHeader("LOSd", <<"hd", "losd">>)
    \/ SendBody("LOSd", <<"hd", "ev", "losd">>)
    \/ LosdFinal
    \/ UnlinkNext("LOSd")

-----------------------------------------------------------------------------
(* SIPd and Openportd: readAndSendEventRamdisk.  On a missing header they  *)
(* unlink hd_<e>.dat twice and the waveforms not at all.                   *)

SipCheckLink(s) ==
    /\ pc[s] = "check"
    /\ Goto(s, IF Has(s, "link") THEN "checkLosd" ELSE "idle")

SipCheckLosd(s) ==
    /\ pc[s] = "checkLosd"
    /\ Goto(s, IF Has(s, "losd") THEN "idle" ELSE "touch")

MutSipFinal(s) ==
    /\ pc[s] = "final"
    /\ Unlinking(s, IF Has(s, "losd") THEN <<"sipd">>
                    ELSE <<"hd", "ev", "sipd">>)
    /\ UNCHANGED <<fs, archived, feed, cur, doomed, sent, purged>>
MutSipFinalKeepsTouch(s) ==
    /\ pc[s] = "final"
    /\ Unlinking(s, IF Has(s, "losd") THEN <<"hd", "ev", "losd">>
                    ELSE <<"hd", "ev", "sipd">>)
    /\ UNCHANGED <<fs, archived, feed, cur, doomed, sent, purged>>
\* Everything goes, and LOSd's touch with it if LOSd has one.
SipFinal(s) ==
    /\ pc[s] = "final"
    /\ Unlinking(s, IF Has(s, "losd") THEN <<"hd", "ev", "sipd", "losd">>
                    ELSE <<"hd", "ev", "sipd">>)
    /\ UNCHANGED <<fs, archived, feed, cur, doomed, sent, purged>>

Sip(s) ==
    \/ SipCheckLink(s)
    \/ SipCheckLosd(s)
    \/ TouchFile(s, "sipd")
    \/ TakeLink(s)
    \/ FillHeader(s, <<"sipd", "hd">>)
    \/ SendBody(s, <<"hd", "ev", "sipd">>)
    \/ SipFinal(s)
    \/ UnlinkNext(s)

-----------------------------------------------------------------------------
(* Monitord: purgeDirectory. *)

LinksToSave == IF MaxQueue - Margin < 0 THEN Margin ELSE MaxQueue - Margin

\* The directory has more than MaxQueue links: all but the LinksToSave newest
\* are to go.
PurgeBegin ==
    /\ pc["Monitord"] = "idle"
    /\ doomed = {}
    /\ Cardinality(Links) > MaxQueue
    /\ \E old \in SUBSET Links :
          /\ Cardinality(old) = Cardinality(Links) - LinksToSave
          /\ \A d \in old, k \in Links \ old : d < k
          /\ doomed' = old
    /\ UNCHANGED <<fs, archived, feed, pc, cur, todo, sent, purged>>

\* The oldest of the doomed: an event with a .sipd touch is left alone.
PurgeCheckSipd(e) ==
    /\ pc["Monitord"] = "idle"
    /\ e \in doomed
    /\ \A d \in doomed : e <= d
    /\ doomed' = doomed \ {e}
    /\ cur' = [cur EXCEPT !["Monitord"] = e]
    /\ pc' = [pc EXCEPT !["Monitord"] =
                IF "sipd" \in fs[e] THEN "idle" ELSE "checkLosd"]
    /\ UNCHANGED <<fs, archived, feed, todo, sent, purged>>

MutPurgeCheckLosd ==
    /\ pc["Monitord"] = "checkLosd"
    /\ Unlinking("Monitord", <<"hd", "link", "ev">>)
    /\ purged' = IF Has("Monitord", "losd") THEN purged
                 ELSE purged \cup {cur["Monitord"]}
    /\ UNCHANGED <<fs, archived, feed, cur, doomed, sent>>
\* So is one with a .losd touch; any other is recorded and deleted.
PurgeCheckLosd ==
    /\ pc["Monitord"] = "checkLosd"
    /\ IF Has("Monitord", "losd")
         THEN Unlinking("Monitord", <<>>) /\ UNCHANGED purged
         ELSE /\ purged' = purged \cup {cur["Monitord"]}
              /\ Unlinking("Monitord", <<"hd", "link", "ev">>)
    /\ UNCHANGED <<fs, archived, feed, cur, doomed, sent>>

Monitord ==
    \/ PurgeBegin
    \/ \E e \in Events : PurgeCheckSipd(e)
    \/ PurgeCheckLosd
    \/ UnlinkNext("Monitord")

-----------------------------------------------------------------------------
Archived == \E e \in Events : WriteOutputForTelem(e)

Fetch(r) == \E e \in Events : GetLastLink(r, e)

Next ==
    \/ Archived
    \/ \E r \in Readers : RefreshLinkDirs(r) \/ Fetch(r) \/ Kill(r)
    \/ Losd
    \/ \E s \in Sips : Sip(s)
    \/ Monitord

Spec == Init /\ [][Next]_vars

\* Every daemon's main loop keeps running; nobody need be killed and Archived
\* need not write anything.
Fairness ==
    /\ WF_vars(Losd)
    /\ \A s \in Sips : WF_vars(Sip(s))
    /\ \A r \in Readers : WF_vars(Fetch(r))
    /\ WF_vars(Monitord)

FairSpec == Spec /\ Fairness

-----------------------------------------------------------------------------
(* Properties *)

\* Every variable stays in its type.
TypeOK ==
    /\ fs \in [Events -> SUBSET Files]
    /\ archived \in [Events -> Stages]
    /\ feed \in [Readers -> [Events -> Nat]]
    /\ pc \in [Procs -> Labels]
    /\ cur \in [Procs -> Events]
    /\ todo \in [Procs -> Seq(Files)]
    /\ doomed \in SUBSET Events
    /\ sent \in [Readers -> [Events -> Nat]]
    /\ purged \in SUBSET Events

SentBySomeone(e) == \E r \in Readers : sent[r][e] > 0

\* No event is lost on the ramdisk: when the header or the waveforms of a
\* queued event are gone, some daemon has sent the waveforms or Monitord has
\* put the event into a purge file.  Every deletion in the three senders and
\* in purgeDirectory has to be ordered after one of these, in every
\* interleaving and across kills.
NothingLostUnsent ==
    \A e \in Events :
        archived[e] = "linked" /\ ~({"hd", "ev"} \subseteq fs[e])
            => SentBySomeone(e) \/ e \in purged

\* A sender sends the waveforms of an event at most once, although its list
\* may offer the event twice, the other side may leave the files behind and
\* the sender may be restarted half way.  (Two senders may both send it: the
\* touch files do not exclude that.)
AtMostOnceEach ==
    \A r \in Readers, e \in Events : sent[r][e] <= 1

\* While no sender is killed, SIPd and Openportd leave no touch file behind:
\* whatever way readAndSendEventRamdisk returns, its .sipd is gone.
SipTouchReleased ==
    (\A s \in Sips : pc[s] = "idle") => \A e \in Events : "sipd" \notin fs[e]

\* Every queued event leaves the ramdisk, header, waveforms and link.
Drains ==
    \A e \in Events :
        archived[e] = "linked" ~> fs[e] \cap {"hd", "ev", "link"} = {}

\* The strengthening that makes the safety properties inductive.

Accounted(e) == SentBySomeone(e) \/ e \in purged

\* Until Archived has made the link nobody but Archived knows the event.
PrivateUntilLinked ==
    \A e \in Events : archived[e] # "linked" =>
        /\ "link" \notin fs[e]
        /\ e \notin doomed
        /\ \A r \in Readers : feed[r][e] = 0 /\ sent[r][e] = 0
        /\ \A p \in Procs : pc[p] # "idle" => cur[p] # e

\* The waveforms and the header are there when Archived makes the link.
WrittenInOrder ==
    \A e \in Events :
        /\ archived[e] \in {"body", "header"} => "ev" \in fs[e]
        /\ archived[e] = "header" => "hd" \in fs[e]

FinalHasSent ==
    \A r \in Readers : pc[r] = "final" => sent[r][cur[r]] > 0

\* A process deletes only what is accounted for, and the header first of all.
UnlinksAccounted ==
    \A p \in Procs : pc[p] = "unlink" =>
        /\ Accounted(cur[p])
        /\ todo[p] # <<>>
        /\ Head(todo[p]) = "hd" \/ "hd" \notin fs[cur[p]]

SentHasNoLink ==
    \A r \in Readers, e \in Events : sent[r][e] > 0 => "link" \notin fs[e]

\* A sender that has come as far as the header has removed the link.
TakenHasNoLink ==
    \A r \in Readers :
        pc[r] \in {"header", "body", "final"} => "link" \notin fs[cur[r]]

SipSendsFresh ==
    \A s \in Sips :
        pc[s] \in {"checkLosd", "touch", "take", "header", "body"} =>
            sent[s][cur[s]] = 0

\* r is still going to look at e.
Awaits(r, e) == feed[r][e] > 0 \/ (pc[r] = "check" /\ cur[r] = e)

\* LOSd does not look at the link; it is a .sipd touch, or the missing
\* header, that keeps it from sending again what it has already sent.
LosdHeldBack ==
    \A e \in Events :
        sent["LOSd"][e] > 0 /\ Awaits("LOSd", e) =>
            \/ "hd" \notin fs[e]
            \/ "sipd" \in fs[e]
            \/ (pc["LOSd"] \in {"final", "unlink"} /\ cur["LOSd"] = e)

LosdSendsFresh ==
    /\ pc["LOSd"] \in {"touch", "take", "header"} =>
          sent["LOSd"][cur["LOSd"]] = 0 \/ "hd" \notin fs[cur["LOSd"]]
    /\ pc["LOSd"] = "body" => sent["LOSd"][cur["LOSd"]] = 0

\* The inductive invariant of the hand-off: the conjunction of the types, the
\* safety properties and what the system calls of the daemons guarantee to one
\* another.
HandoffInv ==
    /\ TypeOK
    /\ PrivateUntilLinked
    /\ WrittenInOrder
    /\ FinalHasSent
    /\ UnlinksAccounted
    /\ NothingLostUnsent
    /\ SentHasNoLink
    /\ TakenHasNoLink
    /\ SipSendsFresh
    /\ LosdHeldBack
    /\ LosdSendsFresh
    /\ AtMostOnceEach

Delivery == INSTANCE TelemDelivery WITH
    stage <- [e \in Events |->
                IF archived[e] # "linked" THEN "new"
                ELSE IF {"hd", "ev"} \subseteq fs[e] THEN "queued" ELSE "gone"],
    sentBy <- [e \in Events |-> { r \in Readers : sent[r][e] > 0 }]

\* The hand-off implements the abstract telemetry queue.
ImplementsDelivery == Delivery!DeliverySpec

=============================================================================
