------------------------------ MODULE LinkWatch -----------------------------
(***************************************************************************)
(* common/linkWatchLib: the queue between two daemons is a directory of    *)
(* symbolic links.  The reader asks inotify for the creations (IN_CREATE), *)
(* scans the directory once, and from then on keeps the names of the links *)
(* in a doubly linked list in its own memory, taken from either end.       *)
(*                                                                         *)
(* The state of one watched directory.  The reader is single-threaded;     *)
(* the producer and whoever unlinks run at any time between its calls.     *)
(* Two kinds of daemons read: those of the event chain take the oldest     *)
(* link and never rescan (getFirstLink: Eventd, Prioritizerd, Archived,    *)
(* Cmdd, ...); the downlinks take the newest and rescan every              *)
(* REFRESH_LINKS_EVERY seconds (getLastLink, refreshLinkDirs: LOSd, SIPd,  *)
(* Openportd).                                                             *)
(***************************************************************************)
EXTENDS Naturals, Sequences, FiniteSets, Functions

CONSTANTS
    MaxName,        \* links are hd_1, hd_2, ..., hd_MaxName, created in order
    Limits,         \* the values of inotify's max_queued_events considered
    MaxDeaths       \* bound on how often the reader is killed and restarted

ASSUME LinkWatchAssumption ==
    /\ MaxName \in Nat \ {0}
    /\ Limits \subseteq Nat \ {0}
    /\ MaxDeaths \in Nat

Names == 1 .. MaxName

VARIABLES
    made,           \* how many links the producer has created
    dir,            \* the names whose link is in the directory
    phase,          \* "down", "watching" (inotify_add_watch done), "up"
    kernel,         \* inotify events the reader has not read yet
    list,           \* firstLink .. lastLink
    popped,         \* names handed to the reader since it started
    deaths,         \* how often the reader has died
    user,           \* what kind of daemon reads; never changes
    limit           \* max_queued_events of this system; never changes

fixed == <<deaths, user, limit>>
vars == <<made, dir, phase, kernel, list, popped, fixed>>

Users == {"chain", "downlink"}

\* inotify's queue holds everything there can be.
Lossless == limit >= MaxName

Phases == {"down", "watching", "up"}

\* The names of d as scandir returns them, in versionsort order.
Listings(d) ==
    { s \in [1 .. Cardinality(d) -> d] :
        \A i, j \in DOMAIN s : i < j => s[i] < s[j] }

Count(s, n) == Cardinality({ i \in DOMAIN s : s[i] = n })

\* Are creations reported?  The watch exists from inotify_add_watch on.
Watched == phase \in {"watching", "up"}

Init ==
    /\ made = 0
    /\ dir = {}
    /\ phase = "down"
    /\ kernel = <<>>
    /\ list = <<>>
    /\ popped = {}
    /\ deaths = 0
    /\ user \in Users
    /\ limit \in Limits

MutMakeLink ==
    /\ made < MaxName
    /\ dir' = dir \cup {made + 1}
    /\ kernel' = IF Watched /\ Len(kernel) < limit
                   THEN Append(kernel, made + 1) ELSE kernel
    /\ UNCHANGED <<made, phase, list, popped, fixed>>
\* makeLink by the producing daemon.  A full inotify queue drops the event.
MakeLink ==
    /\ made < MaxName
    /\ made' = made + 1
    /\ dir' = dir \cup {made + 1}
    /\ kernel' = IF Watched /\ Len(kernel) < limit
                   THEN Append(kernel, made + 1) ELSE kernel
    /\ UNCHANGED <<phase, list, popped, fixed>>

\* The reader, or another daemon, unlinks a link: nothing is reported.
Unlink(n) ==
    /\ n \in dir
    /\ dir' = dir \ {n}
    /\ UNCHANGED <<made, phase, kernel, list, popped, fixed>>

\* setupLinkWatchDir, first half: inotify_add_watch.
AddWatch ==
    /\ phase = "down"
    /\ phase' = "watching"
    /\ UNCHANGED <<made, dir, kernel, list, popped, fixed>>

\* setupLinkWatchDir, second half: prepLinkList.
PrepLinkList ==
    /\ phase = "watching"
    /\ \E s \in Listings(dir) : list' = list \o s
    /\ phase' = "up"
    /\ UNCHANGED <<made, dir, kernel, popped, fixed>>

MutSetupLinkWatchDir ==
    /\ \/ /\ phase = "down"
          /\ \E s \in Listings(dir) : list' = list \o s
          /\ phase' = "scanned"
       \/ /\ phase = "scanned"
          /\ phase' = "up"
          /\ UNCHANGED list
    /\ UNCHANGED <<made, dir, kernel, popped, fixed>>
SetupLinkWatchDir == AddWatch \/ PrepLinkList

MutCheckLinkDirs ==
    /\ phase = "up"
    /\ kernel # <<>>
    /\ list' = Append(list, Head(kernel))
    /\ kernel' = <<>>
    /\ UNCHANGED <<made, dir, phase, popped, fixed>>
\* checkLinkDirs: read events until select finds no more.
CheckLinkDirs ==
    /\ phase = "up"
    /\ kernel # <<>>
    /\ list' = list \o kernel
    /\ kernel' = <<>>
    /\ UNCHANGED <<made, dir, phase, popped, fixed>>

MutGetFirstLink ==
    /\ list # <<>>
    /\ popped' = popped \cup {list[Len(list)]}
    /\ list' = SubSeq(list, 1, Len(list) - 1)
GetFirstLink ==
    /\ list # <<>>
    /\ popped' = popped \cup {Head(list)}
    /\ list' = Tail(list)

GetLastLink ==
    /\ list # <<>>
    /\ popped' = popped \cup {list[Len(list)]}
    /\ list' = SubSeq(list, 1, Len(list) - 1)

GetLink ==
    /\ phase = "up"
    /\ \/ user = "chain" /\ GetFirstLink
       \/ user = "downlink" /\ GetLastLink
    /\ UNCHANGED <<made, dir, phase, kernel, fixed>>

MutRefreshNoEmpty ==
    /\ user = "downlink"
    /\ phase = "up"
    /\ \E s \in Listings(dir) : list' = list \o s
    /\ UNCHANGED <<made, dir, phase, kernel, popped, fixed>>
MutRefreshNoScan ==
    /\ user = "downlink"
    /\ phase = "up"
    /\ list' = <<>>
    /\ UNCHANGED <<made, dir, phase, kernel, popped, fixed>>
\* refreshLinkDirs: empty the list, then scan.  Events still in the kernel
\* stay there and are delivered later as well.
RefreshLinkDirs ==
    /\ user = "downlink"
    /\ phase = "up"
    /\ \E s \in Listings(dir) : list' = s
    /\ UNCHANGED <<made, dir, phase, kernel, popped, fixed>>

\* The reader's process dies; its inotify instance dies with it.
Die ==
    /\ deaths < MaxDeaths
    /\ deaths' = deaths + 1
    /\ phase # "down"
    /\ phase' = "down"
    /\ kernel' = <<>>
    /\ list' = <<>>
    /\ popped' = {}
    /\ UNCHANGED <<made, dir, user, limit>>

Next ==
    \/ MakeLink
    \/ \E n \in Names : Unlink(n)
    \/ SetupLinkWatchDir
    \/ CheckLinkDirs
    \/ GetLink
    \/ RefreshLinkDirs
    \/ Die

\* Every reader calls setupLinkWatchDir at start, and then checkLinkDirs and
\* getFirstLink or getLastLink in its main loop, and it unlinks what it has
\* been handed.  LOSd, SIPd and Openportd also call refreshLinkDirs, every
\* REFRESH_LINKS_EVERY (600) seconds.
Fairness ==
    /\ WF_vars(SetupLinkWatchDir)
    /\ WF_vars(CheckLinkDirs)
    /\ WF_vars(GetLink)
    /\ WF_vars(RefreshLinkDirs)
    /\ \A n \in Names : WF_vars(n \in popped /\ Unlink(n))

Spec == Init /\ [][Next]_vars /\ Fairness

-----------------------------------------------------------------------------
(* Properties *)

\* Every variable stays in its type, and the directory holds nothing the
\* producer has not made.
TypeOK ==
    /\ made \in 0 .. MaxName
    /\ dir \subseteq 1 .. made
    /\ phase \in Phases
    /\ kernel \in Seq(Names) /\ Len(kernel) <= limit
    /\ list \in Seq(Names)
    /\ popped \subseteq Names

\* No link is missed: once the reader is up, every link in the directory is
\* in its list, on its way there, or has been handed out.  It needs the watch
\* to be added before the scan (linkWatchLib.c:111 and :122) and a queue in
\* the kernel that does not overflow.
NoLinkMissed ==
    Lossless /\ phase = "up" =>
        dir \subseteq popped \cup Range(list) \cup Range(kernel)

\* The race that the comment at linkWatchLib.c:123 admits can put a name in
\* the list twice, and nothing can put it there three times, however often
\* the directory is rescanned and the reader restarted.
AtMostTwice ==
    \A n \in Names : Count(list, n) + Count(kernel, n) <= 2

\* A daemon of the event chain sees the links that are still on disk in
\* creation order: a name is never handed out before an older one that waits.
InCreationOrder ==
    Lossless /\ user = "chain" =>
        \A n \in popped, m \in dir : m < n => m \in popped

\* The feed promised to the daemons (module LinkFeed), which the inotify
\* queue and the linked list implement.
Feed == INSTANCE LinkFeed WITH
            offers <- [n \in Names |-> Count(list, n) + Count(kernel, n)],
            open <- phase = "up",
            lossy <- ~Lossless

\* Every step of the list, the kernel's queue and the directory is a step of
\* the feed: nothing is offered that was not created or found on disk.
ImplementsFeed == Feed!FeedSpec

\* A link that stays in the directory is eventually handed to the reader,
\* although inotify may drop its creation and the reader may die, provided
\* the reader rescans or nothing is dropped.
EventuallyHandedOut ==
    \A n \in Names :
        n \in dir /\ (Lossless \/ user = "downlink")
            ~> (n \in popped \/ n \notin dir)

=============================================================================
