------------------------------ MODULE LinkFeed ------------------------------
(***************************************************************************)
(* What linkWatchLib promises its users about one watched link directory,  *)
(* independently of inotify and of the linked list that implements it.     *)
(*                                                                         *)
(* A link created while the feed is open is offered to the reader, a link  *)
(* found in the directory when the feed opens or is rescanned is offered   *)
(* too, and an offer goes away only when the reader takes it, when a       *)
(* rescan replaces it or when the reader dies.  A name may be offered      *)
(* twice (once by the scan, once by inotify) and never more.               *)
(***************************************************************************)
EXTENDS Naturals

CONSTANT Names      \* the names of the links, each created at most once

VARIABLES dir,      \* the names whose symbolic link is in the directory
          offers,   \* offers[n]: how often the reader may still take n
          open,     \* the reader has its watch and has done its first scan
          lossy     \* may a creation go unreported until the next rescan?

feedVars == <<dir, offers, open, lossy>>

MaxOffers == 2

\* What one rescan offers: each link on disk once, and again each of the
\* creations k that inotify has not delivered yet.
Rescanned(d, k) == [n \in Names |-> (IF n \in d THEN 1 ELSE 0) + k[n]]

FeedInit ==
    /\ dir = {}
    /\ offers = [n \in Names |-> 0]
    /\ open = FALSE
    /\ lossy \in BOOLEAN

Create(n) ==
    /\ n \notin dir
    /\ offers[n] = 0
    /\ dir' = dir \cup {n}
    /\ \/ offers' = [offers EXCEPT ![n] = 1]
       \/ (~open \/ lossy) /\ UNCHANGED offers
    /\ UNCHANGED <<open, lossy>>

Remove(n) ==
    /\ dir' = dir \ {n}
    /\ UNCHANGED <<offers, open, lossy>>

Take(n) ==
    /\ open
    /\ offers[n] > 0
    /\ offers' = [offers EXCEPT ![n] = @ - 1]
    /\ UNCHANGED <<dir, open, lossy>>

\* The first scan adds to what inotify has already reported; a later rescan
\* starts from nothing but the undelivered creations.
Scan ==
    /\ open' = TRUE
    /\ \E k \in [Names -> 0 .. 1] :
          /\ \A n \in Names : k[n] <= offers[n]
          /\ offers' = Rescanned(dir, k)
    /\ UNCHANGED <<dir, lossy>>

Close ==
    /\ open' = FALSE
    /\ offers' = [n \in Names |-> 0]
    /\ UNCHANGED <<dir, lossy>>

FeedNext ==
    \/ \E n \in Names : Create(n) \/ Remove(n) \/ Take(n)
    \/ Scan
    \/ Close

FeedSpec == FeedInit /\ [][FeedNext]_feedVars

=============================================================================
