------------------------- MODULE LosWatchdog_proof -------------------------
(***************************************************************************)
(* The watchdog's two unlocked counters suffice.  What makes it so: the    *)
(* first thing it reads is nwritesAfter, which only grows; so if, a second *)
(* later, it is still what it was, no write has returned in between, and   *)
(* nwritesBefore, read in between and found different, was ahead of it.    *)
(***************************************************************************)
EXTENDS LosWatchdog, TLAPS

\* The inductive invariant.  The main thread is in one write at most; what the
\* watchdog has read of nwritesAfter lies behind it; and if a write was going on
\* when nwritesBefore was read, or has returned since, that shows.
WatchdogInv ==
    /\ nwritesAfter \in Nat /\ nwritesBefore \in {nwritesAfter, nwritesAfter + 1}
    /\ after \in Nat /\ before \in Nat
    /\ held \in Nat
    /\ wpc \in {"look", "compare", "sleep", "again", "raise"}
    /\ after <= nwritesAfter
    /\ wpc \in {"sleep", "again"} =>
          /\ before # after
          /\ held = 0 => after < nwritesAfter

LEMMA InvInit == Init => WatchdogInv
  BY DEF Init, WatchdogInv

\* Every step of either thread keeps the invariant.
LEMMA InvStep == WatchdogInv /\ [Next]_vars => WatchdogInv'
<1> SUFFICES ASSUME WatchdogInv, [Next]_vars PROVE WatchdogInv'
  OBVIOUS
<1>1. CASE PollReady
  BY <1>1 DEF WatchdogInv, PollReady, Writing
<1>2. CASE WriteReturns
  BY <1>2 DEF WatchdogInv, WriteReturns, Writing
<1>3. CASE ReadAfter
  BY <1>3 DEF WatchdogInv, ReadAfter, counters
<1>4. CASE ReadBefore
  <2>1. /\ held' = IF nwritesBefore # nwritesAfter THEN nwritesBefore ELSE 0
        /\ before' = nwritesBefore
    BY <1>4 DEF ReadBefore, Writing
  <2>2. wpc' \in {"look", "sleep"} /\ (wpc' = "sleep" => nwritesBefore # after)
    BY <1>4 DEF ReadBefore
  <2>3. UNCHANGED <<nwritesBefore, nwritesAfter, after>>
    BY <1>4 DEF ReadBefore, counters
  <2> QED
    BY <2>1, <2>2, <2>3 DEF WatchdogInv
<1>5. CASE WakeUp
  BY <1>5 DEF WatchdogInv, WakeUp, counters
<1>6. CASE ReadAfterAgain
  BY <1>6 DEF WatchdogInv, ReadAfterAgain, counters
<1>7. CASE Raise
  BY <1>7 DEF WatchdogInv, Raise
<1>8. CASE UNCHANGED vars
  BY <1>8 DEF WatchdogInv, vars, counters
<1> QED
  BY <1>1, <1>2, <1>3, <1>4, <1>5, <1>6, <1>7, <1>8 DEF Next

\* It raises the signal only when it reads nwritesAfter again and finds it
\* unchanged: then no write has returned, by the invariant.
LEMMA SparesStep ==
    WatchdogInv /\ [Next]_vars => [wpc # "raise" /\ wpc' = "raise" => held # 0]_vars
<1> SUFFICES ASSUME WatchdogInv, Next, wpc # "raise", wpc' = "raise"
             PROVE  held # 0
  BY DEF vars
<1>1. ReadAfterAgain
  BY DEF Next, PollReady, WriteReturns, ReadAfter, ReadBefore, WakeUp, Raise
<1>2. nwritesAfter = after /\ wpc = "again"
  BY <1>1 DEF ReadAfterAgain
<1> QED
  BY <1>2 DEF WatchdogInv

\* The watchdog of LOSd ends the program only for a write that has been in
\* progress for the whole second it slept (LOSd.c:213, where a comment doubts it).
THEOREM WatchdogIsRight == Spec => WatchdogSpares
<1>1. Spec => []WatchdogInv
  BY InvInit, InvStep, PTL DEF Spec
<1>2. QED
  BY <1>1, SparesStep, PTL DEF Spec, WatchdogSpares

=============================================================================
