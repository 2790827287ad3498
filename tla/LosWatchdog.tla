---------------------------- MODULE LosWatchdog ----------------------------
(***************************************************************************)
(* LOSd's watchdog thread.  The main thread counts its writes before and   *)
(* after each, without a lock; the watchdog reads the two counters one     *)
(* after the other, sleeps for a second and reads them again, in the other *)
(* order.  If nothing has changed it ends the program.  LosBuffer has the  *)
(* outcome, WatchdogRaises; here is why it is nothing but a write that     *)
(* does not return.  The counters are unbounded: they have 64 bits.        *)
(***************************************************************************)
EXTENDS Integers

VARIABLES
    nwritesBefore, nwritesAfter,
    wpc,                \* the watchdog's next step
    before, after,      \* what it has read
    held    \* history: the write it found in progress when it read nwritesBefore,
            \* while that has not returned, or 0

counters == <<nwritesBefore, nwritesAfter>>
vars == <<counters, wpc, before, after, held>>

Init ==
    /\ nwritesBefore = 0 /\ nwritesAfter = 0
    /\ wpc = "look" /\ before = 0 /\ after = 0
    /\ held = 0

Writing == nwritesBefore # nwritesAfter

-----------------------------------------------------------------------------
(* The main thread *)

PollReady ==
    /\ ~Writing
    /\ nwritesBefore' = nwritesBefore + 1
    /\ UNCHANGED <<nwritesAfter, wpc, before, after, held>>

WriteReturns ==
    /\ Writing
    /\ nwritesAfter' = nwritesAfter + 1
    /\ held' = 0
    /\ UNCHANGED <<nwritesBefore, wpc, before, after>>

-----------------------------------------------------------------------------
(* watchdogThread *)

ReadAfter ==
    /\ wpc = "look"
    /\ after' = nwritesAfter
    /\ wpc' = "compare"
    /\ UNCHANGED <<counters, before, held>>

\* If the counters are equal it looks again a second later.
ReadBefore ==
    /\ wpc = "compare"
    /\ before' = nwritesBefore
    /\ held' = IF Writing THEN nwritesBefore ELSE 0
    /\ wpc' = IF nwritesBefore = after THEN "look" ELSE "sleep"
    /\ UNCHANGED <<counters, after>>

\* A second later.
WakeUp ==
    /\ wpc = "sleep"
    /\ wpc' = IF nwritesBefore = before THEN "again" ELSE "look"
    /\ UNCHANGED <<counters, before, after, held>>

ReadAfterAgain ==
    /\ wpc = "again"
    /\ wpc' = IF nwritesAfter = after THEN "raise" ELSE "look"
    /\ UNCHANGED <<counters, before, after, held>>

\* The program ends and is started again.
Raise ==
    /\ wpc = "raise"
    /\ nwritesBefore' = 0 /\ nwritesAfter' = 0
    /\ wpc' = "look" /\ before' = 0 /\ after' = 0
    /\ held' = 0

Next == PollReady \/ WriteReturns \/ ReadAfter \/ ReadBefore \/ WakeUp \/ ReadAfterAgain \/ Raise

Spec == Init /\ [][Next]_vars

-----------------------------------------------------------------------------
(* Properties *)

\* The watchdog ends the program only for a write that was in progress when it
\* went to sleep and has not returned since: never because the counters moved
\* between its four reads of them.
WatchdogSpares == [][wpc # "raise" /\ wpc' = "raise" => held # 0]_vars

=============================================================================
