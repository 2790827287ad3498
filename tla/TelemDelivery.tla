---------------------------- MODULE TelemDelivery ---------------------------
(***************************************************************************)
(* What the telemetry queue of one event priority promises, whoever drains *)
(* it: an event whose files have been queued is handed to each downlink at *)
(* most once, and its data disappear from the ramdisk only after some      *)
(* downlink has had them or Monitord has written it into a purge file.     *)
(***************************************************************************)
CONSTANTS Events,       \* event numbers
          Readers       \* the daemons that send events down

VARIABLES stage,        \* stage[e]: "new", "queued", "gone"
          sentBy,       \* sentBy[e]: the daemons that have sent e
          purged        \* the events recorded in a purge file

deliveryVars == <<stage, sentBy, purged>>

DeliveryInit ==
    /\ stage = [e \in Events |-> "new"]
    /\ sentBy = [e \in Events |-> {}]
    /\ purged = {}

Queue(e) ==
    /\ stage[e] = "new"
    /\ stage' = [stage EXCEPT ![e] = "queued"]
    /\ UNCHANGED <<sentBy, purged>>

\* A daemon that read the header before the files went away may still finish.
Send(r, e) ==
    /\ stage[e] # "new"
    /\ r \notin sentBy[e]
    /\ sentBy' = [sentBy EXCEPT ![e] = @ \cup {r}]
    /\ UNCHANGED <<stage, purged>>

Record(e) ==
    /\ stage[e] # "new"
    /\ purged' = purged \cup {e}
    /\ UNCHANGED <<stage, sentBy>>

Delete(e) ==
    /\ stage[e] = "queued"
    /\ sentBy[e] # {} \/ e \in purged
    /\ stage' = [stage EXCEPT ![e] = "gone"]
    /\ UNCHANGED <<sentBy, purged>>

DeliveryNext ==
    \E e \in Events :
        \/ Queue(e)
        \/ \E r \in Readers : Send(r, e)
        \/ Record(e)
        \/ Delete(e)

DeliverySpec == DeliveryInit /\ [][DeliveryNext]_deliveryVars

=============================================================================
