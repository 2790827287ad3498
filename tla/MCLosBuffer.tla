---------------------------- MODULE MCLosBuffer ----------------------------
(***************************************************************************)
(* LosBuffer on two directories of housekeeping: the command echoes, whose *)
(* last link is sent, too, and the requests, for which room is made.  A    *)
(* packet fits beside what is left below FlushAbove, as 8000 bytes do for  *)
(* 1000 and the largest packet; two of them do not.                        *)
(***************************************************************************)
EXTENDS LosBuffer

MCMaxSize == <<2, 2>>

=============================================================================
