---------------------------- MODULE MCSafeHarbor ----------------------------
(* Two processes on one file, the first with two threads.                   *)
EXTENDS SafeHarbor, TLC

CONSTANTS l1, l2, t1, t2, t3

MCLedgerOf == t1 :> l1 @@ t2 :> l1 @@ t3 :> l2
=============================================================================
