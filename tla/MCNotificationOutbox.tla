----------------------- MODULE MCNotificationOutbox -----------------------
(***************************************************************************)
(* NotificationOutbox for TLC: three calls, of which the first delivers a  *)
(* payment; the others deliver it again, or debit below the threshold.     *)
(***************************************************************************)
EXTENDS NotificationOutbox

CONSTANTS c1, c2, c3, i1, t1

Invoice == [kind |-> "invoice", subject |-> i1]
Alert == [kind |-> "alert", subject |-> t1]
MCAsks == [c \in Calls |-> IF c = c1 THEN {Invoice} ELSE {Invoice, Alert}]
=============================================================================
