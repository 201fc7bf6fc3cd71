---------------------------- MODULE RetryPromise ----------------------------
(***************************************************************************)
(* NotificationPromise with manual retries: what the service promises      *)
(* about a notification whose document an operator may take out of ERROR   *)
(* again, without requests, answers or configurations.                     *)
(*                                                                         *)
(* The promise: only a document in ERROR is opened again, and whoever      *)
(* opens it owes the notification from that step on, until the document is *)
(* completed again or the retry is given up, which puts ERROR back.  A     *)
(* fault may break that off and strand the notification: it then counts as *)
(* waived.  A SENT document is never reopened.                             *)
(***************************************************************************)
EXTENDS NotificationPromise

\* A retry takes charge of the notification, or fails as it does so.
Reopen(k) ==
    /\ doc[k] = "ERROR"
    /\ doc' = [doc EXCEPT ![k] = "IN_PROCESS"]
    /\ \/ owed' = owed \cup {k} /\ UNCHANGED waived
       \/ waived' = waived \cup {k} /\ UNCHANGED owed
    /\ UNCHANGED notified

\* The retry is given up; another record may still be about the notification.
GiveUp(k) ==
    /\ doc[k] = "IN_PROCESS"
    /\ doc' = [doc EXCEPT ![k] = "ERROR"]
    /\ owed' \in {owed, owed \ {k}}
    /\ UNCHANGED <<waived, notified>>

\* A fault leaves the notification to nobody, or to what is still owed.
Strand(k) ==
    /\ waived' = waived \cup {k}
    /\ owed' \in {owed, owed \ {k}}
    /\ UNCHANGED <<doc, notified>>

RetryNext ==
    \/ PNext
    \/ \E k \in Key : Reopen(k) \/ GiveUp(k) \/ Strand(k)

RetrySpec == PInit /\ [][RetryNext]_pvars

=============================================================================
