------------------------- MODULE NotificationPromise -------------------------
(***************************************************************************)
(* What emd-notifier-sender promises about one notification (a message for *)
(* one TPP), without topics, listeners, retries or crashes.                *)
(*                                                                         *)
(*   doc      the state of its document                                    *)
(*   owed     the notifications the service has taken charge of and has    *)
(*            not discharged                                               *)
(*   waived   those that a consent or TPP lookup left out                  *)
(*   notified those the TPP has taken at least once                        *)
(*                                                                         *)
(* The promise: a notification is discharged only when its document is     *)
(* completed or it was waived; a document appears as IN_PROCESS, leaves    *)
(* that state only for SENT or ERROR and never returns to it; it becomes   *)
(* SENT only once the TPP has been notified.  Late work of a listener that *)
(* has lost its partition may still change a completed document between    *)
(* SENT and ERROR: the promise does not hide it.                           *)
(***************************************************************************)
CONSTANT Key

VARIABLES doc, owed, waived, notified

pvars == <<doc, owed, waived, notified>>

Completed == {"SENT", "ERROR"}

PInit ==
    /\ doc = [k \in Key |-> "none"]
    /\ owed = {}
    /\ waived = {}
    /\ notified = {}

\* A record about the notifications K is published.
Charge(K) ==
    /\ owed' = owed \cup K
    /\ UNCHANGED <<doc, waived, notified>>

\* The lookup leaves the notifications K out.
Waive(K) ==
    /\ waived' = waived \cup K
    /\ UNCHANGED <<doc, owed, notified>>

Open(k) ==
    /\ doc[k] = "none"
    /\ doc' = [doc EXCEPT ![k] = "IN_PROCESS"]
    /\ UNCHANGED <<owed, waived, notified>>

Notify(k) ==
    /\ notified' = notified \cup {k}
    /\ UNCHANGED <<doc, owed, waived>>

Complete(k, state) ==
    /\ doc[k] # "none"
    /\ state = "SENT" => k \in notified
    /\ doc' = [doc EXCEPT ![k] = state]
    /\ UNCHANGED <<owed, waived, notified>>

\* The last record about the notifications K is committed.
Discharge(K) ==
    /\ \A k \in K : doc[k] \in Completed \/ k \in waived
    /\ owed' = owed \ K
    /\ UNCHANGED <<doc, waived, notified>>

PNext ==
    \/ \E K \in SUBSET Key : Charge(K) \/ Waive(K) \/ Discharge(K)
    \/ \E k \in Key :
          \/ Open(k) \/ Notify(k)
          \/ \E state \in Completed : Complete(k, state)

PSpec == PInit /\ [][PNext]_pvars

=============================================================================
