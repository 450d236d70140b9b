----------------------------- MODULE ArchiveLife ----------------------------
(***************************************************************************)
(* What the archive promises of a saved letter and its reminders, without  *)
(* queues, workers, keys and failures.  The PDF of a letter lies in the    *)
(* archive, or in PendingDeletion/, or in both while it is being moved; the*)
(* letter is deleted only when it lies in PendingDeletion/ alone, and does *)
(* not come back.  A reminder is fired at most once, and not after it was  *)
(* cancelled.  What the bot says about either is true when it says so.     *)
(***************************************************************************)
CONSTANTS Letters, Reminders

VARIABLES
    status,             \* of the item of each letter
    places,             \* where the PDF of each letter lies
    reminders,          \* scheduled, due, or over
    deleted,            \* letters that were reported as deleted
    cancelled           \* reminders that were reported as cancelled

vars == <<status, places, reminders, deleted, cancelled>>

Init ==
    /\ status = [l \in Letters |-> "active"]
    /\ places = [l \in Letters |-> {"archive"}]
    /\ reminders = [r \in Reminders |-> "scheduled"]
    /\ deleted = {}
    /\ cancelled = {}

Copy(l) ==
    /\ "archive" \in places[l]
    /\ places' = [places EXCEPT ![l] = @ \cup {"pending"}]
    /\ UNCHANGED <<status, reminders, deleted, cancelled>>

Remove(l) ==
    /\ "pending" \in places[l]
    /\ places' = [places EXCEPT ![l] = @ \ {"archive"}]
    /\ UNCHANGED <<status, reminders, deleted, cancelled>>

Mark(l) ==
    /\ status[l] = "active"
    /\ places[l] = {"pending"}
    /\ status' = [status EXCEPT ![l] = "pending_deletion"]
    /\ UNCHANGED <<places, reminders, deleted, cancelled>>

\* PendingDeletion/ is emptied, also of what a failed deletion has left there.
Purge(l) ==
    /\ places' = [places EXCEPT ![l] = @ \ {"pending"}]
    /\ UNCHANGED <<status, reminders, deleted, cancelled>>

Reap(l) ==
    /\ status[l] = "pending_deletion"
    /\ status' = [status EXCEPT ![l] = "absent"]
    /\ UNCHANGED <<places, reminders, deleted, cancelled>>

ReportDeleted(l) ==
    /\ status[l] # "active"
    /\ "archive" \notin places[l]
    /\ deleted' = deleted \cup {l}
    /\ UNCHANGED <<status, places, reminders, cancelled>>

Change(r, from, to) ==
    /\ reminders[r] = from
    /\ reminders' = [reminders EXCEPT ![r] = to]
    /\ UNCHANGED <<status, places, deleted, cancelled>>

Cancel(r) == Change(r, "scheduled", "over")

Fire(r) == Change(r, "scheduled", "due")

\* Its message was sent, or given up.
Settle(r) == Change(r, "due", "over")

ReportCancelled(r) ==
    /\ reminders[r] # "scheduled"
    /\ cancelled' = cancelled \cup {r}
    /\ UNCHANGED <<status, places, reminders, deleted>>

Next ==
    \/ \E l \in Letters : \/ Copy(l) \/ Remove(l) \/ Mark(l) \/ Purge(l)
                          \/ Reap(l) \/ ReportDeleted(l)
    \/ \E r \in Reminders : \/ Cancel(r) \/ Fire(r) \/ Settle(r)
                            \/ ReportCancelled(r)

Spec == Init /\ [][Next]_vars
=============================================================================
