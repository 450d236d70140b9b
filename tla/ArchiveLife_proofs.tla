------------------------- MODULE ArchiveLife_proofs -------------------------
(***************************************************************************)
(* Theorems about Archive, for any number of letters, chats, workers,      *)
(* presses and failures, and whether or not reads may be stale: it does    *)
(* what ArchiveLife says, /reminders hides no reminder, and what was       *)
(* pressed and answered has been done.                                     *)
(***************************************************************************)
EXTENDS Archive_proofs

-----------------------------------------------------------------------------
(* The variables of ArchiveLife.                                           *)

Status == [l \in Letters |-> letters[l].status]

\* Where a PDF lies, of what is in the bucket.
PlacesIn(keys, l) == {k.area : k \in keys \cap {ArchiveKey(l), PendingKey(l)}}

Places == [l \in Letters |-> PlacesIn(DOMAIN bucket, l)]

StateOf(r) == IF r \in schedules THEN "scheduled"
              ELSE IF attempts[r] > 0 THEN "due" ELSE "over"

States == [r \in Reminder |-> StateOf(r)]

\* One place of a function is changed.
LEMMA OnePlaceChanged ==
    ASSUME NEW S, NEW f, NEW g, NEW c \in S, NEW x,
           f = [d \in S |-> f[d]],
           g = [d \in S |-> g[d]],
           \A d \in S \ {c} : g[d] = f[d],
           g[c] = x
    PROVE  g = [f EXCEPT ![c] = x]
  OBVIOUS

\* A PDF lies where one of its two keys says.
LEMMA PlacesAre ==
    ASSUME NEW keys, NEW l \in Letters
    PROVE  /\ "archive" \in PlacesIn(keys, l) <=> ArchiveKey(l) \in keys
           /\ "pending" \in PlacesIn(keys, l) <=> PendingKey(l) \in keys
           /\ PlacesIn(keys, l) \subseteq {"archive", "pending"}
  <1>1. ArchiveKey(l).area = "archive" /\ PendingKey(l).area = "pending"
    BY DEF ArchiveKey, PendingKey
  <1> QED
    BY <1>1 DEF PlacesIn

\* Sets of places are told apart by the two places.
LEMMA SamePlaces ==
    ASSUME NEW S \in SUBSET {"archive", "pending"},
           NEW T \in SUBSET {"archive", "pending"},
           "archive" \in S <=> "archive" \in T,
           "pending" \in S <=> "pending" \in T
    PROVE  S = T
  <1>1. \A x \in S : x \in T
    OBVIOUS
  <1>2. \A x \in T : x \in S
    OBVIOUS
  <1> QED
    BY <1>1, <1>2

\* One key more is one place more, of one letter.
LEMMA PlaceGained ==
    ASSUME NEW keys, NEW there, NEW k \in Letters, there = keys \cup {PendingKey(k)}
    PROVE  /\ PlacesIn(there, k) = PlacesIn(keys, k) \cup {"pending"}
           /\ \A l \in Letters \ {k} : PlacesIn(there, l) = PlacesIn(keys, l)
  <1>1. \A l \in Letters :
            /\ ArchiveKey(l) \in there <=> ArchiveKey(l) \in keys
            /\ PendingKey(l) \in there <=> PendingKey(l) \in keys \/ l = k
    BY KeysDiffer
  <1> QED
    BY <1>1, PlacesAre, SamePlaces

\* One key less is one place less, of one letter.
LEMMA PlaceLost ==
    ASSUME NEW keys, NEW there, NEW k \in Letters
    PROVE  /\ there = keys \ {PendingKey(k)} =>
                /\ PlacesIn(there, k) = PlacesIn(keys, k) \ {"pending"}
                /\ \A l \in Letters \ {k} : PlacesIn(there, l) = PlacesIn(keys, l)
           /\ there = keys \ {ArchiveKey(k)} =>
                /\ PlacesIn(there, k) = PlacesIn(keys, k) \ {"archive"}
                /\ \A l \in Letters \ {k} : PlacesIn(there, l) = PlacesIn(keys, l)
  <1>1. ASSUME there = keys \ {PendingKey(k)}
        PROVE  /\ PlacesIn(there, k) = PlacesIn(keys, k) \ {"pending"}
               /\ \A l \in Letters \ {k} : PlacesIn(there, l) = PlacesIn(keys, l)
    <2>1. \A l \in Letters :
              /\ ArchiveKey(l) \in there <=> ArchiveKey(l) \in keys
              /\ PendingKey(l) \in there <=> PendingKey(l) \in keys /\ l # k
      BY <1>1, KeysDiffer
    <2> QED
      BY <2>1, PlacesAre, SamePlaces
  <1>2. ASSUME there = keys \ {ArchiveKey(k)}
        PROVE  /\ PlacesIn(there, k) = PlacesIn(keys, k) \ {"archive"}
               /\ \A l \in Letters \ {k} : PlacesIn(there, l) = PlacesIn(keys, l)
    <2>1. \A l \in Letters :
              /\ ArchiveKey(l) \in there <=> ArchiveKey(l) \in keys /\ l # k
              /\ PendingKey(l) \in there <=> PendingKey(l) \in keys
      BY <1>2, KeysDiffer
    <2> QED
      BY <2>1, PlacesAre, SamePlaces
  <1> QED
    BY <1>1, <1>2

-----------------------------------------------------------------------------
(* What a change of these variables is in ArchiveLife.                     *)

\* Nothing but the places of a letter changes.
LEMMA PlaceSteps ==
    ASSUME NEW l \in Letters, NEW now,
           Places' = [Places EXCEPT ![l] = now],
           Status' = Status, States' = States,
           deleted' = deleted, cancelled' = cancelled
    PROVE  /\ "archive" \in Places[l] /\ now = Places[l] \cup {"pending"}
                  => Life!Copy(l)
           /\ "pending" \in Places[l] /\ now = Places[l] \ {"archive"}
                  => Life!Remove(l)
           /\ now = Places[l] \ {"pending"} => Life!Purge(l)
  <1>1. "archive" \in Places[l] /\ now = Places[l] \cup {"pending"} => Life!Copy(l)
    BY DEF Life!Copy, Status, Places, PlacesIn, States, StateOf
  <1>2. "pending" \in Places[l] /\ now = Places[l] \ {"archive"} => Life!Remove(l)
    BY DEF Life!Remove, Status, Places, PlacesIn, States, StateOf
  <1>3. now = Places[l] \ {"pending"} => Life!Purge(l)
    BY DEF Life!Purge, Status, Places, PlacesIn, States, StateOf
  <1> QED
    BY <1>1, <1>2, <1>3

\* Nothing but the status of a letter changes.
LEMMA StatusSteps ==
    ASSUME NEW l \in Letters, NEW now,
           Status' = [Status EXCEPT ![l] = now],
           Places' = Places, States' = States,
           deleted' = deleted, cancelled' = cancelled
    PROVE  /\ (/\ Status[l] = "active" /\ Places[l] = {"pending"}
               /\ now = "pending_deletion")
                  => Life!Mark(l)
           /\ Status[l] = "pending_deletion" /\ now = "absent" => Life!Reap(l)
  <1>1. ASSUME Status[l] = "active", Places[l] = {"pending"},
               now = "pending_deletion"
        PROVE  Life!Mark(l)
    <2>1. Status' = [Status EXCEPT ![l] = "pending_deletion"]
      BY <1>1
    <2> QED
      BY <1>1, <2>1 DEF Life!Mark, Status, Places, PlacesIn, States, StateOf
  <1>2. Status[l] = "pending_deletion" /\ now = "absent" => Life!Reap(l)
    BY DEF Life!Reap, Status, Places, PlacesIn, States, StateOf
  <1> QED
    BY <1>1, <1>2

\* Nothing but the state of a reminder changes.
LEMMA StateSteps ==
    ASSUME NEW r \in Reminder, NEW now,
           States' = [States EXCEPT ![r] = now],
           Status' = Status, Places' = Places,
           deleted' = deleted, cancelled' = cancelled
    PROVE  /\ States[r] = "scheduled" /\ now = "over" => Life!Cancel(r)
           /\ States[r] = "scheduled" /\ now = "due" => Life!Fire(r)
           /\ States[r] = "due" /\ now = "over" => Life!Settle(r)
  <1>1. ASSUME NEW from, States[r] = from
        PROVE  Life!Change(r, from, now)
    BY <1>1 DEF Life!Change, Status, Places, PlacesIn, States, StateOf
  <1> QED
    BY <1>1 DEF Life!Cancel, Life!Fire, Life!Settle

\* Only what the bot reported changes, or nothing.
LEMMA ReportSteps ==
    ASSUME Status' = Status, Places' = Places, States' = States
    PROVE  /\ \A l \in Letters :
                (/\ Status[l] # "active" /\ "archive" \notin Places[l]
                 /\ deleted' = deleted \cup {l} /\ cancelled' = cancelled)
                    => Life!ReportDeleted(l)
           /\ \A r \in Reminder :
                (/\ States[r] # "scheduled"
                 /\ deleted' = deleted /\ cancelled' = cancelled \cup {r})
                    => Life!ReportCancelled(r)
           /\ deleted' = deleted /\ cancelled' = cancelled => UNCHANGED Life!vars
  <1>1. ASSUME NEW l \in Letters,
               Status[l] # "active", "archive" \notin Places[l],
               deleted' = deleted \cup {l}, cancelled' = cancelled
        PROVE  Life!ReportDeleted(l)
    BY <1>1 DEF Life!ReportDeleted, Status, Places, PlacesIn, States, StateOf
  <1>2. ASSUME NEW r \in Reminder, States[r] # "scheduled",
               deleted' = deleted, cancelled' = cancelled \cup {r}
        PROVE  Life!ReportCancelled(r)
    BY <1>2 DEF Life!ReportCancelled, Status, Places, PlacesIn, States, StateOf
  <1>3. deleted' = deleted /\ cancelled' = cancelled => UNCHANGED Life!vars
    BY DEF Life!vars, Status, Places, PlacesIn, States, StateOf
  <1> QED
    BY <1>1, <1>2, <1>3

-----------------------------------------------------------------------------
(* Every step of the archive is one of ArchiveLife, or none.               *)

\* A reminder that is still scheduled has not been fired.
SchedulesRest == \A r \in schedules : attempts[r] = 0

LifeInv == TypeInv /\ DeletionInv /\ CancelInv /\ SchedulesRest

\* Only a worker that cancels, and EventBridge, change reminders.
LEMMA RemindersStay ==
    ASSUME [Next]_vars,
           ~ \E w \in Workers : CancelReminder(w) \/ CancelAck(w),
           ~ \E r \in Reminder : Fire(r) \/ SendReminder(r) \/ SendFails(r)
    PROVE  UNCHANGED <<schedules, attempts, cancelled>>
  <1> USE DEF historyVars, reminderVars
  <1>1. ASSUME NEW w \in Workers, WorkerStep(w) \/ Fail(w)
        PROVE  UNCHANGED <<schedules, attempts, cancelled>>
    <2>1. CASE \/ Finish(w) \/ Fail(w) \/ ListingRefused(w) \/ PdfMissing(w)
               \/ DeleteMissing(w)
      BY <2>1 DEF Finish, Fail, ListingRefused, PdfMissing, DeleteMissing, GiveBack
    <2>2. CASE \/ QueryOrganizations(w) \/ QueryYears(w) \/ QueryByOrgYear(w)
               \/ QueryReminders(w)
      BY <2>2 DEF QueryOrganizations, QueryYears, QueryByOrgYear,
                  QueryReminders, Find
    <2>3. CASE \/ SendListing(w) \/ ListReminders(w) \/ GetLetter(w)
               \/ LetterNotFound(w) \/ ViewLetter(w) \/ RequestPdf(w)
               \/ ViewReminder(w) \/ DeleteCopy(w) \/ DeleteRemove(w)
               \/ DeleteMark(w) \/ DeleteAck(w)
      BY <2>3 DEF SendListing, ListReminders, GetLetter, LetterNotFound,
                  ViewLetter, RequestPdf, ViewReminder, DeleteCopy,
                  DeleteRemove, DeleteMark, DeleteAck
    <2> QED
      BY <1>1, <2>1, <2>2, <2>3 DEF WorkerStep
  <1>2. ASSUME \/ \E c \in Chats : \E ask \in buttons[c] : Ask(c, ask)
               \/ \E w \in Workers, m \in queue : Receive(w, m)
               \/ \E l \in Letters : Purge(l) \/ Reap(l)
               \/ UNCHANGED vars
        PROVE  UNCHANGED <<schedules, attempts, cancelled>>
    BY <1>2 DEF Ask, Receive, Purge, Reap, vars
  <1> QED
    BY <1>1, <1>2 DEF Next

\* A schedule is deleted before reminder-sender is invoked, and none is made.
LEMMA RestStep == TypeInv /\ SchedulesRest /\ [Next]_vars => SchedulesRest'
  <1> SUFFICES ASSUME TypeInv, SchedulesRest, [Next]_vars
               PROVE  SchedulesRest'
    OBVIOUS
  <1>1. schedules' \subseteq schedules
    BY SchedulesGo
  <1>2. attempts \in [Reminder -> 0..MaxSends] /\ schedules \subseteq Reminder
    BY DEF TypeInv, TypeOK, RemindersOK
  <1>3. ASSUME NEW r \in Reminder, Fire(r) \/ SendReminder(r) \/ SendFails(r)
        PROVE  SchedulesRest'
    <2>1. /\ \A s \in Reminder \ {r} : attempts'[s] = attempts[s]
          /\ r \notin schedules'
      <3>1. attempts[r] \in Nat
        BY <1>2
      <3>2. attempts[r] > 0 => r \notin schedules
        BY <3>1 DEF SchedulesRest
      <3> QED
        BY <1>2, <1>3, <3>2 DEF Fire, SendReminder, SendFails
    <2> QED
      BY <1>1, <1>2, <2>1 DEF SchedulesRest
  <1>4. CASE attempts' = attempts
    BY <1>1, <1>4 DEF SchedulesRest
  <1>5. ASSUME NEW w \in Workers, CancelReminder(w) \/ CancelAck(w)
        PROVE  attempts' = attempts
    BY <1>5 DEF CancelReminder, CancelAck, reminderVars
  <1> QED
    BY <1>3, <1>4, <1>5, RemindersStay

\* A step of a deletion, where it changes the bucket.
LEMMA BucketSteps ==
    ASSUME TypeInv, DeletionInv, NEW l \in Letters,
           \/ \E w \in Workers : /\ DeleteCopy(w) \/ DeleteRemove(w)
                                 /\ l = job[w].ask.letter
           \/ Purge(l)
    PROVE  Life!Next
  <1>1. /\ Status' = Status /\ States' = States
        /\ deleted' = deleted /\ cancelled' = cancelled
    <2>1. UNCHANGED <<letters, schedules, attempts, deleted, cancelled>>
      BY DEF DeleteCopy, DeleteRemove, Purge, reminderVars
    <2> QED
      BY <2>1 DEF Status, States, StateOf
  <1> PICK keys, there : keys = DOMAIN bucket /\ there = DOMAIN bucket'
    OBVIOUS
  <1>2. ASSUME \A k \in Letters \ {l} : PlacesIn(there, k) = PlacesIn(keys, k)
        PROVE  Places' = [Places EXCEPT ![l] = PlacesIn(there, l)]
    <2>1. /\ Places = [k \in Letters |-> PlacesIn(keys, k)]
          /\ Places' = [k \in Letters |-> PlacesIn(there, k)]
      BY <1>2 DEF Places, PlacesIn
    <2> PICK f, g : f = Places /\ g = Places'
      OBVIOUS
    <2>2. /\ f = [k \in Letters |-> f[k]] /\ g = [k \in Letters |-> g[k]]
          /\ \A k \in Letters \ {l} : g[k] = f[k]
          /\ g[l] = PlacesIn(there, l)
      BY <1>2, <2>1
    <2>3. g = [f EXCEPT ![l] = PlacesIn(there, l)]
      BY <2>2, OnePlaceChanged
    <2> QED
      BY <2>3
  <1>3. Places[l] = PlacesIn(keys, l)
    BY DEF Places
  <1>4. ASSUME NEW w \in Workers, DeleteCopy(w), l = job[w].ask.letter
        PROVE  Life!Next
    <2>1. /\ Goto(w, "delete_copy", "delete_remove") /\ local' = local
          /\ DOMAIN bucket' = keys \cup {PendingKey(l)}
          /\ local[w].key \in keys
      BY <1>4 DEF DeleteCopy, CanCopy, CopyObject, PutObject
    <2>2. ArchiveKey(l) \in keys
      <3>1. "delete_copy" \in LetterSteps /\ "delete_remove" \in Steps
        BY DEF LetterSteps, Steps
      <3>2. Knows(w, l)
        BY <1>4, <2>1, <3>1, DeletionMoves
      <3> QED
        BY <2>1, <3>2 DEF Knows
    <2>3. "archive" \in Places[l]
      BY <1>3, <2>2, PlacesAre
    <2>4. Places' = [Places EXCEPT ![l] = Places[l] \cup {"pending"}]
      <3>1. there = keys \cup {PendingKey(l)}
        BY <2>1
      <3>2. /\ PlacesIn(there, l) = Places[l] \cup {"pending"}
            /\ \A k \in Letters \ {l} : PlacesIn(there, k) = PlacesIn(keys, k)
        BY <1>3, <3>1, PlaceGained
      <3> QED
        BY <1>2, <3>2
    <2>5. Life!Copy(l)
      BY <1>1, <2>3, <2>4, PlaceSteps
    <2> QED
      BY <2>5 DEF Life!Next
  <1>5. ASSUME NEW w \in Workers, DeleteRemove(w), l = job[w].ask.letter
        PROVE  Life!Next
    <2>1. /\ Goto(w, "delete_remove", "delete_mark") /\ local' = local
          /\ DOMAIN bucket' = keys \ {local[w].key}
      BY <1>5 DEF DeleteRemove, DeleteObject
    <2>2. PendingKey(l) \in keys /\ local[w].key = ArchiveKey(l)
      <3>1. "delete_remove" \in LetterSteps /\ "delete_mark" \in Steps
        BY DEF LetterSteps, Steps
      <3>2. Knows(w, l) /\ pc[w] = "delete_remove"
        BY <1>5, <2>1, <3>1, DeletionMoves
      <3> QED
        BY <2>1, <3>2 DEF Knows, CopiedSteps
    <2>3. "pending" \in Places[l]
      BY <1>3, <2>2, PlacesAre
    <2>4. Places' = [Places EXCEPT ![l] = Places[l] \ {"archive"}]
      <3>1. there = keys \ {ArchiveKey(l)}
        BY <2>1, <2>2
      <3>2. /\ PlacesIn(there, l) = Places[l] \ {"archive"}
            /\ \A k \in Letters \ {l} : PlacesIn(there, k) = PlacesIn(keys, k)
        BY <1>3, <3>1, PlaceLost
      <3> QED
        BY <1>2, <3>2
    <2>5. Life!Remove(l)
      BY <1>1, <2>3, <2>4, PlaceSteps
    <2> QED
      BY <2>5 DEF Life!Next
  <1>6. CASE Purge(l)
    <2>1. DOMAIN bucket' = keys \ {PendingKey(l)}
      BY <1>6 DEF Purge, DeleteObject
    <2>2. Places' = [Places EXCEPT ![l] = Places[l] \ {"pending"}]
      <3>1. there = keys \ {PendingKey(l)}
        BY <2>1
      <3>2. /\ PlacesIn(there, l) = Places[l] \ {"pending"}
            /\ \A k \in Letters \ {l} : PlacesIn(there, k) = PlacesIn(keys, k)
        BY <1>3, <3>1, PlaceLost
      <3> QED
        BY <1>2, <3>2
    <2>3. Life!Purge(l)
      BY <1>1, <2>2, PlaceSteps
    <2> QED
      BY <2>3 DEF Life!Next
  <1> QED
    BY <1>4, <1>5, <1>6

\* The item of a letter is marked, once or again, or goes.
LEMMA ItemSteps ==
    ASSUME TypeInv, DeletionInv, NEW l \in Letters,
           \/ \E w \in Workers : DeleteMark(w) /\ l = job[w].ask.letter
           \/ Reap(l)
    PROVE  [Life!Next]_(Life!vars)
  <1>1. /\ Places' = Places /\ States' = States
        /\ deleted' = deleted /\ cancelled' = cancelled
    <2>1. UNCHANGED <<bucket, schedules, attempts, deleted, cancelled>>
      BY DEF DeleteMark, Reap, reminderVars, historyVars
    <2> QED
      BY <2>1 DEF Places, PlacesIn, States, StateOf
  <1>2. letters \in [Letters -> Item \cup {NoItem}]
    BY DEF TypeInv, TypeOK, StoresOK
  <1>3. ASSUME \A k \in Letters \ {l} : letters'[k] = letters[k]
        PROVE  Status' = [Status EXCEPT ![l] = letters'[l].status]
    <2> PICK f, g, now : f = Status /\ g = Status' /\ now = letters'[l].status
      OBVIOUS
    <2>1. /\ f = [k \in Letters |-> f[k]] /\ g = [k \in Letters |-> g[k]]
          /\ \A k \in Letters \ {l} : g[k] = f[k]
          /\ g[l] = now
      BY <1>3 DEF Status
    <2>2. g = [f EXCEPT ![l] = now]
      BY <2>1, OnePlaceChanged
    <2> QED
      BY <2>2
  <1>4. Status[l] = letters[l].status
    BY DEF Status
  <1>5. CASE Reap(l)
    <2>1. /\ letters[l].status = "pending_deletion"
          /\ letters'[l] = NoItem
          /\ \A k \in Letters \ {l} : letters'[k] = letters[k]
      BY <1>2, <1>5 DEF Reap
    <2>2. letters'[l].status = "absent"
      BY <2>1 DEF NoItem
    <2>3. Status' = [Status EXCEPT ![l] = "absent"]
      BY <1>3, <2>1, <2>2
    <2>4. Life!Reap(l)
      BY <1>1, <1>4, <2>1, <2>3, StatusSteps
    <2> QED
      BY <2>4 DEF Life!Next
  <1>6. ASSUME NEW w \in Workers, DeleteMark(w), l = job[w].ask.letter
        PROVE  [Life!Next]_(Life!vars)
    <2>1. /\ Goto(w, "delete_mark", "delete_ack") /\ local' = local
          /\ letters' = [letters EXCEPT ![l].status = "pending_deletion",
                                        ![l].key = PendingKey(l)]
      BY <1>6 DEF DeleteMark
    <2>2. Knows(w, l) /\ letters[l] \in Item /\ pc[w] = "delete_mark"
      <3> PICK from, to : from = "delete_mark" /\ to = "delete_ack"
        OBVIOUS
      <3>1. from \in LetterSteps /\ to \in Steps /\ Goto(w, from, to)
        BY <2>1 DEF LetterSteps, Steps
      <3>2. local' = local /\ l = job[w].ask.letter
        BY <1>6, <2>1
      <3>3. Knows(w, l) /\ letters[l] \in Item /\ pc[w] = from
        BY <3>1, <3>2, DeletionMoves
      <3> QED
        BY <3>3
    <2>3. /\ letters'[l].status = "pending_deletion"
          /\ \A k \in Letters \ {l} : letters'[k] = letters[k]
      BY <1>2, <2>1, <2>2 DEF Item
    <2>4. Status' = [Status EXCEPT ![l] = "pending_deletion"]
      BY <1>3, <2>3
    <2>5. Places[l] = {"pending"}
      <3>1. PendingKey(l) \in DOMAIN bucket /\ ArchiveKey(l) \notin DOMAIN bucket
        BY <2>2 DEF Knows, CopiedSteps, MovedSteps
      <3>2. Places[l] = PlacesIn(DOMAIN bucket, l)
        BY DEF Places
      <3> QED
        BY <3>1, <3>2, PlacesAre, SamePlaces
    <2>6. CASE Status[l] = "active"
      <3>1. Life!Mark(l)
        BY <1>1, <2>4, <2>5, <2>6, StatusSteps
      <3> QED
        BY <3>1 DEF Life!Next
    <2>7. CASE Status[l] # "active"
      <3>1. Status[l] = "pending_deletion"
        BY <1>4, <2>2, <2>7 DEF Item
      <3>2. Status' = Status
        BY <2>4, <3>1 DEF Status
      <3> QED
        BY <1>1, <3>2, ReportSteps
    <2> QED
      BY <2>6, <2>7
  <1> QED
    BY <1>5, <1>6

\* What the bot reports is so.
LEMMA AckSteps ==
    ASSUME TypeInv, DeletionInv, CancelInv, NEW w \in Workers,
           DeleteAck(w) \/ CancelAck(w)
    PROVE  Life!Next
  <1>1. Status' = Status /\ Places' = Places /\ States' = States
    <2>1. UNCHANGED <<letters, bucket, schedules, attempts>>
      BY DEF DeleteAck, CancelAck, reminderVars
    <2> QED
      BY <2>1 DEF Status, Places, PlacesIn, States, StateOf
  <1>2. CASE DeleteAck(w)
    <2> PICK l : l = job[w].ask.letter
      OBVIOUS
    <2>1. /\ Goto(w, "delete_ack", "finish") /\ local' = local
          /\ deleted' = deleted \cup {l} /\ cancelled' = cancelled
      BY <1>2 DEF DeleteAck
    <2>2. l \in Letters /\ Knows(w, l) /\ pc[w] = "delete_ack"
      <3>1. "delete_ack" \in LetterSteps /\ "finish" \in Steps
        BY DEF LetterSteps, Steps
      <3> QED
        BY <2>1, <3>1, DeletionMoves
    <2>3. Status[l] # "active" /\ "archive" \notin Places[l]
      <3>1. letters[l].status # "active" /\ ArchiveKey(l) \notin DOMAIN bucket
        BY <2>2 DEF Knows, MovedSteps, Active
      <3>2. Places[l] = PlacesIn(DOMAIN bucket, l) /\ Status[l] = letters[l].status
        BY <2>2 DEF Places, Status
      <3> QED
        BY <2>2, <3>1, <3>2, PlacesAre
    <2>4. Life!ReportDeleted(l)
      BY <1>1, <2>1, <2>2, <2>3, ReportSteps
    <2> QED
      BY <2>2, <2>4 DEF Life!Next
  <1>3. CASE CancelAck(w)
    <2> PICK r : r = ReminderOf(job[w])
      OBVIOUS
    <2>1. /\ pc[w] = "cancel_ack"
          /\ cancelled' = cancelled \cup {r} /\ deleted' = deleted
      BY <1>3 DEF CancelAck, Goto, Advance
    <2>2. r \in Reminder
      <3>1. pc[w] # "idle" /\ pc[w] \in ReminderSteps
        BY <2>1 DEF ReminderSteps
      <3>2. job[w].ask \in Asks /\ job[w].ask.kind \in ReminderButtons
        BY <3>1, JobTyped DEF Fit
      <3> QED
        BY <3>2, AskTyped DEF Reminder, ReminderOf
    <2>3. States[r] # "scheduled"
      <3>1. r \notin schedules
        BY <2>1 DEF CancelInv
      <3> QED
        BY <2>2, <3>1 DEF States, StateOf
    <2>4. Life!ReportCancelled(r)
      BY <1>1, <2>1, <2>2, <2>3, ReportSteps
    <2> QED
      BY <2>2, <2>4 DEF Life!Next
  <1> QED
    BY <1>2, <1>3

\* A reminder is cancelled, fired, or over.
LEMMA ReminderMoves ==
    ASSUME TypeInv, SchedulesRest, NEW r,
           \/ r \in Reminder /\ (Fire(r) \/ SendReminder(r) \/ SendFails(r))
           \/ \E w \in Workers : CancelReminder(w) /\ r = ReminderOf(job[w])
    PROVE  [Life!Next]_(Life!vars)
  <1>1. /\ Status' = Status /\ Places' = Places
        /\ deleted' = deleted /\ cancelled' = cancelled
    <2>1. UNCHANGED <<letters, bucket, deleted, cancelled>>
      BY DEF Fire, SendReminder, SendFails, CancelReminder, historyVars
    <2> QED
      BY <2>1 DEF Status, Places, PlacesIn
  <1>2. /\ attempts \in [Reminder -> 0..MaxSends] /\ schedules \subseteq Reminder
        /\ MaxSends \in Nat \ {0}
    BY ConstantsAssumption DEF TypeInv, TypeOK, RemindersOK
  <1>3. ASSUME r \in Reminder,
               \A s \in Reminder \ {r} : /\ s \in schedules' <=> s \in schedules
                                         /\ attempts'[s] = attempts[s]
        PROVE  States' = [States EXCEPT ![r] = States'[r]]
    <2> PICK f, g, now : f = States /\ g = States' /\ now = States'[r]
      OBVIOUS
    <2>1. /\ f = [s \in Reminder |-> f[s]] /\ g = [s \in Reminder |-> g[s]]
          /\ \A s \in Reminder \ {r} : g[s] = f[s]
          /\ g[r] = now
      BY <1>3 DEF States, StateOf
    <2>2. g = [f EXCEPT ![r] = now]
      BY <1>3, <2>1, OnePlaceChanged
    <2> QED
      BY <2>2
  <1>4. ASSUME r \in Reminder
        PROVE  /\ States[r] = IF r \in schedules THEN "scheduled"
                              ELSE IF attempts[r] > 0 THEN "due" ELSE "over"
               /\ States'[r] = IF r \in schedules' THEN "scheduled"
                               ELSE IF attempts'[r] > 0 THEN "due" ELSE "over"
    BY <1>4 DEF States, StateOf
  <1>5. CASE r \in Reminder /\ Fire(r)
    <2>1. /\ r \in schedules /\ schedules' = schedules \ {r}
          /\ attempts' = [attempts EXCEPT ![r] = MaxSends]
      BY <1>5 DEF Fire
    <2>2. States[r] = "scheduled" /\ States'[r] = "due"
      BY <1>2, <1>4, <1>5, <2>1
    <2>3. States' = [States EXCEPT ![r] = States'[r]]
      BY <1>2, <1>3, <1>5, <2>1
    <2>4. Life!Fire(r)
      BY <1>1, <1>5, <2>2, <2>3, StateSteps
    <2> QED
      BY <1>5, <2>4 DEF Life!Next
  <1>6. CASE r \in Reminder /\ (SendReminder(r) \/ SendFails(r))
    <2>1. /\ attempts[r] > 0 /\ schedules' = schedules
          /\ attempts'[r] \in {0, attempts[r] - 1}
          /\ \A s \in Reminder \ {r} : attempts'[s] = attempts[s]
      BY <1>2, <1>6 DEF SendReminder, SendFails
    <2>2. attempts[r] \in Nat /\ attempts'[r] \in Nat
      BY <1>2, <1>6, <2>1
    <2>3. r \notin schedules
      BY <2>1, <2>2 DEF SchedulesRest
    <2>4. States[r] = "due" /\ States'[r] \in {"due", "over"}
      BY <1>4, <1>6, <2>1, <2>3
    <2>5. States' = [States EXCEPT ![r] = States'[r]]
      BY <1>3, <1>6, <2>1
    <2>6. CASE States'[r] = "over"
      <3>1. Life!Settle(r)
        BY <1>1, <1>6, <2>4, <2>5, <2>6, StateSteps
      <3> QED
        BY <1>6, <3>1 DEF Life!Next
    <2>7. CASE States'[r] = "due"
      <3>1. States' = States
        BY <2>4, <2>5, <2>7 DEF States
      <3> QED
        BY <1>1, <3>1, ReportSteps
    <2> QED
      BY <2>4, <2>6, <2>7
  <1>7. CASE \E w \in Workers : CancelReminder(w) /\ r = ReminderOf(job[w])
    <2>1. schedules' = schedules \ {r} /\ attempts' = attempts
      BY <1>7 DEF CancelReminder
    <2>2. CASE r \in schedules
      <3>1. r \in Reminder /\ attempts[r] = 0
        BY <1>2, <2>2 DEF SchedulesRest
      <3>2. States[r] = "scheduled" /\ States'[r] = "over"
        BY <1>4, <2>1, <2>2, <3>1
      <3>3. States' = [States EXCEPT ![r] = States'[r]]
        BY <1>3, <2>1, <3>1
      <3>4. Life!Cancel(r)
        BY <1>1, <3>1, <3>2, <3>3, StateSteps
      <3> QED
        BY <3>1, <3>4 DEF Life!Next
    <2>3. CASE r \notin schedules
      <3>1. schedules' = schedules
        BY <2>1, <2>3
      <3>2. States' = States
        BY <2>1, <3>1 DEF States, StateOf
      <3> QED
        BY <1>1, <3>2, ReportSteps
    <2> QED
      BY <2>2, <2>3
  <1> QED
    BY <1>5, <1>6, <1>7

\* Every letter has been saved, and every reminder is scheduled.
LEMMA LifeInit == Init => Life!Init
  <1> SUFFICES ASSUME Init
               PROVE  Life!Init
    OBVIOUS
  <1>1. Status = [l \in Letters |-> "active"]
    <2>1. \A l \in Letters : letters[l].status = "active"
      BY DEF Init, SavedItem
    <2> QED
      BY <2>1 DEF Status
  <1>2. Places = [l \in Letters |-> {"archive"}]
    <2>1. DOMAIN bucket = {ArchiveKey(l) : l \in Letters}
      BY DEF Init
    <2>2. \A l \in Letters : /\ ArchiveKey(l) \in DOMAIN bucket
                             /\ PendingKey(l) \notin DOMAIN bucket
      BY <2>1, KeysDiffer
    <2>3. \A l \in Letters : PlacesIn(DOMAIN bucket, l) = {"archive"}
      BY <2>2, PlacesAre, SamePlaces
    <2> QED
      BY <2>3 DEF Places
  <1>3. States = [r \in Reminder |-> "scheduled"]
    BY DEF Init, States, StateOf
  <1>4. deleted = {} /\ cancelled = {}
    BY DEF Init
  <1> QED
    BY <1>1, <1>2, <1>3, <1>4 DEF Life!Init, Status, Places, PlacesIn, States, StateOf

\* Every step is one of ArchiveLife or leaves its variables alone.
LEMMA LifeStep ==
    ASSUME LifeInv, [Next]_vars
    PROVE  [Life!Next]_(Life!vars)
  <1> USE DEF LifeInv
  <1>1. ASSUME NEW w \in Workers,
               DeleteCopy(w) \/ DeleteRemove(w) \/ DeleteMark(w)
        PROVE  [Life!Next]_(Life!vars)
    <2>1. job[w].ask.letter \in Letters
      <3>1. pc[w] \in LetterSteps
        BY <1>1 DEF DeleteCopy, DeleteRemove, DeleteMark, Goto, Advance, LetterSteps
      <3>2. pc[w] # "idle" /\ pc[w] \in HeldSteps
        BY <3>1 DEF LetterSteps, HeldSteps
      <3> QED
        BY <3>2, JobTyped
    <2> QED
      BY <1>1, <2>1, BucketSteps, ItemSteps
  <1>2. ASSUME NEW l \in Letters, Purge(l) \/ Reap(l)
        PROVE  [Life!Next]_(Life!vars)
    BY <1>2, BucketSteps, ItemSteps
  <1>3. ASSUME NEW w \in Workers, DeleteAck(w) \/ CancelAck(w)
        PROVE  [Life!Next]_(Life!vars)
    BY <1>3, AckSteps
  <1>4. ASSUME NEW w \in Workers, CancelReminder(w)
        PROVE  [Life!Next]_(Life!vars)
    BY <1>4, ReminderMoves
  <1>5. ASSUME NEW r \in Reminder, Fire(r) \/ SendReminder(r) \/ SendFails(r)
        PROVE  [Life!Next]_(Life!vars)
    BY <1>5, ReminderMoves
  <1>6. ASSUME ~ \E w \in Workers : \/ DeleteCopy(w) \/ DeleteRemove(w)
                                    \/ DeleteMark(w) \/ DeleteAck(w)
                                    \/ CancelAck(w) \/ CancelReminder(w),
               ~ \E l \in Letters : Purge(l) \/ Reap(l),
               ~ \E r \in Reminder : Fire(r) \/ SendReminder(r) \/ SendFails(r)
        PROVE  [Life!Next]_(Life!vars)
    <2>1. UNCHANGED <<bucket, letters, deleted>>
      BY <1>6, ArchiveStays
    <2>2. UNCHANGED <<schedules, attempts, cancelled>>
      BY <1>6, RemindersStay
    <2>3. Status' = Status /\ Places' = Places /\ States' = States
      BY <2>1, <2>2 DEF Status, Places, PlacesIn, States, StateOf
    <2> QED
      BY <2>1, <2>2, <2>3, ReportSteps
  <1> QED
    BY <1>1, <1>2, <1>3, <1>4, <1>5, <1>6

(***************************************************************************)
(* The archive implements ArchiveLife: whatever is pressed twice, delivered*)
(* again or fails half-way, and whoever is at work on the same letter, it  *)
(* is copied, removed, marked and reported in this order, its reminders are*)
(* fired once at most, and the bot reports nothing that is not so.         *)
(***************************************************************************)
THEOREM ArchiveImplementsLife == Spec => ImplementsArchiveLife
  <1>1. Init => LifeInv
    BY TypeInit, DeletionInit
    DEF LifeInv, Init, InvocationsInit, CancelInv, CancelledIsUnscheduled,
        SchedulesRest
  <1>2. LifeInv /\ [Next]_vars => LifeInv'
    BY TypeStep, DeletionStep, CancelStep, RestStep DEF LifeInv
  <1>3. LifeInv /\ [Next]_vars => [Life!Next]_(Life!vars)
    BY LifeStep
  <1> QED
    BY <1>1, <1>2, <1>3, LifeInit, PTL DEF Spec, ImplementsArchiveLife, Life!Spec

-----------------------------------------------------------------------------
(* What /reminders shows.                                                  *)

(***************************************************************************)
(* A worker that has queried the letters for /reminders has found all that *)
(* the chat still has, if the chat has no more than the query looks at.    *)
(***************************************************************************)
Few(c) == Cardinality({l \in Letters : Owner[l] = c}) <= QueryLimit

ListerKnows(w) ==
    pc[w] = "reminders_send" /\ Few(job[w].chat)
        => Visible(job[w].chat) \subseteq local[w].found

ListersKnow == \A w \in Workers : ListerKnows(w)

\* The query finds every letter that the chat still has, stale or not.
LEMMA QueryFindsAll ==
    ASSUME TypeInv, DeletionInv, NEW c, Few(c), NEW stale \in SUBSET MayBeStale
    PROVE  Visible(c) \subseteq Query(Seen(stale), c)
  <1> PICK all, found :
          /\ all = {l \in Letters : Owner[l] = c} /\ found = Items(Seen(stale), c)
    OBVIOUS
  <1>1. all \in SUBSET Letters /\ found \in SUBSET all /\ stale \in SUBSET Letters
    <2>1. stale \in SUBSET Letters
      BY DEF MayBeStale
    <2>2. \A l \in found : l \in Letters /\ Owner[l] = c
      BY <2>1, SeenOwner DEF Items
    <2> QED
      BY <2>1, <2>2
  <1>2. Cardinality(found) <= QueryLimit
    <2>1. IsFiniteSet(all)
      BY <1>1, LettersAssumption, FS_Subset
    <2>2. IsFiniteSet(found) /\ Cardinality(found) <= Cardinality(all)
      BY <1>1, <2>1, FS_Subset
    <2>3. /\ Cardinality(found) \in Nat /\ Cardinality(all) \in Nat
          /\ QueryLimit \in Nat
      BY <2>1, <2>2, FS_CardinalityType, LettersAssumption
    <2> QED
      BY <2>2, <2>3 DEF Few
  <1>3. FirstOf(found, NewestFirst, QueryLimit) = found
    <2>1. NewestFirst \in [Letters -> Int] /\ QueryLimit \in Nat
      BY LettersAssumption DEF NewestFirst
    <2>2. found \in SUBSET Letters
      BY <1>1
    <2> QED
      BY <1>2, <2>1, <2>2, FullPage
  <1>4. ASSUME NEW l \in Visible(c)
        PROVE  l \in found /\ Seen(stale)[l].status # "pending_deletion"
    <2>1. l \in Letters /\ letters[l].status = "active" /\ letters[l].chat = c
      BY DEF Visible
    <2>2. l \notin stale
      BY <2>1 DEF MayBeStale
    <2>3. Seen(stale)[l] = letters[l]
      BY <2>1, <2>2 DEF Seen
    <2>4. letters[l] # NoItem
      BY <2>1 DEF NoItem
    <2> QED
      BY <2>1, <2>3, <2>4 DEF Items
  <1> QED
    BY <1>3, <1>4 DEF Query, NotDeleted

\* A letter that a chat does not have any more does not come back.
LEMMA VisibleGoes ==
    ASSUME TypeInv, [Next]_vars, NEW c
    PROVE  Visible(c)' \subseteq Visible(c)
  <1>1. letters \in [Letters -> Item \cup {NoItem}]
    BY DEF TypeInv, TypeOK, StoresOK
  <1>2. ASSUME NEW k \in Letters,
               \A l \in Letters \ {k} : letters'[l] = letters[l],
               letters'[k].status # "active"
        PROVE  Visible(c)' \subseteq Visible(c)
    BY <1>2 DEF Visible
  <1>3. ASSUME NEW w \in Workers, DeleteMark(w)
        PROVE  Visible(c)' \subseteq Visible(c)
    <2> PICK k : k = job[w].ask.letter
      OBVIOUS
    <2>1. pc[w] = "delete_mark"
          /\ letters' = [letters EXCEPT ![k].status = "pending_deletion",
                                        ![k].key = PendingKey(k)]
      BY <1>3 DEF DeleteMark, Goto, Advance
    <2>2. k \in Letters /\ letters[k] \in Item
      <3>1. pc[w] # "idle" /\ pc[w] \in HeldSteps
        BY <2>1 DEF HeldSteps, LetterSteps
      <3> QED
        BY <3>1, JobTyped
    <2>3. /\ letters'[k].status = "pending_deletion"
          /\ \A l \in Letters \ {k} : letters'[l] = letters[l]
      BY <1>1, <2>1, <2>2 DEF Item
    <2> QED
      BY <1>2, <2>2, <2>3
  <1>4. ASSUME NEW k \in Letters, Reap(k)
        PROVE  Visible(c)' \subseteq Visible(c)
    <2>1. letters'[k] = NoItem /\ \A l \in Letters \ {k} : letters'[l] = letters[l]
      BY <1>1, <1>4 DEF Reap
    <2>2. letters'[k].status # "active"
      BY <2>1 DEF NoItem
    <2> QED
      BY <1>2, <2>1, <2>2
  <1>5. ASSUME letters' = letters
        PROVE  Visible(c)' \subseteq Visible(c)
    BY <1>5 DEF Visible
  <1>6. ASSUME NEW w \in Workers, DeleteCopy(w) \/ DeleteRemove(w) \/ DeleteAck(w)
        PROVE  letters' = letters
    BY <1>6 DEF DeleteCopy, DeleteRemove, DeleteAck
  <1>7. ASSUME NEW k \in Letters, Purge(k)
        PROVE  letters' = letters
    BY <1>7 DEF Purge
  <1> QED
    BY <1>3, <1>4, <1>5, <1>6, <1>7, ArchiveStays

\* Only the query brings a worker to the answer, and only the answer ends it.
LEMMA ListersMove ==
    ASSUME TypeInv, [Next]_vars, NEW v \in Workers
    PROVE  /\ pc'[v] = "reminders_send" =>
                \/ QueryReminders(v)
                \/ pc[v] = "reminders_send" /\ job'[v] = job[v] /\ local'[v] = local[v]
           /\ pc[v] = "reminders_send" /\ pc'[v] = "finish" => ListReminders(v)
  <1> DEFINE Goal ==
       /\ pc'[v] = "reminders_send" =>
            \/ QueryReminders(v)
            \/ pc[v] = "reminders_send" /\ job'[v] = job[v] /\ local'[v] = local[v]
       /\ pc[v] = "reminders_send" /\ pc'[v] = "finish" => ListReminders(v)
  <1>1. /\ pc \in [Workers -> Steps]
        /\ job \in [Workers -> Message \cup {NoMessage}]
        /\ local \in [Workers -> Local]
        /\ queue \subseteq Message
    BY DEF TypeInv, TypeOK, WorkersOK, MessagesOK
  <1>2. ASSUME NEW w \in Workers, NEW to,
               pc' = [pc EXCEPT ![w] = to],
               w # v => job'[v] = job[v] /\ local'[v] = local[v],
               to = "reminders_send" => QueryReminders(w),
               pc[w] = "reminders_send" /\ to = "finish" => ListReminders(w)
        PROVE  Goal
    <2>1. CASE w = v
      BY <1>1, <1>2, <2>1
    <2>2. CASE w # v
      BY <1>1, <1>2, <2>2
    <2> QED
      BY <2>1, <2>2
  <1>3. ASSUME UNCHANGED <<pc, job, local>>
        PROVE  Goal
    BY <1>3
  <1> HIDE DEF Goal
  <1>4. ASSUME NEW w \in Workers, Finish(w)
        PROVE  Goal
    <2>1. /\ pc' = [pc EXCEPT ![w] = "idle"]
          /\ w # v => job'[v] = job[v] /\ local'[v] = local[v]
      BY <1>1, <1>4 DEF Finish, Rest
    <2> QED
      BY <1>2, <2>1
  <1>5. ASSUME NEW w \in Workers,
               Fail(w) \/ ListingRefused(w) \/ PdfMissing(w) \/ DeleteMissing(w)
        PROVE  Goal
    <2>1. /\ pc' = [pc EXCEPT ![w] = "idle"]
          /\ w # v => job'[v] = job[v] /\ local'[v] = local[v]
      BY <1>1, <1>5 DEF Fail, ListingRefused, PdfMissing, DeleteMissing,
                        GiveBack, Return, Rest
    <2> QED
      BY <1>2, <2>1
  <1>6. ASSUME NEW w \in Workers, NEW from, NEW to, Goto(w, from, to),
               w # v => local'[v] = local[v],
               to # "reminders_send", from # "reminders_send"
        PROVE  Goal
    <2>1. pc[w] = from /\ pc' = [pc EXCEPT ![w] = to] /\ job' = job
      BY <1>6 DEF Goto, Advance
    <2> QED
      BY <1>2, <1>6, <2>1
  <1>7. ASSUME NEW w \in Workers, NEW from, NEW to, NEW found,
               Find(w, from, to, found),
               to # "reminders_send", from # "reminders_send"
        PROVE  Goal
    <2>1. Goto(w, from, to) /\ (w # v => local'[v] = local[v])
      BY <1>1, <1>7 DEF Find
    <2> QED
      BY <1>6, <1>7, <2>1
  <1>8. ASSUME NEW w \in Workers,
               QueryOrganizations(w) \/ QueryYears(w) \/ QueryByOrgYear(w)
        PROVE  Goal
    BY <1>7, <1>8 DEF QueryOrganizations, QueryYears, QueryByOrgYear
  <1>9. ASSUME NEW w \in Workers, QueryReminders(w)
        PROVE  Goal
    <2>1. /\ pc[w] = "reminders" /\ pc' = [pc EXCEPT ![w] = "reminders_send"]
          /\ w # v => job'[v] = job[v] /\ local'[v] = local[v]
      BY <1>1, <1>9 DEF QueryReminders, Find, Goto, Advance
    <2> QED
      BY <1>2, <1>9, <2>1
  <1>10. ASSUME NEW w \in Workers, ListReminders(w)
         PROVE  Goal
    <2>1. pc' = [pc EXCEPT ![w] = "finish"] /\ job' = job /\ local' = local
      BY <1>10 DEF ListReminders, Goto, Advance
    <2> QED
      BY <1>2, <1>10, <2>1
  <1>11. ASSUME NEW w \in Workers, SendListing(w)
         PROVE  Goal
    <2>1. Goto(w, pc[w], "finish") /\ pc[w] # "reminders_send" /\ local' = local
      BY <1>11 DEF SendListing, ListingSteps
    <2> QED
      BY <1>6, <2>1
  <1>12. ASSUME NEW w \in Workers,
               \/ LetterNotFound(w) \/ ViewLetter(w) \/ RequestPdf(w)
               \/ ViewReminder(w) \/ DeleteCopy(w) \/ DeleteRemove(w)
               \/ DeleteMark(w) \/ DeleteAck(w) \/ CancelReminder(w)
               \/ CancelAck(w)
         PROVE  Goal
    BY <1>6, <1>12 DEF LetterNotFound, ViewLetter, RequestPdf, ViewReminder,
                       DeleteCopy, DeleteRemove, DeleteMark, DeleteAck,
                       CancelReminder, CancelAck
  <1>13. ASSUME NEW w \in Workers, GetLetter(w)
         PROVE  Goal
    <2>1. /\ Goto(w, "get", AfterGet[job[w].ask.kind]) /\ pc[w] = "get"
          /\ w # v => local'[v] = local[v]
      BY <1>1, <1>13 DEF GetLetter, Goto, Advance
    <2>2. job[w].ask.kind \in LetterButtons \cup ReminderButtons
      BY <2>1, JobTyped DEF Fit
    <2>3. AfterGet[job[w].ask.kind] # "reminders_send"
      BY <2>2 DEF AfterGet, LetterButtons, ReminderButtons
    <2> QED
      BY <1>6, <2>1, <2>3
  <1>14. ASSUME NEW w \in Workers, NEW m \in queue, Receive(w, m)
         PROVE  Goal
    <2>1. m.ask.kind \in Requests
      BY <1>1, AskTyped DEF Message
    <2>2. Entry(m.ask.kind) # "reminders_send"
      BY <2>1 DEF Entry, Requests, Commands, DrillButtons
    <2>3. /\ pc[w] = "idle" /\ pc' = [pc EXCEPT ![w] = Entry(m.ask.kind)]
          /\ w # v => job'[v] = job[v] /\ local'[v] = local[v]
      BY <1>1, <1>14 DEF Receive, Deliver
    <2> QED
      BY <1>2, <2>2, <2>3
  <1>15. ASSUME \/ \E c \in Chats : \E ask \in buttons[c] : Ask(c, ask)
                \/ \E r \in Reminder : Fire(r) \/ SendReminder(r) \/ SendFails(r)
                \/ \E l \in Letters : Purge(l) \/ Reap(l)
                \/ UNCHANGED vars
         PROVE  Goal
    BY <1>3, <1>15 DEF Ask, Fire, SendReminder, SendFails, Purge, Reap, vars,
                       workerVars
  <1>16. Goal
    BY <1>4, <1>5, <1>8, <1>9, <1>10, <1>11, <1>12, <1>13, <1>14, <1>15
    DEF Next, WorkerStep
  <1> QED
    BY <1>16 DEF Goal

\* What was found stays enough until it is shown.
LEMMA ListersStep ==
    TypeInv /\ DeletionInv /\ ListersKnow /\ [Next]_vars => ListersKnow'
  <1> SUFFICES ASSUME TypeInv, DeletionInv, ListersKnow, [Next]_vars,
                      NEW v \in Workers, pc'[v] = "reminders_send",
                      NEW c, c = job'[v].chat, Few(c)
               PROVE  Visible(c)' \subseteq local'[v].found
    BY DEF ListersKnow, ListerKnows, Few, Visible
  <1>1. Visible(c)' \subseteq Visible(c)
    BY VisibleGoes
  <1>2. CASE QueryReminders(v)
    <2>1. PICK stale \in SUBSET MayBeStale :
              Find(v, "reminders", "reminders_send", Query(Seen(stale), job[v].chat))
      BY <1>2 DEF QueryReminders
    <2>2. job' = job /\ local' = [local EXCEPT ![v].found = Query(Seen(stale), c)]
      BY <2>1 DEF Find, Goto, Advance
    <2>3. local'[v].found = Query(Seen(stale), c)
      BY <2>2 DEF TypeInv, TypeOK, WorkersOK, Local
    <2> QED
      BY <1>1, <2>3, QueryFindsAll
  <1>3. CASE pc[v] = "reminders_send" /\ job'[v] = job[v] /\ local'[v] = local[v]
    <2>1. Visible(c) \subseteq local[v].found
      BY <1>3 DEF ListersKnow, ListerKnows
    <2> QED
      BY <1>1, <1>3, <2>1
  <1> QED
    BY <1>2, <1>3, ListersMove

(***************************************************************************)
(* The answer to /reminders has a button for every scheduled reminder of   *)
(* every letter the chat still has, however long ago the letters were      *)
(* looked up and of whichever stale items, unless the chat has had more of *)
(* them than the query looks at.                                           *)
(***************************************************************************)
THEOREM RemindersAreShown == Spec => RemindersAreListed
  <1> DEFINE Shown(w) ==
        LET c == job[w].chat IN
        (/\ pc[w] = "reminders_send" /\ pc'[w] = "finish"
         /\ Cardinality({l \in Letters : Owner[l] = c}) <= QueryLimit)
        => \A r \in schedules : r.letter \in Visible(c) =>
               [kind |-> "remview", letter |-> r.letter, rem |-> r.rem]
                   \in buttons'[c]
  <1>1. Init => ListersKnow
    BY DEF Init, InvocationsInit, ListersKnow, ListerKnows
  <1>2. ASSUME TypeInv, ListersKnow, [Next]_vars, NEW w \in Workers
        PROVE  Shown(w)
    <2> SUFFICES ASSUME NEW c, c = job[w].chat, pc[w] = "reminders_send",
                        pc'[w] = "finish", Few(c),
                        NEW r \in schedules, r.letter \in Visible(c)
                 PROVE  [kind |-> "remview", letter |-> r.letter, rem |-> r.rem]
                            \in buttons'[c]
      BY DEF Few
    <2>1. ListReminders(w)
      BY <1>2, ListersMove
    <2>2. r.letter \in local[w].found
      BY <1>2 DEF ListersKnow, ListerKnows
    <2>3. r \in Pending(local[w].found)
      BY <2>2 DEF Pending
    <2>4. buttons' = [buttons EXCEPT ![c] = @ \cup
              {[kind |-> "remview", letter |-> s.letter, rem |-> s.rem] :
                   s \in Pending(local[w].found)}]
      BY <2>1 DEF ListReminders, Offer
    <2>5. c \in Chats /\ buttons \in [Chats -> SUBSET Asks]
      BY <1>2, JobTyped DEF TypeInv, TypeOK, UsersOK
    <2> QED
      BY <2>3, <2>4, <2>5
  <1>3. TypeInv /\ ListersKnow /\ [Next]_vars => [\A w \in Workers : Shown(w)]_vars
    BY <1>2
  <1> QED
    BY <1>1, <1>3, TypeInit, TypeStep, DeletionInit, DeletionStep, ListersStep, PTL
    DEF Spec, RemindersAreListed

-----------------------------------------------------------------------------
(* Presses that were answered.                                             *)

\* What is asked about a letter is asked by the chat it belongs to.
Mine(ask, c) ==
    ask.kind \in LetterButtons \cup ReminderButtons => Owner[ask.letter] = c

\* Where a worker is on its way to an answer that changes nothing.
QuietSteps == Commands \cup DrillButtons \cup ListingSteps
                  \cup {"reminders_send", "view_send", "pdf_send", "remview_send"}

(***************************************************************************)
(* What makes the answer LetterNotFound a true one: reminder buttons, like *)
(* those of letters, are offered to the letter's own chat, so every press  *)
(* comes from there; and no handler answers a press of Delete or Cancel    *)
(* from a step that is not its own.                                        *)
(***************************************************************************)
ReminderOffersMine ==
    \A c \in Chats : \A ask \in buttons[c] :
        ask.kind \in ReminderButtons => Owner[ask.letter] = c

FoundMine ==
    \A w \in Workers : pc[w] = "reminders_send" =>
        \A l \in local[w].found : Owner[l] = job[w].chat

PressesMine ==
    /\ \A m \in queue : Mine(m.ask, m.chat)
    /\ \A w \in Workers : pc[w] # "idle" => Mine(job[w].ask, job[w].chat)

QuietAnswers ==
    \A w \in Workers : pc[w] \in QuietSteps =>
        job[w].ask.kind \notin {"delete", "cancelrem"}

PressInv ==
    /\ ReminderOffersMine
    /\ FoundMine
    /\ PressesMine
    /\ QuietAnswers
    /\ PressesTakeEffect

\* How a worker moves, and with which message.
LEMMA WorkerMoves ==
    ASSUME TypeInv, [Next]_vars, NEW v \in Workers
    PROVE  \/ pc'[v] = pc[v] /\ job'[v] = job[v]
           \/ pc'[v] = "idle"
           \/ \E m \in queue : Receive(v, m)
           \/ WorkerStep(v) /\ job'[v] = job[v] /\ pc[v] # "idle"
  <1> DEFINE Goal ==
       \/ pc'[v] = pc[v] /\ job'[v] = job[v]
       \/ pc'[v] = "idle"
       \/ \E m \in queue : Receive(v, m)
       \/ WorkerStep(v) /\ job'[v] = job[v] /\ pc[v] # "idle"
  <1>1. /\ pc \in [Workers -> Steps]
        /\ job \in [Workers -> Message \cup {NoMessage}]
    BY DEF TypeInv, TypeOK, WorkersOK
  <1>2. ASSUME NEW w \in Workers, NEW to, pc' = [pc EXCEPT ![w] = to],
               w # v => job'[v] = job[v],
               \/ to = "idle"
               \/ \E m \in queue : Receive(w, m)
               \/ WorkerStep(w) /\ job' = job /\ pc[w] # "idle"
        PROVE  Goal
    <2>1. CASE w = v
      BY <1>1, <1>2, <2>1
    <2>2. CASE w # v
      BY <1>1, <1>2, <2>2
    <2> QED
      BY <2>1, <2>2
  <1>3. ASSUME UNCHANGED <<pc, job>>
        PROVE  Goal
    BY <1>3
  <1> HIDE DEF Goal
  <1>4. ASSUME NEW w \in Workers,
               \/ Finish(w) \/ Fail(w) \/ ListingRefused(w) \/ PdfMissing(w)
               \/ DeleteMissing(w)
        PROVE  Goal
    <2>1. pc' = [pc EXCEPT ![w] = "idle"] /\ (w # v => job'[v] = job[v])
      BY <1>1, <1>4 DEF Finish, Fail, ListingRefused, PdfMissing,
                        DeleteMissing, GiveBack, Return, Rest
    <2> QED
      BY <1>2, <2>1
  <1>5. ASSUME NEW w \in Workers, NEW from, NEW to, Goto(w, from, to),
               WorkerStep(w), from # "idle"
        PROVE  Goal
    <2>1. pc[w] = from /\ pc' = [pc EXCEPT ![w] = to] /\ job' = job
      BY <1>5 DEF Goto, Advance
    <2> QED
      BY <1>2, <1>5, <2>1
  <1>6. ASSUME NEW w \in Workers,
               \/ QueryOrganizations(w) \/ QueryYears(w) \/ QueryByOrgYear(w)
               \/ QueryReminders(w)
        PROVE  Goal
    <2>1. WorkerStep(w)
      BY <1>6 DEF WorkerStep
    <2>2. PICK from, to, found : Find(w, from, to, found) /\ from # "idle"
      <3>1. CASE QueryOrganizations(w)
        BY <3>1 DEF QueryOrganizations
      <3>2. CASE QueryYears(w)
        BY <3>2 DEF QueryYears
      <3>3. CASE QueryByOrgYear(w)
        BY <3>3 DEF QueryByOrgYear
      <3>4. CASE QueryReminders(w)
        BY <3>4 DEF QueryReminders
      <3> QED
        BY <1>6, <3>1, <3>2, <3>3, <3>4
    <2>3. Goto(w, from, to)
      BY <2>2 DEF Find
    <2> QED
      BY <1>5, <2>1, <2>2, <2>3
  <1>7. ASSUME NEW w \in Workers,
               \/ SendListing(w) \/ ListReminders(w) \/ GetLetter(w)
               \/ LetterNotFound(w) \/ ViewLetter(w) \/ RequestPdf(w)
               \/ ViewReminder(w) \/ DeleteCopy(w) \/ DeleteRemove(w)
               \/ DeleteMark(w) \/ DeleteAck(w) \/ CancelReminder(w)
               \/ CancelAck(w)
        PROVE  Goal
    <2>1. WorkerStep(w)
      BY <1>7 DEF WorkerStep
    <2>2. PICK from, to : Goto(w, from, to) /\ from # "idle"
      <3>1. CASE SendListing(w)
        BY <3>1 DEF SendListing, ListingSteps
      <3>2. CASE ListReminders(w) \/ ViewLetter(w) \/ ViewReminder(w)
        BY <3>2 DEF ListReminders, ViewLetter, ViewReminder
      <3>3. CASE GetLetter(w)
        BY <3>3 DEF GetLetter
      <3>4. CASE LetterNotFound(w) \/ RequestPdf(w)
        BY <3>4 DEF LetterNotFound, RequestPdf
      <3>5. CASE \/ DeleteCopy(w) \/ DeleteRemove(w) \/ DeleteMark(w)
                 \/ DeleteAck(w) \/ CancelReminder(w) \/ CancelAck(w)
        BY <3>5 DEF DeleteCopy, DeleteRemove, DeleteMark, DeleteAck,
                    CancelReminder, CancelAck
      <3> QED
        BY <1>7, <3>1, <3>2, <3>3, <3>4, <3>5
    <2> QED
      BY <1>5, <2>1, <2>2
  <1>8. ASSUME NEW w \in Workers, NEW m \in queue, Receive(w, m)
        PROVE  Goal
    <2>1. /\ pc' = [pc EXCEPT ![w] = Entry(m.ask.kind)]
          /\ w # v => job'[v] = job[v]
      BY <1>1, <1>8 DEF Receive, Deliver
    <2> QED
      BY <1>2, <1>8, <2>1
  <1>9. ASSUME \/ \E c \in Chats : \E ask \in buttons[c] : Ask(c, ask)
               \/ \E r \in Reminder : Fire(r) \/ SendReminder(r) \/ SendFails(r)
               \/ \E l \in Letters : Purge(l) \/ Reap(l)
               \/ UNCHANGED vars
        PROVE  Goal
    BY <1>3, <1>9 DEF Ask, Fire, SendReminder, SendFails, Purge, Reap, vars,
                      workerVars
  <1>10. Goal
    BY <1>4, <1>6, <1>7, <1>8, <1>9 DEF Next, WorkerStep
  <1> QED
    BY <1>10 DEF Goal

\* Where the steps of a handler lead from and to.
LEMMA StepKinds ==
    ASSUME TypeInv, NEW v \in Workers, WorkerStep(v)
    PROVE  /\ pc'[v] \in QuietSteps =>
                  \/ pc[v] \in QuietSteps
                  \/ pc[v] = "get" /\ job[v].ask.kind \notin {"delete", "cancelrem"}
           /\ pc'[v] = "finish" =>
                  \/ pc[v] \in QuietSteps
                  \/ LetterNotFound(v) \/ DeleteAck(v) \/ CancelAck(v)
  <1> DEFINE Goal ==
       /\ pc'[v] \in QuietSteps =>
              \/ pc[v] \in QuietSteps
              \/ pc[v] = "get" /\ job[v].ask.kind \notin {"delete", "cancelrem"}
       /\ pc'[v] = "finish" =>
              \/ pc[v] \in QuietSteps
              \/ LetterNotFound(v) \/ DeleteAck(v) \/ CancelAck(v)
  <1> SUFFICES Goal
    OBVIOUS
  <1> USE DEF QuietSteps, Commands, DrillButtons, ListingSteps
  <1>1. pc \in [Workers -> Steps]
    BY DEF TypeInv, TypeOK, WorkersOK
  <1>2. ASSUME NEW to, pc' = [pc EXCEPT ![v] = to],
               pc[v] \in QuietSteps \/ (to \notin QuietSteps /\ to # "finish")
        PROVE  Goal
    <2>1. pc'[v] = to
      BY <1>1, <1>2
    <2> QED
      BY <1>2, <2>1
  <1>3. CASE LetterNotFound(v) \/ DeleteAck(v) \/ CancelAck(v)
    <2>1. pc'[v] = "finish"
      BY <1>1, <1>3 DEF LetterNotFound, DeleteAck, CancelAck, Goto, Advance
    <2> QED
      BY <1>3, <2>1
  <1>4. CASE GetLetter(v)
    <2> PICK to, kind : to = AfterGet[kind] /\ kind = job[v].ask.kind
      OBVIOUS
    <2>1. pc[v] = "get" /\ pc'[v] = to
      BY <1>1, <1>4 DEF GetLetter, Goto, Advance
    <2>2. kind \in LetterButtons \cup ReminderButtons
      BY <2>1, JobTyped DEF Fit
    <2>3. /\ to # "finish"
          /\ to \in QuietSteps => kind \notin {"delete", "cancelrem"}
      BY <2>2 DEF AfterGet, LetterButtons, ReminderButtons
    <2> QED
      BY <2>1, <2>3
  <1> HIDE DEF Goal
  <1>5. CASE \/ Finish(v) \/ ListingRefused(v) \/ PdfMissing(v)
             \/ DeleteMissing(v)
    <2>1. pc' = [pc EXCEPT ![v] = "idle"]
      BY <1>5 DEF Finish, ListingRefused, PdfMissing, DeleteMissing, GiveBack,
                  Return, Rest
    <2>2. "idle" \notin QuietSteps /\ "idle" # "finish"
      OBVIOUS
    <2> QED
      BY <1>2, <2>1, <2>2
  <1>6. CASE \/ QueryOrganizations(v) \/ QueryYears(v) \/ QueryByOrgYear(v)
             \/ QueryReminders(v)
    <2>1. PICK from, to, found : Find(v, from, to, found) /\ from \in QuietSteps
      <3>1. CASE QueryOrganizations(v)
        BY <3>1 DEF QueryOrganizations
      <3>2. CASE QueryYears(v)
        BY <3>2 DEF QueryYears
      <3>3. CASE QueryByOrgYear(v)
        BY <3>3 DEF QueryByOrgYear
      <3>4. CASE QueryReminders(v)
        BY <3>4 DEF QueryReminders
      <3> QED
        BY <1>6, <3>1, <3>2, <3>3, <3>4
    <2>2. pc[v] \in QuietSteps /\ pc' = [pc EXCEPT ![v] = to]
      BY <2>1 DEF Find, Goto, Advance
    <2> QED
      BY <1>2, <2>2
  <1>7. CASE \/ SendListing(v) \/ ListReminders(v) \/ ViewLetter(v)
             \/ RequestPdf(v) \/ ViewReminder(v)
    <2>1. PICK from : Goto(v, from, "finish") /\ from \in QuietSteps
      <3>1. CASE SendListing(v)
        BY <3>1 DEF SendListing
      <3>2. CASE ListReminders(v)
        BY <3>2 DEF ListReminders
      <3>3. CASE ViewLetter(v) \/ RequestPdf(v) \/ ViewReminder(v)
        BY <3>3 DEF ViewLetter, RequestPdf, ViewReminder
      <3> QED
        BY <1>7, <3>1, <3>2, <3>3
    <2>2. pc[v] \in QuietSteps /\ pc' = [pc EXCEPT ![v] = "finish"]
      BY <2>1 DEF Goto, Advance
    <2> QED
      BY <1>2, <2>2
  <1>8. CASE DeleteCopy(v) \/ DeleteRemove(v) \/ DeleteMark(v) \/ CancelReminder(v)
    <2>1. PICK from, to : Goto(v, from, to) /\ to \notin QuietSteps
                          /\ to # "finish"
      BY <1>8 DEF DeleteCopy, DeleteRemove, DeleteMark, CancelReminder
    <2> QED
      BY <1>2, <2>1 DEF Goto, Advance
  <1> QED
    BY <1>3, <1>4, <1>5, <1>6, <1>7, <1>8 DEF WorkerStep

\* A message comes from a button, or from a worker that gives it back.
LEMMA QueueGrows ==
    ASSUME TypeInv, [Next]_vars, NEW m \in queue', m \notin queue
    PROVE  \/ \E c \in Chats : m.ask \in buttons[c] /\ m.chat = c
           \/ \E w \in Workers : pc[w] # "idle" /\ m = job[w]
  <1> USE DEF workerVars, userVars
  <1>1. ASSUME NEW c \in Chats, NEW ask \in buttons[c], Ask(c, ask)
        PROVE  m.ask \in buttons[c] /\ m.chat = c
    BY <1>1 DEF Ask
  <1>2. ASSUME NEW w \in Workers,
               Fail(w) \/ ListingRefused(w) \/ PdfMissing(w) \/ DeleteMissing(w)
        PROVE  pc[w] # "idle" /\ m = job[w]
    <2>1. pc[w] # "idle"
      BY <1>2 DEF Fail, ListingRefused, ListingSteps, PdfMissing, DeleteMissing
    <2>2. Return(w)
      BY <1>2 DEF Fail, ListingRefused, PdfMissing, DeleteMissing, GiveBack
    <2> QED
      BY <2>1, <2>2 DEF Return
  <1>3. ASSUME NEW w \in Workers, NEW k \in queue, Receive(w, k)
        PROVE  FALSE
    BY <1>3 DEF Receive, Deliver
  <1>4. ASSUME NEW w \in Workers, NEW from, NEW to, Goto(w, from, to)
        PROVE  FALSE
    BY <1>4 DEF Goto
  <1>5. ASSUME NEW w \in Workers, NEW from, NEW to, NEW found,
               Find(w, from, to, found)
        PROVE  FALSE
    BY <1>4, <1>5 DEF Find
  <1>6. ASSUME NEW w \in Workers,
               \/ QueryOrganizations(w) \/ QueryYears(w) \/ QueryByOrgYear(w)
               \/ QueryReminders(w)
        PROVE  FALSE
    BY <1>5, <1>6 DEF QueryOrganizations, QueryYears, QueryByOrgYear,
                      QueryReminders
  <1>7. ASSUME NEW w \in Workers,
               \/ SendListing(w) \/ ListReminders(w) \/ GetLetter(w)
               \/ LetterNotFound(w) \/ ViewLetter(w) \/ RequestPdf(w)
               \/ ViewReminder(w) \/ DeleteCopy(w) \/ DeleteRemove(w)
               \/ DeleteMark(w) \/ DeleteAck(w) \/ CancelReminder(w)
               \/ CancelAck(w)
        PROVE  FALSE
    BY <1>4, <1>7 DEF SendListing, ListReminders, GetLetter, LetterNotFound,
                      ViewLetter, RequestPdf, ViewReminder, DeleteCopy,
                      DeleteRemove, DeleteMark, DeleteAck, CancelReminder,
                      CancelAck
  <1>8. ASSUME \/ \E w \in Workers : Finish(w)
               \/ \E r \in Reminder : Fire(r) \/ SendReminder(r) \/ SendFails(r)
               \/ \E l \in Letters : Purge(l) \/ Reap(l)
               \/ UNCHANGED vars
        PROVE  FALSE
    BY <1>8 DEF Finish, Fire, SendReminder, SendFails, Purge, Reap, vars
  <1> QED
    BY <1>1, <1>2, <1>3, <1>6, <1>7, <1>8 DEF Next, WorkerStep

\* A reminder's button is offered below a list of them, or below itself.
LEMMA OffersGrow ==
    ASSUME TypeInv, [Next]_vars, NEW c \in Chats, NEW ask \in buttons'[c],
           ask \notin buttons[c], ask.kind \in ReminderButtons
    PROVE  \E w \in Workers :
               /\ c = job[w].chat
               /\ \/ pc[w] = "reminders_send" /\ ask.letter \in local[w].found
                  \/ pc[w] = "remview_send" /\ ask.letter = job[w].ask.letter
  <1> USE DEF userVars
  <1>1. buttons \in [Chats -> SUBSET Asks]
    BY DEF TypeInv, TypeOK, UsersOK
  <1>2. ASSUME NEW d, NEW asks, Offer(d, asks)
        PROVE  c = d /\ ask \in asks
    BY <1>1, <1>2 DEF Offer
  <1>3. ASSUME NEW w \in Workers, ListReminders(w)
        PROVE  /\ pc[w] = "reminders_send" /\ c = job[w].chat
               /\ ask.letter \in local[w].found
    <2>1. /\ pc[w] = "reminders_send"
          /\ Offer(job[w].chat, {[kind |-> "remview", letter |-> r.letter,
                                  rem |-> r.rem] : r \in Pending(local[w].found)})
      BY <1>3 DEF ListReminders, Goto, Advance
    <2>2. /\ c = job[w].chat
          /\ ask \in {[kind |-> "remview", letter |-> r.letter, rem |-> r.rem] :
                          r \in Pending(local[w].found)}
      BY <1>2, <2>1
    <2>3. PICK r \in Pending(local[w].found) : ask.letter = r.letter
      BY <2>2
    <2> QED
      BY <2>1, <2>2, <2>3 DEF Pending
  <1>4. ASSUME NEW w \in Workers, ViewReminder(w)
        PROVE  /\ pc[w] = "remview_send" /\ c = job[w].chat
               /\ ask.letter = job[w].ask.letter
    <2>1. /\ pc[w] = "remview_send"
          /\ Offer(job[w].chat, {[job[w].ask EXCEPT !.kind = "cancelrem"]})
      BY <1>4 DEF ViewReminder, Goto, Advance
    <2>2. c = job[w].chat /\ ask = [job[w].ask EXCEPT !.kind = "cancelrem"]
      BY <1>2, <2>1
    <2>3. job[w].ask \in Asks /\ job[w].ask.kind \in ReminderButtons
      BY <2>1, JobTyped DEF Fit, ReminderSteps
    <2>4. job[w].ask \in [kind : ReminderButtons, letter : Letters, rem : ReminderKinds]
      BY <2>3 DEF Asks, ReminderButtons, LetterButtons, Commands
    <2> QED
      BY <2>1, <2>2, <2>4
  <1>5. ASSUME NEW w \in Workers, SendListing(w)
        PROVE  FALSE
    <2>1. pc[w] \in ListingSteps /\ Offer(job[w].chat, Rows(w))
      BY <1>5 DEF SendListing
    <2>2. ask \in Rows(w)
      BY <1>2, <2>1
    <2>3. ask.kind \in {"archorg", "archyr", "view"}
      BY <2>1, <2>2 DEF Rows, ListingSteps, OrganizationRows, YearRows, LetterRows
    <2> QED
      BY <2>3 DEF ReminderButtons
  <1>6. ASSUME NEW w \in Workers, ViewLetter(w)
        PROVE  FALSE
    <2>1. Offer(job[w].chat, [kind : {"pdf", "delete"}, letter : {job[w].ask.letter}])
      BY <1>6 DEF ViewLetter
    <2>2. ask \in [kind : {"pdf", "delete"}, letter : {job[w].ask.letter}]
      BY <1>2, <2>1
    <2> QED
      BY <2>2 DEF ReminderButtons
  <1>7. ASSUME NEW w \in Workers,
               \/ Finish(w) \/ Fail(w) \/ ListingRefused(w) \/ PdfMissing(w)
               \/ DeleteMissing(w)
        PROVE  FALSE
    BY <1>7 DEF Finish, Fail, ListingRefused, PdfMissing, DeleteMissing, GiveBack
  <1>8. ASSUME NEW w \in Workers,
               \/ QueryOrganizations(w) \/ QueryYears(w) \/ QueryByOrgYear(w)
               \/ QueryReminders(w)
        PROVE  FALSE
    <2>1. PICK from, to, found : Find(w, from, to, found)
      BY <1>8 DEF QueryOrganizations, QueryYears, QueryByOrgYear, QueryReminders
    <2> QED
      BY <2>1 DEF Find
  <1>9. ASSUME NEW w \in Workers,
               \/ GetLetter(w) \/ LetterNotFound(w) \/ RequestPdf(w)
               \/ DeleteCopy(w) \/ DeleteRemove(w) \/ DeleteMark(w)
               \/ DeleteAck(w) \/ CancelReminder(w) \/ CancelAck(w)
        PROVE  FALSE
    BY <1>9 DEF GetLetter, LetterNotFound, RequestPdf, DeleteCopy, DeleteRemove,
                DeleteMark, DeleteAck, CancelReminder, CancelAck
  <1>10. ASSUME \/ \E d \in Chats : \E a \in buttons[d] : Ask(d, a)
                \/ \E w \in Workers, m \in queue : Receive(w, m)
                \/ \E r \in Reminder : Fire(r) \/ SendReminder(r) \/ SendFails(r)
                \/ \E l \in Letters : Purge(l) \/ Reap(l)
                \/ UNCHANGED vars
         PROVE  FALSE
    BY <1>10 DEF Ask, Receive, Fire, SendReminder, SendFails, Purge, Reap, vars
  <1> QED
    BY <1>3, <1>4, <1>5, <1>6, <1>7, <1>8, <1>9, <1>10 DEF Next, WorkerStep

\* A letter that is not active does not become active again.
LEMMA ActiveGoes ==
    ASSUME TypeInv, [Next]_vars, NEW l \in Letters, ~Active(l)
    PROVE  ~Active(l)'
  <1> PICK c : c = letters'[l].chat
    OBVIOUS
  <1>1. Visible(c)' \subseteq Visible(c)
    BY VisibleGoes
  <1> QED
    BY <1>1 DEF Visible, Active

\* What a worker receives.
LEMMA MessageTaken ==
    ASSUME TypeInv, NEW v \in Workers, NEW m \in queue, Receive(v, m)
    PROVE  /\ m.ask.kind \in Requests
           /\ pc'[v] = Entry(m.ask.kind)
           /\ job'[v].ask = m.ask /\ job'[v].chat = m.chat
  <1>1. /\ pc \in [Workers -> Steps]
        /\ job \in [Workers -> Message \cup {NoMessage}]
        /\ m \in Message
    BY DEF TypeInv, TypeOK, WorkersOK, MessagesOK
  <1>2. m.ask.kind \in Requests
    BY <1>1, AskTyped DEF Message
  <1>3. /\ pc'[v] = Entry(m.ask.kind)
        /\ job'[v] = [m EXCEPT !.receives = @ + 1]
    BY <1>1 DEF Receive, Deliver
  <1> QED
    BY <1>1, <1>2, <1>3 DEF Message

\* What is offered, found, asked and worked on is the chat's own.
LEMMA MineStep ==
    ASSUME TypeInv, DeletionInv, ListInv, PressInv, [Next]_vars
    PROVE  (ReminderOffersMine /\ FoundMine /\ PressesMine)'
  <1>1. ASSUME NEW c \in Chats, NEW ask \in buttons'[c],
               ask.kind \in ReminderButtons
        PROVE  Owner[ask.letter] = c
    <2>1. CASE ask \in buttons[c]
      BY <1>1, <2>1 DEF PressInv, ReminderOffersMine
    <2>2. CASE ask \notin buttons[c]
      <3>1. PICK w \in Workers :
                /\ c = job[w].chat
                /\ \/ pc[w] = "reminders_send" /\ ask.letter \in local[w].found
                   \/ pc[w] = "remview_send" /\ ask.letter = job[w].ask.letter
        BY <1>1, <2>2, OffersGrow
      <3>2. CASE pc[w] = "reminders_send" /\ ask.letter \in local[w].found
        BY <3>1, <3>2 DEF PressInv, FoundMine
      <3>3. CASE pc[w] = "remview_send" /\ ask.letter = job[w].ask.letter
        <4>1. job[w].ask.kind \in ReminderButtons
          BY <3>3, JobTyped DEF Fit, ReminderSteps
        <4> QED
          BY <3>1, <3>3, <4>1 DEF PressInv, PressesMine, Mine
      <3> QED
        BY <3>1, <3>2, <3>3
    <2> QED
      BY <2>1, <2>2
  <1>2. ASSUME NEW v \in Workers, pc'[v] = "reminders_send",
               NEW l \in local'[v].found
        PROVE  Owner[l] = job'[v].chat
    <2>1. CASE QueryReminders(v)
      <3> PICK c : c = job[v].chat
        OBVIOUS
      <3>1. PICK stale \in SUBSET MayBeStale :
                Find(v, "reminders", "reminders_send", Query(Seen(stale), c))
        BY <2>1 DEF QueryReminders
      <3>2. job' = job /\ local' = [local EXCEPT ![v].found = Query(Seen(stale), c)]
        BY <3>1 DEF Find, Goto, Advance
      <3>3. l \in Query(Seen(stale), c)
        BY <1>2, <3>2 DEF TypeInv, TypeOK, WorkersOK, Local
      <3>4. l \in Items(Seen(stale), c) /\ stale \in SUBSET Letters
        BY <3>3, QueriesFindLetters DEF MayBeStale
      <3> QED
        BY <3>2, <3>4, SeenOwner DEF Items
    <2>2. CASE pc[v] = "reminders_send" /\ job'[v] = job[v] /\ local'[v] = local[v]
      BY <1>2, <2>2 DEF PressInv, FoundMine
    <2> QED
      BY <1>2, <2>1, <2>2, ListersMove
  <1>3. ASSUME NEW c \in Chats, NEW ask \in buttons[c]
        PROVE  Mine(ask, c)
    <2>1. ASSUME ask.kind \in LetterButtons
          PROVE  Owner[ask.letter] = c
      <3>1. Below(c, ask) # {}
        BY <2>1 DEF ListInv, NoDeadEnds
      <3>2. PICK l \in Letters : Owner[l] = c /\
                ask \in [kind : {"archorg"}, slug : {Slug[l]}]
                    \cup [kind : {"archyr"}, slug : {Slug[l]}, year : {Year[l]}]
                    \cup [kind : LetterButtons, letter : {l}]
        BY <3>1 DEF Below
      <3>3. ask \in [kind : LetterButtons, letter : {l}]
        BY <2>1, <3>2 DEF LetterButtons
      <3> QED
        BY <3>2, <3>3
    <2> QED
      BY <2>1 DEF Mine, PressInv, ReminderOffersMine
  <1>4. ASSUME NEW m \in queue'
        PROVE  Mine(m.ask, m.chat)
    <2>1. CASE m \in queue
      BY <2>1 DEF PressInv, PressesMine
    <2>2. CASE m \notin queue
      <3>1. CASE \E c \in Chats : m.ask \in buttons[c] /\ m.chat = c
        BY <1>3, <3>1
      <3>2. CASE \E w \in Workers : pc[w] # "idle" /\ m = job[w]
        BY <3>2 DEF PressInv, PressesMine
      <3> QED
        BY <2>2, <3>1, <3>2, QueueGrows
    <2> QED
      BY <2>1, <2>2
  <1>5. ASSUME NEW v \in Workers, pc'[v] # "idle"
        PROVE  Mine(job'[v].ask, job'[v].chat)
    <2>1. CASE job'[v] = job[v] /\ pc[v] # "idle"
      BY <2>1 DEF PressInv, PressesMine
    <2>2. ASSUME NEW m \in queue, Receive(v, m)
          PROVE  Mine(job'[v].ask, job'[v].chat)
      <3>1. job'[v].ask = m.ask /\ job'[v].chat = m.chat
        BY <2>2, MessageTaken
      <3> QED
        BY <3>1 DEF PressInv, PressesMine
    <2> QED
      BY <1>5, <2>1, <2>2, WorkerMoves
  <1>6. ReminderOffersMine'
    BY <1>1 DEF ReminderOffersMine
  <1>7. FoundMine'
    BY <1>2 DEF FoundMine
  <1>8. PressesMine'
    BY <1>4, <1>5 DEF PressesMine, Mine
  <1> QED
    BY <1>6, <1>7, <1>8

\* No handler strays into the answer of another.
LEMMA QuietStep ==
    ASSUME TypeInv, PressInv, [Next]_vars
    PROVE  QuietAnswers'
  <1> SUFFICES ASSUME NEW v \in Workers, pc'[v] \in QuietSteps
               PROVE  job'[v].ask.kind \notin {"delete", "cancelrem"}
    BY DEF QuietAnswers
  <1>1. CASE pc'[v] = pc[v] /\ job'[v] = job[v]
    BY <1>1 DEF PressInv, QuietAnswers
  <1>2. CASE pc'[v] = "idle"
    BY <1>2 DEF QuietSteps, Commands, DrillButtons, ListingSteps
  <1>3. ASSUME NEW m \in queue, Receive(v, m)
        PROVE  job'[v].ask.kind \notin {"delete", "cancelrem"}
    <2> PICK kind : kind = m.ask.kind
      OBVIOUS
    <2>1. kind \in Requests /\ pc'[v] = Entry(kind) /\ job'[v].ask.kind = kind
      BY <1>3, MessageTaken
    <2>2. kind \in Commands \cup DrillButtons
      BY <2>1 DEF Entry, QuietSteps, Commands, DrillButtons, ListingSteps
    <2> QED
      BY <2>1, <2>2 DEF Commands, DrillButtons
  <1>4. CASE WorkerStep(v) /\ job'[v] = job[v] /\ pc[v] # "idle"
    <2>1. \/ pc[v] \in QuietSteps
          \/ job[v].ask.kind \notin {"delete", "cancelrem"}
      BY <1>4, StepKinds
    <2> QED
      BY <1>4, <2>1 DEF PressInv, QuietAnswers
  <1> QED
    BY <1>1, <1>2, <1>3, <1>4, WorkerMoves

\* The press of a worker that is done has had its effect.
TookEffect(m) ==
    /\ m.ask.kind = "delete" => ~Active(m.ask.letter)
    /\ m.ask.kind = "cancelrem" =>
           ReminderOf(m) \notin schedules \/ ~Active(m.ask.letter)

\* The steps that end a handler.
LEMMA EndsTakeEffect ==
    ASSUME TypeInv, DeletionInv, CancelInv, PressInv, NEW v \in Workers,
           pc[v] # "idle",
           \/ pc[v] \in QuietSteps
           \/ LetterNotFound(v) \/ DeleteAck(v) \/ CancelAck(v)
    PROVE  TookEffect(job[v])
  <1>1. CASE pc[v] \in QuietSteps
    BY <1>1 DEF PressInv, QuietAnswers, TookEffect
  <1>2. CASE LetterNotFound(v)
    <2> PICK l, c : l = job[v].ask.letter /\ c = job[v].chat
      OBVIOUS
    <2>1. pc[v] = "get" /\ ~Owned(letters, c, l)
      BY <1>2 DEF LetterNotFound, Goto, Advance
    <2>2. l \in Letters /\ job[v].ask.kind \in LetterButtons \cup ReminderButtons
      BY <2>1, JobTyped DEF Fit
    <2>3. Owner[l] = c
      BY <2>2 DEF PressInv, PressesMine, Mine
    <2>4. letters[l] = NoItem \/ letters[l].status = "pending_deletion"
      BY <2>1, <2>2, <2>3 DEF Owned, DeletionInv, ItemsAsWritten
    <2>5. ~Active(l)
      BY <2>4 DEF Active, NoItem
    <2> QED
      BY <2>5 DEF TookEffect
  <1>3. CASE DeleteAck(v)
    <2>1. pc[v] = "delete_ack" /\ pc[v] \in LetterSteps
      BY <1>3 DEF DeleteAck, Goto, Advance, LetterSteps
    <2>2. job[v].ask.letter \in Letters /\ job[v].ask.kind \in LetterButtons
      BY <2>1, JobTyped DEF Fit, HeldSteps
    <2>3. ~Active(job[v].ask.letter)
      BY <2>1, <2>2 DEF DeletionInv, DeletionsKnow, Knows
    <2> QED
      BY <2>3 DEF TookEffect
  <1>4. CASE CancelAck(v)
    <2>1. pc[v] = "cancel_ack" /\ pc[v] \in ReminderSteps
      BY <1>4 DEF CancelAck, Goto, Advance, ReminderSteps
    <2>2. job[v].ask.kind \in ReminderButtons
      BY <2>1, JobTyped DEF Fit
    <2>3. ReminderOf(job[v]) \notin schedules
      BY <2>1 DEF CancelInv
    <2> QED
      BY <2>2, <2>3 DEF TookEffect, ReminderButtons
  <1> QED
    BY <1>1, <1>2, <1>3, <1>4

\* What a press has done stays done.
LEMMA EffectsStay ==
    ASSUME TypeInv, [Next]_vars, NEW m, m.ask \in Asks, TookEffect(m)
    PROVE  TookEffect(m)'
  <1>1. schedules' \subseteq schedules
    BY SchedulesGo
  <1>2. m.ask.kind \in {"delete", "cancelrem"} => m.ask.letter \in Letters
    BY AskTyped DEF LetterButtons, ReminderButtons
  <1>3. ASSUME m.ask.kind \in {"delete", "cancelrem"}, ~Active(m.ask.letter)
        PROVE  ~Active(m.ask.letter)'
    BY <1>2, <1>3, ActiveGoes
  <1> QED
    BY <1>1, <1>3 DEF TookEffect, ReminderOf

\* Every step keeps what makes an answered press a press with an effect.
LEMMA PressStep ==
    TypeInv /\ DeletionInv /\ CancelInv /\ ListInv /\ PressInv /\ [Next]_vars
        => PressInv'
  <1> SUFFICES ASSUME TypeInv, DeletionInv, CancelInv, ListInv, PressInv,
                      [Next]_vars
               PROVE  PressInv'
    OBVIOUS
  <1>1. ASSUME NEW v \in Workers, pc'[v] = "finish"
        PROVE  TookEffect(job[v])' /\ pc[v] # "idle" /\ job'[v] = job[v]
    <2>1. CASE pc'[v] = pc[v] /\ job'[v] = job[v]
      <3>1. pc[v] # "idle" /\ job[v].ask \in Asks
        BY <1>1, <2>1, JobTyped
      <3>2. TookEffect(job[v])
        BY <1>1, <2>1 DEF PressInv, PressesTakeEffect, TookEffect
      <3> QED
        BY <2>1, <3>1, <3>2, EffectsStay
    <2>2. ASSUME NEW m \in queue, Receive(v, m)
          PROVE  FALSE
      BY <1>1, <2>2, MessageTaken DEF Entry, Requests, Commands, DrillButtons
    <2>3. CASE WorkerStep(v) /\ job'[v] = job[v] /\ pc[v] # "idle"
      <3>1. job[v].ask \in Asks
        BY <2>3, JobTyped
      <3>2. TookEffect(job[v])
        BY <1>1, <2>3, StepKinds, EndsTakeEffect
      <3> QED
        BY <2>3, <3>1, <3>2, EffectsStay
    <2> QED
      BY <1>1, <2>1, <2>2, <2>3, WorkerMoves
  <1>2. PressesTakeEffect'
    BY <1>1 DEF PressesTakeEffect, TookEffect
  <1> QED
    BY <1>2, MineStep, QuietStep DEF PressInv

(***************************************************************************)
(* A press of Delete or Cancel that was answered, with its report or with  *)
(* LetterNotFound, has had its effect: the letter is deleted, or the       *)
(* reminder has no schedule any more or belongs to a deleted letter.       *)
(***************************************************************************)
THEOREM PressesHaveEffect == Spec => []PressesTakeEffect
  <1>1. Init => ListInv /\ CancelInv /\ PressInv
    <2> SUFFICES ASSUME Init
                 PROVE  ListInv /\ CancelInv /\ PressInv
      OBVIOUS
    <2>1. \A w \in Workers : ListKnows(w)
      BY DEF Init, InvocationsInit, ListKnows, ListingSteps
    <2>2. \A c \in Chats : \A ask \in buttons[c] : ask.kind \in Commands
      BY DEF Init
    <2>3. ListInv
      BY <2>1, <2>2 DEF ListInv, NoDeadEnds, Commands, DrillButtons, LetterButtons
    <2>4. ReminderOffersMine
      BY <2>2 DEF ReminderOffersMine, Commands, ReminderButtons
    <2>5. FoundMine /\ PressesMine /\ QuietAnswers /\ PressesTakeEffect
      BY DEF Init, InvocationsInit, FoundMine, PressesMine, QuietAnswers,
             QuietSteps, Commands, DrillButtons, ListingSteps, PressesTakeEffect
    <2>6. CancelInv
      BY DEF Init, InvocationsInit, CancelInv, CancelledIsUnscheduled
    <2> QED
      BY <2>3, <2>4, <2>5, <2>6 DEF PressInv
  <1>2. PressInv => PressesTakeEffect
    BY DEF PressInv
  <1> QED
    BY <1>1, <1>2, TypeInit, TypeStep, DeletionInit, DeletionStep, CancelStep,
       ListStep, PressStep, PTL DEF Spec
=============================================================================
