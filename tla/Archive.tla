------------------------------- MODULE Archive ------------------------------
(***************************************************************************)
(* The archive after a letter has been saved: looking at it, fetching and  *)
(* deleting its PDF (cmd/processor/archive.go), and the reminders of its   *)
(* deadline, which EventBridge fires and the reminder-sender Lambda sends  *)
(* (cmd/processor/reminders.go, internal/reminders/scheduler.go).          *)
(*                                                                         *)
(* Deleting a letter moves its PDF to PendingDeletion/ and marks its item; *)
(* S3 and DynamoDB then remove the two on their own, about 30 days later.  *)
(* The handlers run as workers of Invocations, one step per call.  Letters *)
(* have S3 keys of their own here; what happens when two letters are given *)
(* the same key is a question to UploadFlow.                               *)
(***************************************************************************)
EXTENDS LetterQueries, DocumentStore, Invocations

CONSTANTS
    Chats,              \* the chats that talk to the bot
    Owner,              \* the chat each letter belongs to
    SlugBytes,          \* the length of each slug
    StaleReads,         \* may a read miss the latest write to an item?
    ReminderKinds,      \* the kinds of reminders a letter has
    MaxTaps,            \* bound: how often each thing is asked for
    MaxSends            \* invocations of reminder-sender for one reminder

Commands == {"archive", "reminders"}
DrillButtons == {"archorg", "archyr"}
LetterButtons == {"view", "pdf", "delete"}
ReminderButtons == {"remview", "cancelrem"}
Requests == Commands \cup DrillButtons \cup LetterButtons \cup ReminderButtons

ASSUME ConstantsAssumption ==
    /\ Owner \in [Letters -> Chats]
    /\ SlugBytes \in [Slugs -> Nat]
    /\ StaleReads \in BOOLEAN
    /\ MaxTaps \in [Requests -> Nat]
    /\ MaxSends \in Nat \ {0}

VARIABLES
    local,              \* the handler variables of each worker
    letters,            \* the letters table
    bucket,             \* the PDFs in the bucket
    schedules,          \* the schedules in EventBridge
    attempts,           \* invocations of reminder-sender left, per reminder
    taps,               \* how often each thing has been asked for
    buttons,            \* the buttons the bot has offered to each chat
    deleted,            \* history: letters the bot has reported as deleted
    cancelled,          \* history: reminders it has reported as cancelled
    purged              \* history: letters whose PDF S3 has removed

workerVars   == <<queue, dead, failures, pc, job, local>>
reminderVars == <<schedules, attempts>>
userVars     == <<taps, buttons>>
historyVars  == <<deleted, cancelled, purged>>
vars == <<queue, dead, failures, pc, job, local, letters, bucket, schedules,
          attempts, taps, buttons, deleted, cancelled, purged>>

-----------------------------------------------------------------------------
(***************************************************************************)
(* What can be asked for.  A button carries all that its handler needs: the*)
(* organization, the year, the letter, or the letter and kind of a reminder.*)
(***************************************************************************)
Asks == [kind : Commands]
          \cup [kind : {"archorg"}, slug : Slugs]
          \cup [kind : {"archyr"}, slug : Slugs, year : Years]
          \cup [kind : LetterButtons, letter : Letters]
          \cup [kind : ReminderButtons, letter : Letters, rem : ReminderKinds]

Message == [ask : Asks, chat : Chats, id : Nat, receives : Nat]

Reminder == [letter : Letters, rem : ReminderKinds]

\* A PDF lies where handleConfirmSave put it, or where handleDeleteLetter did.
ObjectKey == [area : {"archive", "pending"}, letter : Letters]

ArchiveKey(l) == [area |-> "archive", letter |-> l]

\* Variant, for mutation: one key for all deleted letters.
PendingKeyShared(l) ==
    [area |-> "pending", letter |-> CHOOSE k \in Letters : TRUE]

PendingKey(l) == [area |-> "pending", letter |-> l]

Item == [chat : Chats, status : {"active", "pending_deletion"}, key : ObjectKey]

\* The item as handleConfirmSave stored it.
SavedItem(l) == [chat |-> Owner[l], status |-> "active", key |-> ArchiveKey(l)]

NoKey == [area |-> "none"]

Local == [key : ObjectKey \cup {NoKey}, found : SUBSET Letters]

NoLocal == [key |-> NoKey, found |-> {}]

\* The first call of each handler, and the call after getOwnedLetter.
Entry(kind) ==
    IF kind \in Commands \cup DrillButtons THEN kind ELSE "get"

AfterGet == [view |-> "view_send", pdf |-> "pdf_send",
             delete |-> "delete_copy", remview |-> "remview_send",
             cancelrem |-> "cancel"]

Steps == {"idle", "finish", "archive", "archive_send", "archorg",
          "archorg_send", "archyr", "archyr_send", "reminders",
          "reminders_send", "get", "view_send", "pdf_send",
          "delete_copy", "delete_remove", "delete_mark", "delete_ack",
          "remview_send", "cancel", "cancel_ack"}

\* Every letter has just been saved, with all of its reminders.
Init ==
    /\ InvocationsInit
    /\ local = [w \in Workers |-> NoLocal]
    /\ letters = [l \in Letters |-> SavedItem(l)]
    /\ bucket = [k \in {ArchiveKey(l) : l \in Letters} |-> k.letter]
    /\ schedules = Reminder
    /\ attempts = [r \in Reminder |-> 0]
    /\ taps = [k \in Requests |-> 0]
    /\ buttons = [c \in Chats |-> [kind : Commands]]
    /\ deleted = {}
    /\ cancelled = {}
    /\ purged = {}

-----------------------------------------------------------------------------
(* The user, SQS and the Lambda runtime.                                   *)

\* A command or a button that has been offered, as often as the user likes.
Ask(c, ask) ==
    /\ ask \in buttons[c]
    /\ taps[ask.kind] < MaxTaps[ask.kind]
    /\ taps' = [taps EXCEPT ![ask.kind] = @ + 1]
    /\ queue' = queue \cup {[ask |-> ask, chat |-> c,
                             id |-> taps[ask.kind] + 1, receives |-> 0]}
    /\ UNCHANGED <<dead, failures, pc, job, local, letters, bucket,
                   reminderVars, buttons, historyVars>>

Receive(w, m) ==
    /\ Deliver(w, m, Entry(m.ask.kind))
    /\ UNCHANGED <<dead, failures, local, letters, bucket, reminderVars,
                   userVars, historyVars>>

Finish(w) ==
    /\ pc[w] = "finish"
    /\ Rest(w)
    /\ local' = [local EXCEPT ![w] = NoLocal]
    /\ UNCHANGED <<queue, dead, failures, letters, bucket, reminderVars,
                   userVars, historyVars>>

GiveBack(w) ==
    /\ Return(w)
    /\ local' = [local EXCEPT ![w] = NoLocal]
    /\ UNCHANGED <<letters, bucket, reminderVars, userVars, historyVars>>

\* Any call of a handler can fail, and the Lambda can stop between two calls.
Fail(w) ==
    /\ pc[w] # "idle"
    /\ failures < MaxFailures
    /\ failures' = failures + 1
    /\ GiveBack(w)

Goto(w, from, to) ==
    /\ Advance(w, from, to)
    /\ UNCHANGED <<queue, dead, taps, purged>>

-----------------------------------------------------------------------------
(* The commands /archive and /reminders, and the drill-down.               *)

(***************************************************************************)
(* DynamoDB may answer a query of an index, and a GetItem that does not ask*)
(* for a consistent read, from before the latest write: an item that has   *)
(* just been marked is still seen as it was saved.                         *)
(***************************************************************************)
Seen(stale) == [l \in Letters |-> IF l \in stale THEN SavedItem(l) ELSE letters[l]]

MayBeStale ==
    {l \in Letters : StaleReads /\ letters[l].status = "pending_deletion"}

\* The letters of a chat that it has not deleted.
Visible(c) ==
    {l \in Letters : letters[l].status = "active" /\ letters[l].chat = c}

Offer(c, asks) == buttons' = [buttons EXCEPT ![c] = @ \cup asks]

\* The first half of a listing: the query, whose result the worker keeps.
Find(w, from, to, found) ==
    /\ Goto(w, from, to)
    /\ local' = [local EXCEPT ![w].found = found]
    /\ UNCHANGED <<letters, bucket, reminderVars, buttons, deleted, cancelled>>

QueryOrganizations(w) ==
    \E stale \in SUBSET MayBeStale :
        Find(w, "archive", "archive_send",
             queryOrgYear(Seen(stale), job[w].chat, AnyPrefix))

QueryYears(w) ==
    \E stale \in SUBSET MayBeStale :
        Find(w, "archorg", "archorg_send",
             queryOrgYear(Seen(stale), job[w].chat, OrgPrefix(job[w].ask.slug)))

QueryByOrgYear(w) ==
    \E stale \in SUBSET MayBeStale :
        Find(w, "archyr", "archyr_send",
             queryOrgYear(Seen(stale), job[w].chat,
                          OrgYearPrefix(job[w].ask.slug, job[w].ask.year)))

\* The bytes Telegram allows in the data of a button, and those of a button
\* "archorg:<slug>" or "archyr:<slug>:<year>".
ButtonDataLimit == 64

DataBytes(ask) ==
    CASE ask.kind = "archorg" -> 8 + SlugBytes[ask.slug]
      [] ask.kind = "archyr"  -> 12 + SlugBytes[ask.slug]
      [] OTHER                -> 0

Fits(rows) == \A ask \in rows : DataBytes(ask) <= ButtonDataLimit

\* The buttons below a listing.
OrganizationRows(found) ==
    [kind : {"archorg"}, slug : Organizations(found)]

YearRows(slug, found) ==
    [kind : {"archyr"}, slug : {slug}, year : YearsOf(found)]

LetterRows(found) == [kind : {"view"}, letter : found]

Rows(w) ==
    LET found == local[w].found IN
    CASE pc[w] = "archive_send" -> OrganizationRows(found)
      [] pc[w] = "archorg_send" -> YearRows(job[w].ask.slug, found)
      [] pc[w] = "archyr_send"  -> LetterRows(found)

ListingSteps == {"archive_send", "archorg_send", "archyr_send"}

\* The second half: the bot sends the rows, or ArchiveEmpty if there are none.
SendListing(w) ==
    /\ pc[w] \in ListingSteps
    /\ Goto(w, pc[w], "finish")
    /\ Fits(Rows(w))
    /\ Offer(job[w].chat, Rows(w))
    /\ UNCHANGED <<local, letters, bucket, reminderVars, deleted, cancelled>>

\* Telegram refuses a message one of whose buttons has too much data.
ListingRefused(w) ==
    /\ pc[w] \in ListingSteps
    /\ ~Fits(Rows(w))
    /\ GiveBack(w)
    /\ UNCHANGED failures

\* handleRemindersCommand queries the letters, and then EventBridge for each.
QueryReminders(w) ==
    \E stale \in SUBSET MayBeStale :
        Find(w, "reminders", "reminders_send", Query(Seen(stale), job[w].chat))

Pending(found) == {r \in schedules : r.letter \in found}

ListReminders(w) ==
    LET shown == Pending(local[w].found) IN
    /\ Goto(w, "reminders_send", "finish")
    /\ Offer(job[w].chat, {[kind |-> "remview", letter |-> r.letter,
                            rem |-> r.rem] : r \in shown})
    /\ UNCHANGED <<local, letters, bucket, reminderVars, deleted, cancelled>>

-----------------------------------------------------------------------------
(* The buttons of a letter and of a reminder.                              *)

GetLetter(w) ==
    LET l == job[w].ask.letter IN
    /\ Goto(w, "get", AfterGet[job[w].ask.kind])
    /\ \E stale \in SUBSET (MayBeStale \cap {l}) :
        /\ Owned(Seen(stale), job[w].chat, l)
        /\ local' = [local EXCEPT ![w].key = Seen(stale)[l].key]
    /\ UNCHANGED <<letters, bucket, reminderVars, buttons, deleted, cancelled>>

\* The bot answers LetterNotFound.
LetterNotFound(w) ==
    /\ Goto(w, "get", "finish")
    /\ ~Owned(letters, job[w].chat, job[w].ask.letter)
    /\ UNCHANGED <<local, letters, bucket, reminderVars, buttons, deleted,
                   cancelled>>

ViewLetter(w) ==
    /\ Goto(w, "view_send", "finish")
    /\ Offer(job[w].chat,
             [kind : {"pdf", "delete"}, letter : {job[w].ask.letter}])
    /\ UNCHANGED <<local, letters, bucket, reminderVars, deleted, cancelled>>

RequestPdf(w) ==
    /\ Goto(w, "pdf_send", "finish")
    /\ local[w].key \in DOMAIN bucket
    /\ UNCHANGED <<local, letters, bucket, reminderVars, buttons, deleted,
                   cancelled>>

\* PDFRequestFailed, and an error.
PdfMissing(w) ==
    /\ pc[w] = "pdf_send"
    /\ local[w].key \notin DOMAIN bucket
    /\ GiveBack(w)
    /\ UNCHANGED failures

DeleteCopy(w) ==
    LET from == local[w].key
        to   == PendingKey(job[w].ask.letter)
    IN
    /\ Goto(w, "delete_copy", "delete_remove")
    /\ CanCopy(bucket, from)
    /\ bucket' = CopyObject(bucket, from, to)
    /\ UNCHANGED <<local, letters, reminderVars, buttons, deleted, cancelled>>

\* DeleteFailed, and an error.
DeleteMissing(w) ==
    /\ pc[w] = "delete_copy"
    /\ ~CanCopy(bucket, local[w].key)
    /\ GiveBack(w)
    /\ UNCHANGED failures

\* Variant, for mutation: Move removes what it has copied to.
DeleteRemoveTarget(w) ==
    /\ Goto(w, "delete_remove", "delete_mark")
    /\ bucket' = DeleteObject(bucket, PendingKey(job[w].ask.letter))
    /\ UNCHANGED <<local, letters, reminderVars, buttons, deleted, cancelled>>

DeleteRemove(w) ==
    /\ Goto(w, "delete_remove", "delete_mark")
    /\ bucket' = DeleteObject(bucket, local[w].key)
    /\ UNCHANGED <<local, letters, reminderVars, buttons, deleted, cancelled>>

\* Variant, for mutation: the error of MarkPendingDeletion is ignored.
DeleteMarkIgnored(w) ==
    /\ Goto(w, "delete_mark", "delete_ack")
    /\ UNCHANGED <<local, bucket, letters, reminderVars, buttons, deleted,
                   cancelled>>

\* MarkPendingDeletion: an update without a condition.
DeleteMark(w) ==
    LET l == job[w].ask.letter IN
    /\ Goto(w, "delete_mark", "delete_ack")
    /\ letters' = [letters EXCEPT ![l].status = "pending_deletion",
                                  ![l].key = PendingKey(l)]
    /\ UNCHANGED <<local, bucket, reminderVars, buttons, deleted, cancelled>>

DeleteAck(w) ==
    /\ Goto(w, "delete_ack", "finish")
    /\ deleted' = deleted \cup {job[w].ask.letter}
    /\ UNCHANGED <<local, letters, bucket, reminderVars, buttons, cancelled>>

ViewReminder(w) ==
    /\ Goto(w, "remview_send", "finish")
    /\ Offer(job[w].chat, {[job[w].ask EXCEPT !.kind = "cancelrem"]})
    /\ UNCHANGED <<local, letters, bucket, reminderVars, deleted, cancelled>>

\* The reminder a button is about.
ReminderOf(m) == [letter |-> m.ask.letter, rem |-> m.ask.rem]

\* Variant, for mutation: the error of DeleteSchedule is ignored.
CancelIgnored(w) ==
    /\ Goto(w, "cancel", "cancel_ack")
    /\ UNCHANGED <<schedules, local, letters, bucket, attempts, buttons,
                   deleted, cancelled>>

\* Cancel: a schedule that is not there any more is none to cancel.
CancelReminder(w) ==
    /\ Goto(w, "cancel", "cancel_ack")
    /\ schedules' = schedules \ {ReminderOf(job[w])}
    /\ UNCHANGED <<local, letters, bucket, attempts, buttons, deleted,
                   cancelled>>

CancelAck(w) ==
    /\ Goto(w, "cancel_ack", "finish")
    /\ cancelled' = cancelled \cup {ReminderOf(job[w])}
    /\ UNCHANGED <<local, letters, bucket, reminderVars, buttons, deleted>>

-----------------------------------------------------------------------------
(* EventBridge and reminder-sender.                                        *)

\* Its time has come: the schedule is deleted, reminder-sender is invoked.
Fire(r) ==
    /\ r \in schedules
    /\ schedules' = schedules \ {r}
    /\ attempts' = [attempts EXCEPT ![r] = MaxSends]
    /\ UNCHANGED <<workerVars, letters, bucket, userVars, historyVars>>

SendReminder(r) ==
    /\ attempts[r] > 0
    /\ attempts' = [attempts EXCEPT ![r] = 0]
    /\ UNCHANGED <<workerVars, letters, bucket, schedules, userVars,
                   historyVars>>

\* Variant, for mutation: reminder-sender is invoked again without end.
SendFailsForever(r) ==
    /\ failures < MaxFailures
    /\ failures' = failures + 1
    /\ attempts' = [attempts EXCEPT ![r] = @ - 1]
    /\ UNCHANGED <<queue, dead, pc, job, local, letters, bucket, schedules,
                   userVars, historyVars>>

\* An invocation that fails is repeated, whether or not Telegram has sent the
\* message already.
SendFails(r) ==
    /\ attempts[r] > 0
    /\ failures < MaxFailures
    /\ failures' = failures + 1
    /\ attempts' = [attempts EXCEPT ![r] = @ - 1]
    /\ UNCHANGED <<queue, dead, pc, job, local, letters, bucket, schedules,
                   userVars, historyVars>>

-----------------------------------------------------------------------------
(* What S3 and DynamoDB do after 30 days.  A message lives for a day and an*)
(* invocation for a minute: none about the letter is left by then.         *)

About(m, l) == "letter" \in DOMAIN m.ask /\ m.ask.letter = l

Quiet(l) ==
    /\ \A m \in queue : ~About(m, l)
    /\ \A w \in Workers : pc[w] # "idle" =>
        ~About(job[w], l) /\ l \notin local[w].found

\* The lifecycle rule of PendingDeletion/ looks at the object only.
Purge(l) ==
    /\ Quiet(l)
    /\ PendingKey(l) \in DOMAIN bucket
    /\ bucket' = DeleteObject(bucket, PendingKey(l))
    /\ purged' = purged \cup {l}
    /\ UNCHANGED <<workerVars, letters, reminderVars, userVars, deleted,
                   cancelled>>

\* The time to live of the item, set by MarkPendingDeletion.
Reap(l) ==
    /\ Quiet(l)
    /\ letters[l].status = "pending_deletion"
    /\ letters' = [letters EXCEPT ![l] = NoItem]
    /\ UNCHANGED <<workerVars, bucket, reminderVars, userVars, historyVars>>

-----------------------------------------------------------------------------
WorkerStep(w) ==
    \/ Finish(w)
    \/ QueryOrganizations(w) \/ QueryYears(w) \/ QueryByOrgYear(w)
    \/ SendListing(w) \/ ListingRefused(w)
    \/ QueryReminders(w) \/ ListReminders(w)
    \/ GetLetter(w) \/ LetterNotFound(w)
    \/ ViewLetter(w) \/ RequestPdf(w) \/ PdfMissing(w)
    \/ DeleteCopy(w) \/ DeleteMissing(w) \/ DeleteRemove(w) \/ DeleteMark(w)
    \/ DeleteAck(w)
    \/ ViewReminder(w) \/ CancelReminder(w) \/ CancelAck(w)

Next ==
    \/ \E c \in Chats : \E ask \in buttons[c] : Ask(c, ask)
    \/ \E w \in Workers, m \in queue : Receive(w, m)
    \/ \E w \in Workers : WorkerStep(w) \/ Fail(w)
    \/ \E r \in Reminder : Fire(r) \/ SendReminder(r) \/ SendFails(r)
    \/ \E l \in Letters : Purge(l) \/ Reap(l)

Spec == Init /\ [][Next]_vars

\* SQS and Lambda go on; users, schedules, failures and expiry need not.
Fairness ==
    \A w \in Workers : /\ WF_vars(\E m \in queue : Receive(w, m))
                       /\ WF_vars(WorkerStep(w))

FairSpec == Spec /\ Fairness

-----------------------------------------------------------------------------
(* Properties.                                                             *)

\* Every variable has its type; a worker that is not idle holds a message.
MessagesOK ==
    /\ queue \subseteq Message
    /\ dead \subseteq Message
    /\ failures \in 0..MaxFailures

WorkersOK ==
    /\ pc \in [Workers -> Steps]
    /\ job \in [Workers -> Message \cup {NoMessage}]
    /\ local \in [Workers -> Local]
    /\ \A w \in Workers : pc[w] # "idle" => job[w] \in Message

StoresOK ==
    /\ letters \in [Letters -> Item \cup {NoItem}]
    /\ DOMAIN bucket \subseteq ObjectKey
    /\ \A k \in DOMAIN bucket : bucket[k] \in Letters

RemindersOK ==
    /\ schedules \subseteq Reminder
    /\ attempts \in [Reminder -> 0..MaxSends]

UsersOK ==
    /\ taps \in [Requests -> Nat]
    /\ buttons \in [Chats -> SUBSET Asks]

HistoryOK ==
    /\ deleted \subseteq Letters
    /\ cancelled \subseteq Reminder
    /\ purged \subseteq Letters

TypeOK ==
    /\ MessagesOK
    /\ WorkersOK
    /\ StoresOK
    /\ RemindersOK
    /\ UsersOK
    /\ HistoryOK

Active(l) == letters[l].status = "active"

(***************************************************************************)
(* A failure half-way through a deletion loses no PDF: until the lifecycle *)
(* rule of PendingDeletion/ removes it, it lies under some key.            *)
(***************************************************************************)
NoPdfLost ==
    \A l \in Letters \ purged : \E k \in DOMAIN bucket : bucket[k] = l

(***************************************************************************)
(* What the bot has reported as deleted stays out of every listing, and no *)
(* copy of the PDF is left in the archive, where nothing would remove it.  *)
(***************************************************************************)
DeletedIsGone ==
    \A l \in deleted :
        /\ l \notin queryOrgYear(letters, Owner[l], AnyPrefix)
        /\ l \notin Query(letters, Owner[l])
        /\ ArchiveKey(l) \notin DOMAIN bucket

(***************************************************************************)
(* A deleted letter can be brought back during its 30 days: its item names *)
(* the object that holds its PDF, also when the deletion was requested     *)
(* several times or delivered again.                                       *)
(***************************************************************************)
DeletedIsRecoverable ==
    \A l \in Letters \ purged : letters[l].status = "pending_deletion" =>
        /\ letters[l].key \in DOMAIN bucket
        /\ bucket[letters[l].key] = l

\* The year buttons that /archive leads a chat to, and what they lead it to.
Sendable(rows) == IF Fits(rows) THEN rows ELSE {}

YearButtons(c) ==
    LET listed(prefix) == queryOrgYear(letters, c, prefix) IN
    UNION {Sendable(YearRows(row.slug, listed(OrgPrefix(row.slug)))) :
               row \in Sendable(OrganizationRows(listed(AnyPrefix)))}

Ways(c) ==
    [ask \in YearButtons(c) |->
        queryOrgYear(letters, c, OrgYearPrefix(ask.slug, ask.year))]

(***************************************************************************)
(* The drill-down hides nothing: whatever has been deleted, one year button*)
(* and only one leads a chat to each letter it still has, unless the chat  *)
(* has more letters than a page of the index or a slug too long for the    *)
(* buttons on the way.                                                     *)
(***************************************************************************)
EveryLetterReachable ==
    \A c \in Chats :
        LET ways == Ways(c) IN
        /\ Cardinality(Items(letters, c)) <= PageLimit
        /\ Fits(OrganizationRows(Visible(c)))
        => \A l \in Visible(c) : Fits(YearRows(Slug[l], {l})) =>
               Cardinality({ask \in DOMAIN ways : l \in ways[ask]}) = 1

(***************************************************************************)
(* No button of the drill-down was a dead end when it was offered, or leads*)
(* to another chat's letters: there is a letter of that chat, deleted or   *)
(* not, that belongs below it.                                             *)
(***************************************************************************)
Below(c, ask) ==
    {l \in Letters : Owner[l] = c /\
        ask \in [kind : {"archorg"}, slug : {Slug[l]}]
            \cup [kind : {"archyr"}, slug : {Slug[l]}, year : {Year[l]}]
            \cup [kind : LetterButtons, letter : {l}]}

NoDeadEnds ==
    \A c \in Chats : \A ask \in buttons[c] :
        ask.kind \in DrillButtons \cup LetterButtons => Below(c, ask) # {}

\* The worker has moved the PDF of the letter and not marked the item yet.
Deleting(w, l) == pc[w] = "delete_mark" /\ job[w].ask.letter = l

(***************************************************************************)
(* As long as nothing fails, the letters a user can see have their PDF     *)
(* where the item says, except for the moment between the two halves of a  *)
(* deletion.                                                               *)
(***************************************************************************)
ActiveHasPdf ==
    failures = 0 =>
        \A l \in Letters : Active(l) =>
            \/ letters[l].key \in DOMAIN bucket
            \/ \E w \in Workers : Deleting(w, l)

(***************************************************************************)
(* What the bot has reported as cancelled is not going to be fired, however*)
(* deliveries of the press are repeated and whatever fires in between.     *)
(***************************************************************************)
CancelledIsUnscheduled == cancelled \cap schedules = {}

(***************************************************************************)
(* A press of Delete or Cancel that was answered has had its effect, also  *)
(* when the answer is LetterNotFound because another press was faster or   *)
(* the message came twice: the letter is deleted; the reminder has no      *)
(* schedule, unless its letter is deleted and handleCancelReminder gave up.*)
(***************************************************************************)
PressesTakeEffect ==
    \A w \in Workers : pc[w] = "finish" =>
        LET m == job[w] IN
        /\ m.ask.kind = "delete" => ~Active(m.ask.letter)
        /\ m.ask.kind = "cancelrem" =>
               ReminderOf(m) \notin schedules \/ ~Active(m.ask.letter)

(***************************************************************************)
(* Every press of Delete has an effect in the end: the letter is deleted,  *)
(* or the message is in the dead-letter queue where an operator finds it.  *)
(***************************************************************************)
DeletePressed(l) == \E m \in queue : m.ask.kind = "delete" /\ m.ask.letter = l

DeleteSettles ==
    \A l \in Letters : DeletePressed(l) ~>
        ~Active(l) \/ \E m \in dead : m.ask.kind = "delete" /\ m.ask.letter = l

(***************************************************************************)
(* The answer to /reminders hides nothing, as long as the chat has had no  *)
(* more letters than the query looks at: when it is sent, every reminder   *)
(* that is still scheduled for a letter the chat still has gets a button,  *)
(* although both were looked up in different steps, of stale items even.   *)
(***************************************************************************)
RemindersAreListed ==
    [][\A w \in Workers : LET c == job[w].chat IN
        (/\ pc[w] = "reminders_send" /\ pc'[w] = "finish"
         /\ Cardinality({l \in Letters : Owner[l] = c}) <= QueryLimit)
        => \A r \in schedules : r.letter \in Visible(c) =>
               [kind |-> "remview", letter |-> r.letter, rem |-> r.rem]
                   \in buttons'[c]]_vars

-----------------------------------------------------------------------------
(* The promise of the archive, ArchiveLife.                                *)

Life == INSTANCE ArchiveLife WITH
    Reminders <- Reminder,
    status    <- [l \in Letters |-> letters[l].status],
    places    <- [l \in Letters |-> {k.area : k \in
                      DOMAIN bucket \cap {ArchiveKey(l), PendingKey(l)}}],
    reminders <- [r \in Reminder |-> IF r \in schedules THEN "scheduled"
                                     ELSE IF attempts[r] > 0 THEN "due"
                                     ELSE "over"]

(***************************************************************************)
(* Every step of every handler is a step of ArchiveLife or changes nothing *)
(* there: whatever is pressed twice, delivered again or fails half-way, a  *)
(* letter is deleted in this order and no other, its reminders are fired   *)
(* once at most, and the bot reports nothing that is not so.               *)
(***************************************************************************)
ImplementsArchiveLife == Life!Spec

-----------------------------------------------------------------------------
(* Claims of the repository that the code does not keep.                   *)

\* A deletion that failed can be tried again: there still is a PDF to move.
DeleteCanBeRepeated ==
    \A l \in Letters : Active(l) =>
        \/ letters[l].key \in DOMAIN bucket
        \/ \E w \in Workers : Deleting(w, l)

\* When the bot answers that there are no pending reminders, no letter that
\* the chat has in its archive has one.
EmptyListIsTrue ==
    [][\A w \in Workers :
        (pc[w] = "reminders_send" /\ pc'[w] = "finish"
            /\ Pending(local[w].found) = {})
        => \A r \in schedules : r.letter \notin Visible(job[w].chat)]_vars
=============================================================================
