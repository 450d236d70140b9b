# Susanoo in TLA+

Susanoo is a Telegram bot that archives German letters. A user photographs the
pages, presses *Done*, reads what an LLM made of the letter and presses *Save*;
later the letter can be listed, fetched or deleted, and reminders of its
deadline arrive. All of it runs as Lambdas between SQS queues, two DynamoDB
tables, an S3 bucket and EventBridge schedules. Every hard question about the
program is a question about what several invocations do to these stores in an
order nobody chose, with any of them stopping half-way and being repeated.

The modules here model that. `PROJECT.json` maps each definition to the source
lines it stands for and lists runs, mutants, findings, hazards and theorems.

## 1. Inventory of the system

| part | source | state it keeps | operations |
|---|---|---|---|
| webhook | `cmd/webhook/main.go` | none | puts every Telegram update on the queue `updates` |
| processor: upload | `cmd/processor/upload_flow.go`, `handlers.go` | none between calls | photo, Done, Start over, Fix, processed images, Save |
| processor: archive | `cmd/processor/archive.go`, `commands.go`, `reminders.go` | none between calls | list, view, request PDF, delete; list, view, cancel reminders |
| session store | `internal/session/session.go` | one item per chat: pages, status, PDF key, classification, expiry | Get, AppendRawKey, MarkAwaitingProcessing, MarkSaving, SetPendingConfirmation, Clear |
| letters store | `internal/letters/letters.go` | one item per letter | Put, Get, Query, QueryOrganizations, QueryYears, QueryByOrgYear, MarkPendingDeletion |
| document store | `internal/storage/storage.go` | the bucket | put, get, Move (copy, then delete) |
| reminder plan | `internal/reminders/plan.go` | none | Plan: which reminders, and when |
| reminder scheduler | `internal/reminders/scheduler.go` | EventBridge schedules | ScheduleAll, ListForLetter, Cancel |
| reminder-sender | `cmd/reminder-sender` | none | sends one reminder |
| tesseract | `tesseract/app.py` | none | turns a batch of raw photos into processed ones |
| queues | `infra/queue.tf`, `lambda.tf`, `tesseract.tf` | messages, dead letters | delivery, redelivery, redrive |
| tables, bucket | `infra/sessions.tf`, `storage.tf` | expiry | time to live, lifecycle rules |
| LLM and Telegram clients, PDF builder, messages, helpers | `internal/...` | none | remote calls and pure functions |
| bootstrap, workflows | `bootstrap/`, `.github/` | - | deployment only |

How they interact: the webhook, the processor and tesseract talk through the
queues `updates`, `images-to-process` and `processed-images`; the processor and
the user through Telegram messages whose buttons stay pressable for ever; all
invocations share the session item of a chat, the bucket and the letters table.
The processor never waits for another part: *Done* ends by sending a batch, and
the result comes back as a new invocation.

What is hard about it:

- **Interleaving.** SQS standard queues keep no order, and invocations for the
  same chat run side by side. A handler makes several calls, and another one can
  run between any two of them.
- **Failure and repetition.** Any call can fail and a Lambda can stop between two
  calls. The message then comes back, up to three times, and the handler starts
  over on top of what it has already done.
- **Expiry.** A session ends after 30 minutes, but DynamoDB deletes it later; a
  deleted letter goes after 30 days, its item and its PDF independently.
- **Names.** S3 keys are made of times in seconds and of names an LLM chose.
- **Calendars.** Deadlines are dates, reminders are at eight in Berlin, the
  clocks of the Lambdas are UTC.

What makes each part correct: *Done* sends a page to processing once and loses
none; *Save* archives a PDF once and loses none; an archived letter keeps its
PDF; *Delete* removes what it says, recoverably for 30 days; a cancelled
reminder is not scheduled; a reminder tells the truth about the date; chats do
not mix; whatever was accepted is finished or lies where an operator finds it.

## 2. The modules

| module | models | built on |
|---|---|---|
| `SessionStore` | `session.go`: each call as a function from the item before to the item after, with the conditions of the conditional updates as operators of their own | - |
| `DocumentStore` | `storage.go`: the bucket as a partial function from keys to contents | - |
| `Invocations` | queues and Lambda: delivery, return, redrive, one worker per running invocation | - |
| `UploadFlow` | from the photo to the archived letter: `upload_flow.go`, `tesseract/app.py` | all three |
| `LetterLife` | what the upload promises, without sessions, queues, workers and failures; `UploadFlow` implements it | - |
| `ArchiveLife` | what the archive promises of a letter and its reminders, likewise; `Archive` implements it | - |
| `LetterQueries` | `letters.go`: a letter by its id, the newest letters, the three queries of the drill-down, as operators on the table | - |
| `Archive` | everything after Save: `archive.go`, `reminders.go`, `/archive` with its drill-down, `/reminders`, EventBridge, reminder-sender, the 30-day removals | `LetterQueries`, `DocumentStore`, `Invocations` |
| `Deadlines` | `plan.go` with the preview's overdue check, hour by hour | - |
| `MCUploadFlow`, `MCArchive` | the constants of the TLC instances | |
| `UploadFlow_proofs`, `LetterLife_proofs`, `Batches_proofs` | theorems about `UploadFlow`: pages; PDFs, letters and the refinement; batches and busy sessions | each on the one before |
| `Archive_proofs`, `ArchiveLife_proofs` | theorems about `Archive`: deletion, reminders and the drill-down; the refinement, /reminders and presses | the second on the first |
| `Deadlines_proofs` | theorems about `Deadlines` | |

### Workers, steps and calls

A worker is one running invocation. `pc[w]` names the next call it makes to
something shared, and `local[w]` holds what its handler keeps in variables from
an earlier call. Every call to DynamoDB, S3, SQS or EventBridge that reads or
changes shared state is one action; what the handler computes between two calls
belongs to the action before. `Fail(w)` may happen before any step: the call
returned an error, or the Lambda stopped. Where a handler swallows an error and
goes on, that is an action of its own (`SaveClearFails`; the prefix of reminders
in `SaveSchedule`).

| handler | steps |
|---|---|
| `handlePhoto` | `PhotoStore`, `PhotoAppend`, `PhotoAck` |
| `handleDone` | `DoneGet` or `DoneEmpty`; `DoneMark` or `DoneAlready`; `DoneSend` |
| `handleRestart`, `handleRequestFix` | `ClearSession` |
| tesseract `handler` | `TessRun` or `TessReject` |
| `handleProcessedImages` | `ProcStore`, `ProcPending`, `ProcPreview` |
| `handleConfirmSave` | `SaveMark` or `SaveNothing`; `SaveCopy` or `SaveCopyMissing`; `SaveDelete`, `SavePut`, `SaveSchedule`, `SaveClear` |
| `handleArchiveCommand`, `handleArchiveOrg`, `handleArchiveYear` | `QueryOrganizations`, `QueryYears`, `QueryByOrgYear`; then `SendListing` or `ListingRefused` |
| `handleRemindersCommand` | `QueryReminders`, `ListReminders` |
| `getOwnedLetter` | `GetLetter` or `LetterNotFound` |
| `handleViewLetter`, `handleRequestPDF` | `ViewLetter`; `RequestPdf` or `PdfMissing` |
| `handleDeleteLetter` | `DeleteCopy` or `DeleteMissing`; `DeleteRemove`, `DeleteMark`, `DeleteAck` |
| `handleViewReminder`, `handleCancelReminder` | `ViewReminder`; `CancelReminder`, `CancelAck` |
| reminder-sender `Handle` | `SendReminder`, `SendFails` |

### State

- `session[c]` is the DynamoDB item; an absent item is the record with every
  attribute absent, because UpdateItem creates a missing item and a condition
  sees no attribute of it. `ttl` is `unset` (never given), `live` or `expired`:
  `Get` treats `unset` and `expired` as no session, and DynamoDB deletes only
  `expired` ones.
- `bucket` maps PDF keys to contents. A PDF's content is the pages it shows and
  the second it was built at. Raw and processed photos are never read under a
  wrong key and are only counted (`raws`).
- `letters`, `schedules`/`reminders` are the table and the schedules.
- `queue` and `dead` are sets of messages; an `id` keeps equal bodies apart.
- `buttons[c]` are the buttons the bot has ever shown: a user can press any of
  them at any time. Nothing else restrains the user.
- History variables (`sealed`, `dispatched`, `previewed`, `deleted`,
  `cancelled`, `purged`) record what has happened and guard nothing.
- A read of the letters table need not see the latest write: `GetItem` is called
  without ConsistentRead, and an index is never consistent. With `StaleReads`,
  every query and every `GetLetter` may see items that are pending deletion as
  they were saved (`Seen`, `MayBeStale`). For the session no such choice is
  needed: handleDone uses of what it reads only whether there are pages, so a
  stale reading is one taken earlier, which the interleavings contain.

### What the data stands for

A raw key is a chat and a number, new at every store (the code uses
microseconds). A file name is a number that stands for organization, month of
saving and file name together; `SharedNames` says whether the LLM may give two
letters the same one, `SameSecond` whether two PDFs may be built in one second.
In `Archive` every letter has a key of its own. An organization is its slug, a
sequence of tokens none of which is `#`: what matters about a slug is that it can
be a prefix of another (`tk`, `tk-hh`) and how many bytes it has (`SlugBytes`,
against the 64 of Telegram's callback data). Two names with one slug are one
organization, as in the code. In `Deadlines` the hour is the
unit of time, a deadline is a day, and the two clock changes are constants.

### What the upload promises: LetterLife

`LetterLife` has four variables per chat: the number of pages photographed, the
batches sent, the PDFs with the batch each is made of, and the letters with
their PDF. Four steps: a page is photographed; a batch of pages none of which
was sent before is sent; a PDF is made of one whole batch; a PDF that is no
letter yet becomes one, made of the pages of its PDF. `UploadFlow` implements it
(`Life == INSTANCE LetterLife WITH ...`):

| LetterLife | in UploadFlow |
|---|---|
| `photos` | `raws`, the raw photos stored |
| `sent` | `dispatched`, as sets of page numbers |
| `pdfs` | for each PDF of a chat, the pages of the object that holds it, under whichever key it lies |
| `archived` | `letters`: number of the PDF and pages |

`PhotoStore`, `DoneSend`, `ProcStore` and `SavePut` are the four steps;
everything else, Start over, failures, redelivery, the copying and deleting of
Save included, changes nothing there. What the mapping makes of `pdfs` is the
strong part: it is read from the bucket, so a copy over another PDF, a deletion
of the only copy or a PDF made of a mixture would be a step `LetterLife` does
not have. It holds where no two PDFs share a key.

### What the archive promises: ArchiveLife

`ArchiveLife` has, for each letter, the status of its item and the places its PDF
lies in (the archive, `PendingDeletion/`, or both while it is being moved), for
each reminder whether it is scheduled, due or over, and the two sets of what the
bot has reported. A letter is marked as deleted only when its PDF lies in
`PendingDeletion/` and nowhere else, never becomes active again, and is reported
only when that is so; a reminder goes from scheduled to due to over, or by Cancel
from scheduled to over, and is reported as cancelled only when it is not scheduled.
`Archive` implements it, without any condition (`Life == INSTANCE ArchiveLife
WITH ...`):

| ArchiveLife | in Archive |
|---|---|
| `status` | of the item in `letters`; an item that was removed is `absent` |
| `places` | the areas of the keys of the letter in `bucket` |
| `reminders` | in `schedules`: scheduled; invocations left in `attempts`: due; else over |
| `deleted`, `cancelled` | the history variables of these names |

| step of ArchiveLife | steps of Archive |
|---|---|
| `Copy`, `Remove`, `Mark`, `ReportDeleted` | `DeleteCopy`, `DeleteRemove`, `DeleteMark`, `DeleteAck` of a worker, or nothing if another press or delivery of Delete has done it before |
| `Cancel`, `ReportCancelled` | `CancelReminder` (nothing if the schedule has gone), `CancelAck` |
| `Fire`, `Settle` | `Fire`; `SendReminder` and the last `SendFails` |
| `Purge`, `Reap` | the steps of these names |

That `DeleteMark` of a second press is a stutter, and that of a first one is
never taken while the archive still holds the PDF, are the points where the order
of the handler's calls matters. `ArchiveLife!Purge` may empty `PendingDeletion/`
of a letter that is not deleted: that is finding 4 below, and what the code does.

## 3. The runs

Violated claims are listed with the passing runs because they answer the same
questions. `w1`, `w2` are two workers: two invocations are enough for a handler
to be overtaken between any two of its calls, and a third message waits in the
queue and is taken up at any point after. Workers are interchangeable, so safety
runs use them as a symmetry set; runs with liveness do not.
`CHECK_DEADLOCK FALSE` is in every configuration because the system really stops
when the user has nothing more to press.

| run | instance | shows |
|---|---|---|
| `upload_done` | 2 photos, Done twice, Start over once, 1 failure, 3 deliveries | `TypeOK`; `NoDoubleDispatch`, no page goes to processing in two batches; `PageInv`, the inductive invariant behind it; `ImplementsLetterLife` up to the batch |
| `upload_save` | 1 photo, Done and Start over once, Save twice, 1 failure, 2 deliveries, fair | `SavedOncePerPdf`, `PendingPdfStored`, `LetterPdfIntact`, `PreviewedPdfKept`, `RemindersHaveLetter`; `SaveFindsItsPdf`, a Save that has taken the session has a PDF to move; `NoBatchLost`, a batch is always in a message or with a worker until it is shown; `BusyIsMoving`, without a failure somebody is about to move a busy session on; `BatchSettles`, a batch is previewed or dead-lettered; `SessionSettles`, without a failure no session stays in the middle; `ImplementsLetterLife` up to the letter |
| `upload_expiry` | 2 photos, Done twice, Save twice, sessions expire, PDFs and names collide | `SealedPagesSent`, `NoEmptyLetter`, `LetterHasFile`; `WholeLetters`, a PDF or letter is one batch, all of it |
| `upload_two_chats` | 2 chats, 1 photo and each button once, 1 failure | `TenantsApart` |
| `archive_delete` | 4 letters of two organizations, /archive and an organization and a year once, view and Delete twice, 1 failure, stale reads, removal after 30 days | `NoPdfLost`, `DeletedIsGone`, `DeletedIsRecoverable`, `ActiveHasPdf`; `EveryLetterReachable`, the drill-down hides nothing; `NoDeadEnds`, it leads nowhere else |
| `archive_reminders` | 1 letter with a reminder, everything once, 1 failure, 2 deliveries, stale reads, fair | `TypeOK`, `CancelledIsUnscheduled`; `PressesTakeEffect`, an answered Delete or Cancel has had its effect; `RemindersAreListed`, /reminders hides nothing from a chat with no more letters than the limit; `ImplementsArchiveLife`; `DeleteSettles` |
| `deadlines` | 12 days of hours, summer time begins on day 3 and ends on day 8, ten deadlines, four urgencies | `TypeOK`, `HeadlineIsTrue`, `OverdueHasNoReminder`, `UrgentIsReminded` |
| `fresh_session` | as `upload_done`, no failure | `FreshSessionUsable` is violated |
| `shared_names` | 2 photos, Done and Save twice, no failure | `LetterPdfIntact` is violated once names may be equal |
| `sealed_is_sent` | 1 photo, Done twice, 1 failure, fair | `SealedIsDispatched` is violated |
| `delete_again` | 1 letter, Delete twice, 1 failure | `DeleteCanBeRepeated` is violated |
| `no_reminders` | 2 letters, a limit of 1 | `EmptyListIsTrue` is violated |

### Bounds, and why they are enough

- *Photos, presses.* The guards of the session store compare one status; a
  second Done, Save or Delete is the smallest thing they can get wrong, and
  Start over in the middle is what makes a status disappear. A second photo is
  what tells a stale batch from a fresh one, and a second letter what tells one
  letter's key from another's.
- *Failures.* One failure can fall between any two calls of any handler. What it
  leaves behind meets the redelivered message and the second press; a second
  failure adds a shorter prefix of the same calls. `MaxReceives` is 3 as in
  `queue.tf` where no liveness is checked, and 2 where it is: there, one failure
  and one batch that cannot be processed must be able to exhaust a message.
- *QueryLimit* is 50 in the code. In `no_reminders` it is 1 with two letters: the
  order of limit and filter is the question, and it does not depend on the number.
  In `archive_reminders` it is 1 with one letter, so that the condition of
  `RemindersAreListed` just holds and a limit that is one short is seen.
- *Letters.* In `archive_delete` four: two of one organization and year, one of
  another year, and one of an organization whose slug begins with the slug of the
  first. That is the least for the prefixes to go wrong at both levels and for a
  deletion to empty a year or an organization, or not. The long slug has 54
  bytes: `archorg:` and it fit into 64, `archyr:`, it and `:2025` do not, so
  `ListingRefused` happens and its condition in `EveryLetterReachable` matters.
  `PageLimit` is 4, a page of the index that just holds the letters; fewer would
  make the property's condition false, and `no_reminders` shows what a limit
  does to deleted letters.
- *Hours.* Twelve days hold the longest offset (a week), both clock changes and
  deadlines before, between and after them.

Each property has a mutant in `PROJECT.json`, a plausible bug in the code it is
about (the dropped condition of an update, Move deleting its target, a reused
key, an ignored error, a prefix without its `#`, the winter's offset in summer),
and TLC reports the
property violated with it.

### Fairness

`FairSpec` assumes for every worker that SQS goes on handing it waiting messages
(`WF` of a receive) and that an invocation takes its next step or stops (`WF` of
`WorkerStep`). The event source mapping polls as long as the queue is not empty,
and a Lambda ends after its timeout at the latest. Nothing is assumed of users,
of the expiry of sessions, of EventBridge or of failures; failures are bounded by
`MaxFailures`. Weak fairness suffices because a message stays in the queue until
it is taken and no step of a worker is disabled by another worker without
another step of the same worker being enabled in its place.

`SessionSettles` allows for what ends in the middle by design: a failure (a stop
after MarkSaving or MarkAwaitingProcessing leaves the status), and a message in
a dead-letter queue (a batch without pages). Expiry, which would end any session,
is switched off in its run.

## 4. What the code does not keep

Each of these is a run that TLC ends with a counterexample.

1. **A session can be born marked** (`fresh_session`, `session.go:113`). Done
   reads a session with photos; Start over deletes it; MarkAwaitingProcessing
   finds no status and creates the item anew, already `awaiting_processing`. The
   next photo joins it, and Done on it does nothing. The item has no expiry
   until that photo.
2. **A Done can be lost** (`sealed_is_sent`, `upload_flow.go:101`). A stop
   between the mark and the send leaves a marked session and no batch; the
   redelivered Done sees "already processing" and succeeds.
3. **One letter can replace another's PDF** (`shared_names`,
   `upload_flow.go:198`). Chat, organization, month and file name make the key,
   and the LLM chooses two of them.
4. **A delete that stops half-way cannot be repeated** (`delete_again`,
   `archive.go:173`). The PDF has moved, the item still names the old key, and
   every retry fails at the copy. The lifecycle rule removes the PDF after 30
   days although the letter is still listed.
5. **"You don't have any pending reminders" can be false** (`no_reminders`,
   `letters.go:155`). Deleted letters use up the limit before they are filtered.

Behaviour the models contain, that no document rules out, and that is listed
under the hazards: a photo after Done is acknowledged and later deleted with its
session; a processed-images message delivered again after Save puts the letter
up for confirmation once more; a Save button under an old preview saves what is
pending now; an expired session that has not been deleted can be saved; a
reminder that has fired is sent although it was cancelled meanwhile; the
reminders of a deleted letter stay; a deleted letter can be offered once more by
a stale read; one long organization name makes /archive or the list of its years
fail; a button whose last letter was deleted is answered with the text for a
chat without letters; a batch whose classification keeps failing is a dead
letter, and the user is told nothing.

## 5. Theorems

TLAPS proves every safety property of the passing runs, action properties and
both refinements included, for every number of
chats, workers, letters, photos, presses and failures, whether or not reads are
stale, and for all clock changes and deadlines. It uses the assumptions on the
constants (`ConstantsAssumption`, `InvocationsAssumption`, `LettersAssumption`),
and where the table says so one or both of

- `~SameSecond`: no two PDFs of a chat are built in the same second;
- `~SharedNames`: no two letters of a chat have organization, month and file
  name in common.

| theorem | states | needs |
|---|---|---|
| `UploadFlow_proofs!TypeCorrect` | `TypeOK` | |
| `UploadFlow_proofs!PagesInOnePlace` | `PageInv` | |
| `UploadFlow_proofs!NoPageSentTwice` | `NoDoubleDispatch` | |
| `UploadFlow_proofs!NoTakenPageLost` | `SealedPagesSent` | |
| `LetterLife_proofs!ChatsStayApart` | `TenantsApart` | |
| `LetterLife_proofs!NoLetterIsEmpty` | `NoEmptyLetter` | |
| `LetterLife_proofs!LettersHaveFiles` | `LetterHasFile` | |
| `LetterLife_proofs!RemindersAreAboutLetters` | `RemindersHaveLetter` | |
| `LetterLife_proofs!PdfSavedOnce` | `SavedOncePerPdf` | `~SameSecond` |
| `LetterLife_proofs!PreviewIsStored` | `PendingPdfStored` | both |
| `LetterLife_proofs!LettersAreIntact` | `LetterPdfIntact` | both |
| `LetterLife_proofs!PreviewsAreKept` | `PreviewedPdfKept` | both |
| `LetterLife_proofs!FlowImplementsLife` | `ImplementsLetterLife` | both |
| `Batches_proofs!BatchesAreKept` | `NoBatchLost` | |
| `Batches_proofs!LettersAreWhole` | `WholeLetters` | |
| `Batches_proofs!SavesFindPdfs` | `SaveFindsItsPdf` | `~SameSecond` |
| `Batches_proofs!BusySessionsMove` | `BusyIsMoving` | `~SameSecond` |
| `Archive_proofs!TypeCorrect` | `TypeOK` | |
| `Archive_proofs!PdfsAreKept` | `NoPdfLost` | |
| `Archive_proofs!DeletionsCanBeUndone` | `DeletedIsRecoverable` | |
| `Archive_proofs!DeletionsAreFinal` | `DeletedIsGone` | |
| `Archive_proofs!ActiveLettersHavePdfs` | `ActiveHasPdf` | |
| `Archive_proofs!CancelledStayCancelled` | `CancelledIsUnscheduled` | |
| `Archive_proofs!ButtonsLeadToLetters` | `NoDeadEnds` | |
| `Archive_proofs!LettersAreReachable` | `EveryLetterReachable` | |
| `ArchiveLife_proofs!ArchiveImplementsLife` | `ImplementsArchiveLife` | |
| `ArchiveLife_proofs!RemindersAreShown` | `RemindersAreListed` | |
| `ArchiveLife_proofs!PressesHaveEffect` | `PressesTakeEffect` | |
| `Deadlines_proofs!TypeCorrect` | `TypeOK` | |
| `Deadlines_proofs!HeadlinesAreTrue` | `HeadlineIsTrue` | |
| `Deadlines_proofs!OverdueIsNotReminded` | `OverdueHasNoReminder` | |
| `Deadlines_proofs!UrgentIsRemindedInTime` | `UrgentIsReminded` | |

The two conditions are needed, not convenient: `shared_names` violates
`LetterPdfIntact` without the second, and two PDFs under one key are one PDF to
`SavedOncePerPdf`. What survives collisions is proved without them:
a letter has *some* file, is not empty, and is the chat's own.

*No page is sent twice.* `NoDoubleDispatch` speaks of the batches that have been
sent; it is not inductive, since it says nothing of the pages about to be sent.
`PageInv` follows a page on its way. Its key is new when the photo is stored
(`KnownPagesAreOld`: every known page is older than the counter) and is in one
worker's hands until it is appended (`AddedPagesAreNew`). A session without a
status holds no page that Done has taken (`OpenSessionsAreUntaken`): the mark
gives the session a status, and only Clear, which removes the pages too, takes it
away. So what `DoneMark` takes is new to all batches, and it is with that one
worker until it is sent (`TakenPagesAreInOnePlace`). Only four actions touch these
facts (`PhotoStore`, `PhotoAppend`, `DoneMark`, `DoneSend`) and each has a lemma;
`QuietStep` deals with the rest.

*No page is lost without a failure.* `SealedPagesSent` is inductive together with
`TypeOK`: `DoneMark` puts what it takes in the hands of its own worker, and
without a failure only `DoneSend` takes it out of them.

*Whose pages they are.* `OwnInv` says of every place a page passes (messages,
workers, sessions, bucket, letters) that what is kept there under a chat is that
chat's, and that a processed batch has pages. `TenantsApart` and `NoEmptyLetter`
are two readings of it.

*A PDF becomes one letter.* `HolderInv`: a PDF that is not a letter yet has one
holder, the worker that built it, then the session, then the worker whose
`SaveMark` took it over. The status is what makes the last handing-over
exclusive. A redelivered batch is no exception: its PDF is another one.

*PDFs are kept.* `StoredInv`: where keys do not collide, the last part of a key
is the number of the PDF below it, some copy of every PDF stays, all copies
agree, and a session, a worker, a letter or a preview that speaks of a PDF means
the pages these copies have. `SaveDelete` is the step that could lose one, and a
worker that deletes has its copy under the final key, which nothing removes.
`FilesInv`, the part of this that does not need the conditions, gives
`LetterHasFile`.

*The refinement.* With `PageInv`, `OwnInv`, `HolderInv` and `StoredInv` in hand,
one lemma per visible step shows that it is the step of `LetterLife` in the table
above; `PdfPagesStay` is the one that carries the weight: the pages of a PDF,
read from the bucket through a CHOOSE of whichever key holds it, are the same
before and after every step.

*Batches.* `NoBatchLost` is inductive together with `TypeOK`, `PageInv`, `OwnInv`
and one fact about handlers (`BatchJobs`: the pages of a PDF that is about to be shown are
those of the message its worker holds). The weight is in the steps that give a
message up: a failure puts it back or into the dead-letter queue, unchanged
(`GiveBackCarries`), and tesseract passes its batch on in one step (`HandlersCarry`).
`WholeInv` says of every place a PDF passes, the session and the hands of workers
included, that its pages are a batch of the chat. It needs nothing about keys:
whichever object a copy replaces, what replaces it is a batch, too. That two
letters share pages only if they are of the same batch then follows from
`PageInv`, where a page that was taken is in one batch.

*Save and its PDF.* `PreviewsThere`: the PDF that a session awaiting confirmation,
or a worker before `SaveCopy`, is going to need lies under its first key. Only
`SaveDelete` removes it, and `HolderInv` says that the worker that deletes is its
only holder (`NobodyMovesIt`): what it moves is nobody else's.

*Busy sessions.* As long as nothing has failed, every worker goes through its
handler to the end. A session becomes `awaiting_processing` in `DoneMark`, whose
worker sends the batch; a batch goes on until `ProcPending` has moved the session
on, or the session has gone (`ProcessingMoves`). It becomes `saving` in `SaveMark`
and stays so until the same worker's `SaveClear` (`SavingMoves`), because a Save
that finds its PDF cannot give up: this is where `SaveFindsItsPdf` is needed. With
fairness this gives `SessionSettles`, but that last step is TLC's.

*Deletion.* `TypeOK` of `Archive` already needs an argument: a handler sets the
status of the item it read, so the item must still be there (`ItemsStay`, from the
30 days against an invocation's minute). `DeletionInv` then says what a worker
knows at each step of handleDeleteLetter (`Knows`: after the copy there is an
object in PendingDeletion/, after the removal none in the archive, after the mark
the letter is not active), which stays true because no other step undoes it: a
second Delete that has read the old item cannot copy again once the object has
gone, and one that has not yet removed it removes only the archive's object. That
each letter has keys of its own is what this rests on.

*The archive's refinement.* `ArchiveImplementsLife` needs `DeletionInv`,
`CancelInv` and that a reminder which is still scheduled has not been fired
(`SchedulesRest`). The visible steps change one place, status or reminder each
(`PlaceSteps`, `StatusSteps`, `ReminderMoves`); the case distinctions are those of
the table in section 2: `ItemSteps` shows that a mark is either the first, with the
PDF in `PendingDeletion/` alone, or writes what is there already.

*The list of reminders.* A letter that a chat has is never seen as anything else
by a stale read, so the query finds it unless the limit cuts it off
(`QueryFindsAll`); what a chat has only shrinks afterwards (`VisibleGoes`), so what
was found stays enough until the list is sent (`ListersKnow`).

*Presses.* `PressesTakeEffect` is not inductive: it says nothing about the workers
that are about to answer LetterNotFound. That answer also stands for a letter of
another chat, so the invariant `PressInv` has to exclude that: buttons of letters
and reminders are offered to the chat of the letter (`ListInv`, `ReminderOffersMine`,
and `FoundMine` for what /reminders has found), and every message and every worker
speaks for that chat (`PressesMine`, through redelivery). Then LetterNotFound means
that the letter is deleted or removed. A report of its own is given only after
`DeleteMark` or `CancelReminder`, and the steps that answer other requests
(`QuietSteps`) are never reached by a Delete or a Cancel.

*The drill-down.* Slugs contain no `#`, so a slug followed by `#` is a prefix of
a sort key exactly if it is the whole slug (`SlugsApart`); hence the three
queries select a chat's letters, those of an organization, and those of an
organization and year (`PrefixesSelect`), deleted ones and stale ones included.
`ListInv` carries that from the query to the message that is sent. If the
letters fit into a page, nothing is cut off before the filter (`FullListing`).

*Reminders.* `CancelInv`: a worker about to report a cancellation knows that
there is no schedule, and nothing creates one after Save. `EightIsEight` shows
that the hour computed for a day is eight o'clock of that day in Berlin for any
hours of change, provided they are at 01:00 UTC; a schedule never lies in the
past (part of `TypeOK`), so it fires at its hour exactly. A deadline that was
overdue by the date of UTC lies, in Berlin, at least a day back, and `Plan` drops
everything that is not ahead. A letter saved two days before its deadline is
saved before eight o'clock of the eve, so the eve's reminder is not dropped.

Model-checked only: the liveness properties `BatchSettles`, `SessionSettles` and
`DeleteSettles` (fairness and ENABLED are beyond the prover), and the violated
claims of section 4.

## 6. What is left out, and why

- A second delivery of a message *while its worker still runs*. The visibility
  timeouts (90 s, 120 s) are longer than the Lambda timeouts (60 s), so this
  needs a duplicate made by SQS itself.
- Retries inside the AWS SDK, Telegram posting an update twice (a second photo or
  press in the models), and messages older than the retention of a day.
- The seven-day lifecycle rules for raw photos, processed photos and unsorted
  PDFs, and S3 versioning: the first act long after a session, and the code never
  reads an old version.
- A reminder that is fired between the lookup of its schedule and the message of
  /reminders: `ListReminders` reads the schedules when it sends. The button it
  leaves out is one of those that an earlier list may have offered anyway.
- Texts, layout, the image processing of tesseract, the prompt, parsing of
  commands. Of the messages only the headlines of reminders are in a model, since
  they say something about the date. Which of two texts answers a request is in
  no model: both change no state.
- The LLM and Telegram clients. Each call is one request whose answer or failure
  is a free choice in the step that makes it; they keep no state and do not retry.
- Telegram's limit on the number of buttons of a message, of which the code knows
  nothing.
- A letter whose date does not parse, which would miss from the drill-down's
  index: handleConfirmSave is the only caller of Put and formats the date itself.
- Deployment.

## 7. What could come next

Every part that keeps state is modelled, and every safety property of the
passing runs is proved; of the three liveness properties, `BusyIsMoving` and
`NoBatchLost` are the parts that do not speak of fairness. What would add to this is outside the code as it is:
the properties of a version that repairs one of the five points of section 4.
Each repair changes one definition (a condition on `MarkAwaitingProcessing` that
the item exists; a mark that the redelivered Done can tell from another's; the
letter's id in `FinalKey`; `DeleteMark` before `DeleteCopy`; a `Query` that goes
on to the next page), and turns a violated claim into an invariant to prove.
