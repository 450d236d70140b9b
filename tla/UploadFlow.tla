----------------------------- MODULE UploadFlow -----------------------------
(***************************************************************************)
(* The upload of a letter, from the first photo to the archived PDF: the   *)
(* processor Lambda's upload handlers (cmd/processor/upload_flow.go), the  *)
(* tesseract Lambda between them (tesseract/app.py) and the SQS queues that*)
(* connect them.                                                           *)
(*                                                                         *)
(* A worker (see Invocations) is an invocation of either Lambda.  It may   *)
(* fail before any of its steps: a call to DynamoDB, S3, SQS or Telegram   *)
(* returns an error, the Lambda times out or crashes.                      *)
(***************************************************************************)
EXTENDS SessionStore, DocumentStore, Invocations, Functions

CONSTANTS
    MaxPosts,           \* bound: photos a chat sends
    MaxTaps,            \* bound: presses of each button, per chat
    MaxReminders,       \* bound: reminders that reminders.Plan asks for
    SameSecond,         \* may two PDFs of a chat be built in the same second?
    SharedNames,        \* may the LLM choose the file name of another letter?
    SessionsExpire      \* may a session outlive its 30 minutes?

TapKinds == {"done", "restart", "request_fix", "confirm_save"}

Kinds == TapKinds \cup {"photo", "images", "processed"}

ASSUME ConstantsAssumption ==
    /\ MaxPosts \in Nat
    /\ MaxTaps \in [TapKinds -> Nat]
    /\ MaxReminders \in Nat
    /\ {SameSecond, SharedNames, SessionsExpire} \subseteq BOOLEAN

VARIABLES
    local,              \* the handler variables of each worker
    session,            \* the session table
    bucket,             \* the PDFs in the bucket
    raws,               \* the number of raw photos of each chat in the bucket
    clock,              \* the second at which a PDF of a chat was last built
    letters,            \* the letters table: each chat's letters, oldest first
    reminders,          \* the schedules in EventBridge
    posts,              \* the number of photos each chat has sent
    taps,               \* the number of times each button was pressed
    buttons,            \* the buttons the bot has offered to each chat
    sealed,             \* history: pages of sessions Done has taken
    dispatched,         \* history: the batches sent to images-to-process
    previewed           \* history: the PDFs shown with Save and Fix

userVars    == <<posts, taps>>
storeVars   == <<bucket, raws, clock, letters, reminders>>
historyVars == <<sealed, dispatched, previewed>>
vars == <<queue, dead, failures, pc, job, local, session, bucket, raws, clock,
          letters, reminders, posts, taps, buttons, sealed, dispatched,
          previewed>>

-----------------------------------------------------------------------------
(* Messages, object keys and what the handlers keep in variables.          *)

(***************************************************************************)
(* id and run tell the messages of a kind and chat apart: the number of the*)
(* photo, of the press or of the batch, and for processed-images the run of*)
(* tesseract on that batch.                                                *)
(***************************************************************************)
Message == [kind     : Kinds,
            chat     : Chats,
            id       : Nat,
            run      : Nat,
            pages    : Seq(RawKey),
            receives : Nat]

Local == [pages : Seq(RawKey), pdf : Nat, name : Nat, letter : Nat]

NoLocal == [pages |-> <<>>, pdf |-> 0, name |-> 0, letter |-> 0]

\* The first call of the handler that handleRecord and handleCallback choose.
Entry == [photo        |-> "photo_store",
          done         |-> "done_get",
          restart      |-> "clear",
          request_fix  |-> "clear",
          confirm_save |-> "save_mark",
          images       |-> "tess_run",
          processed    |-> "proc_store"]

Steps ==
    {"idle", "finish", "photo_store", "photo_append", "photo_ack", "done_get",
     "done_mark", "done_send", "clear", "tess_run", "proc_store",
     "proc_pending", "proc_preview", "save_mark", "save_copy", "save_delete",
     "save_put", "save_schedule", "save_clear"}

(***************************************************************************)
(* The keys of PDFs.  Unsorted/<chat>/<year>/<second>.pdf is the preview's;*)
(* <chat>/<organization>/<year>/<month>/<filename>.pdf the archived one's, *)
(* where a name stands for the organization, month and file name.  The     *)
(* content of a PDF is its pages and the second it was built at.           *)
(***************************************************************************)
ObjectKey == [area : {"unsorted", "final"}, chat : Chats, name : Nat]

Pdf == [pdf : Nat, pages : Seq(RawKey)]

\* Variant, for mutation: one folder for the previews of all chats.
UnsortedKeyShared(c, second) ==
    [area |-> "unsorted", chat |-> CHOOSE d \in Chats : TRUE, name |-> second]

UnsortedKey(c, second) == [area |-> "unsorted", chat |-> c, name |-> second]

\* Variant, for mutation: the key stops at the month.
FinalKeyOfMonth(c, name) == [area |-> "final", chat |-> c, name |-> 0]

FinalKey(c, name) == [area |-> "final", chat |-> c, name |-> name]

Letter == [name : Nat, pdf : Nat, pages : Seq(RawKey)]

Reminder == [chat : Chats, letter : Nat, kind : 1..MaxReminders]

\* The pages of a sequence of batches.
Pages(batches) == UNION {Range(batches[i]) : i \in DOMAIN batches}

Init ==
    /\ InvocationsInit
    /\ local = [w \in Workers |-> NoLocal]
    /\ session = [c \in Chats |-> NoItem]
    /\ bucket = <<>>
    /\ raws = [c \in Chats |-> 0]
    /\ clock = [c \in Chats |-> 0]
    /\ letters = [c \in Chats |-> <<>>]
    /\ reminders = {}
    /\ posts = [c \in Chats |-> 0]
    /\ taps = [c \in Chats |-> [k \in TapKinds |-> 0]]
    /\ buttons = [c \in Chats |-> {}]
    /\ sealed = [c \in Chats |-> {}]
    /\ dispatched = [c \in Chats |-> <<>>]
    /\ previewed = [c \in Chats |-> {}]

-----------------------------------------------------------------------------
(* The user, through the webhook: it queues every update it is sent.       *)

Post(kind, c, id) ==
    queue' = queue \cup {[kind |-> kind, chat |-> c, id |-> id, run |-> 0,
                          pages |-> <<>>, receives |-> 0]}

PostPhoto(c) ==
    /\ posts[c] < MaxPosts
    /\ posts' = [posts EXCEPT ![c] = @ + 1]
    /\ Post("photo", c, posts[c] + 1)
    /\ UNCHANGED <<dead, failures, pc, job, local, session, storeVars, taps,
                   buttons, historyVars>>

\* A button stays under the bot's message: once offered, it can be pressed.
PostTap(c, kind) ==
    /\ kind \in buttons[c]
    /\ taps[c][kind] < MaxTaps[kind]
    /\ taps' = [taps EXCEPT ![c][kind] = @ + 1]
    /\ Post(kind, c, taps[c][kind] + 1)
    /\ UNCHANGED <<dead, failures, pc, job, local, session, storeVars, posts,
                   buttons, historyVars>>

-----------------------------------------------------------------------------
(* SQS and the Lambda runtime.                                             *)

Receive(w, m) ==
    /\ Deliver(w, m, Entry[m.kind])
    /\ UNCHANGED <<dead, failures, local, session, storeVars, userVars,
                   buttons, historyVars>>

\* The handler returned nil: the event source deletes the message.
Finish(w) ==
    /\ pc[w] = "finish"
    /\ Rest(w)
    /\ local' = [local EXCEPT ![w] = NoLocal]
    /\ UNCHANGED <<queue, dead, failures, session, storeVars, userVars,
                   buttons, historyVars>>

\* The invocation ends without success: its message is returned.
GiveBack(w) ==
    /\ Return(w)
    /\ local' = [local EXCEPT ![w] = NoLocal]

\* Any call of a handler can fail, and the Lambda can stop between two calls.
Fail(w) ==
    /\ pc[w] # "idle"
    /\ failures < MaxFailures
    /\ failures' = failures + 1
    /\ GiveBack(w)
    /\ UNCHANGED <<session, storeVars, userVars, buttons, historyVars>>

\* The worker goes on to its next step; users have no part in it.
Goto(w, from, to) ==
    /\ Advance(w, from, to)
    /\ UNCHANGED userVars

-----------------------------------------------------------------------------
(* handlePhoto.                                                            *)

\* Variant, for mutation: two photos of a chat can get the same key.
PhotoStoreSameKey(w) ==
    LET c == job[w].chat IN
    /\ Goto(w, "photo_store", "photo_append")
    /\ raws' = [raws EXCEPT ![c] = 1]
    /\ local' = [local EXCEPT ![w].pages = <<[chat |-> c, at |-> 1]>>]
    /\ UNCHANGED <<queue, dead, session, bucket, clock, letters, reminders,
                   buttons, historyVars>>

\* The photo is downloaded and stored under a key of its own, its time.
PhotoStore(w) ==
    LET c == job[w].chat IN
    /\ Goto(w, "photo_store", "photo_append")
    /\ raws' = [raws EXCEPT ![c] = @ + 1]
    /\ local' = [local EXCEPT ![w].pages = <<[chat |-> c, at |-> raws[c] + 1]>>]
    /\ UNCHANGED <<queue, dead, session, bucket, clock, letters, reminders,
                   buttons, historyVars>>

PhotoAppend(w) ==
    LET c == job[w].chat IN
    /\ Goto(w, "photo_append", "photo_ack")
    /\ session' = [session EXCEPT ![c] = AppendRawKey(@, local[w].pages[1])]
    /\ UNCHANGED <<queue, dead, local, storeVars, buttons, historyVars>>

PhotoAck(w) ==
    LET c == job[w].chat IN
    /\ Goto(w, "photo_ack", "finish")
    /\ buttons' = [buttons EXCEPT ![c] = @ \cup {"done", "restart"}]
    /\ UNCHANGED <<queue, dead, local, session, storeVars, historyVars>>

-----------------------------------------------------------------------------
(* handleDone.                                                             *)

\* No session, or one without pages: the bot says so, and nothing else.
DoneEmpty(w) ==
    /\ Goto(w, "done_get", "finish")
    /\ Get(session[job[w].chat]).raw = <<>>
    /\ UNCHANGED <<queue, dead, local, session, storeVars, buttons,
                   historyVars>>

DoneGet(w) ==
    LET sess == Get(session[job[w].chat]) IN
    /\ Goto(w, "done_get", "done_mark")
    /\ sess.raw # <<>>
    /\ local' = [local EXCEPT ![w].pages = sess.raw]
    /\ UNCHANGED <<queue, dead, session, storeVars, buttons, historyVars>>

\* Variant, for mutation: the batch is what Get returned.
DoneMarkStale(w) ==
    LET c == job[w].chat IN
    /\ Goto(w, "done_mark", "done_send")
    /\ CanMarkAwaitingProcessing(session[c])
    /\ session' = [session EXCEPT ![c] = MarkAwaitingProcessing(@)]
    /\ sealed' = [sealed EXCEPT ![c] = @ \cup Range(session[c].raw)]
    /\ UNCHANGED <<queue, dead, local, storeVars, buttons, dispatched,
                   previewed>>

\* The batch is what the session holds now, not what Get returned.
DoneMark(w) ==
    LET c == job[w].chat IN
    /\ Goto(w, "done_mark", "done_send")
    /\ CanMarkAwaitingProcessing(session[c])
    /\ session' = [session EXCEPT ![c] = MarkAwaitingProcessing(@)]
    /\ local' = [local EXCEPT ![w].pages = session[c].raw]
    /\ sealed' = [sealed EXCEPT ![c] = @ \cup Range(session[c].raw)]
    /\ UNCHANGED <<queue, dead, storeVars, buttons, dispatched, previewed>>

\* ErrAlreadyProcessing: somebody else has taken the session, nothing to do.
DoneAlready(w) ==
    /\ Goto(w, "done_mark", "finish")
    /\ ~CanMarkAwaitingProcessing(session[job[w].chat])
    /\ UNCHANGED <<queue, dead, local, session, storeVars, buttons,
                   historyVars>>

DoneSend(w) ==
    LET c == job[w].chat IN
    /\ Goto(w, "done_send", "finish")
    /\ queue' = queue \cup {[kind |-> "images", chat |-> c,
                             id |-> Len(dispatched[c]) + 1, run |-> 0,
                             pages |-> local[w].pages, receives |-> 0]}
    /\ dispatched' = [dispatched EXCEPT ![c] = Append(@, local[w].pages)]
    /\ UNCHANGED <<dead, local, session, storeVars, buttons, sealed, previewed>>

-----------------------------------------------------------------------------
(* handleRestart and handleRequestFix: both clear the session.             *)

ClearSession(w) ==
    LET c == job[w].chat IN
    /\ Goto(w, "clear", "finish")
    /\ session' = [session EXCEPT ![c] = Clear(@)]
    /\ UNCHANGED <<queue, dead, local, storeVars, buttons, historyVars>>

-----------------------------------------------------------------------------
(* The tesseract Lambda.  Its images keep the raw keys' names.             *)

\* Variant, for mutation: null is processed as an empty list.
TessRunAnyBatch(w) ==
    LET m == job[w] IN
    /\ Goto(w, "tess_run", "finish")
    /\ queue' = queue \cup {[kind |-> "processed", chat |-> m.chat,
                             id |-> m.id, run |-> m.receives,
                             pages |-> m.pages, receives |-> 0]}
    /\ UNCHANGED <<dead, local, session, storeVars, buttons, historyVars>>

TessRun(w) ==
    LET m == job[w] IN
    /\ Goto(w, "tess_run", "finish")
    /\ m.pages # <<>>
    /\ queue' = queue \cup {[kind |-> "processed", chat |-> m.chat,
                             id |-> m.id, run |-> m.receives,
                             pages |-> m.pages, receives |-> 0]}
    /\ UNCHANGED <<dead, local, session, storeVars, buttons, historyVars>>

\* A session without raw_keys makes a batch with null instead of a list, and
\* the loop over it raises an exception.
TessReject(w) ==
    /\ pc[w] = "tess_run"
    /\ job[w].pages = <<>>
    /\ GiveBack(w)
    /\ UNCHANGED <<failures, session, storeVars, userVars, buttons,
                   historyVars>>

-----------------------------------------------------------------------------
(* handleProcessedImages.                                                  *)

Seconds(c) == IF SameSecond /\ clock[c] > 0
              THEN {clock[c], clock[c] + 1}
              ELSE {clock[c] + 1}

\* Variant, for mutation: the PDF is built of what the session has by now.
ProcStoreOfSession(w) ==
    LET c == job[w].chat  pages == session[c].raw IN
    /\ Goto(w, "proc_store", "proc_pending")
    /\ \E second \in Seconds(c) :
        /\ clock' = [clock EXCEPT ![c] = second]
        /\ local' = [local EXCEPT ![w].pages = pages, ![w].pdf = second]
        /\ bucket' = PutObject(bucket, UnsortedKey(c, second),
                               [pdf |-> second, pages |-> pages])
    /\ UNCHANGED <<queue, dead, session, raws, letters, reminders, buttons,
                   historyVars>>

\* The PDF is built and stored under the second it was built at.
ProcStore(w) ==
    LET c == job[w].chat IN
    /\ Goto(w, "proc_store", "proc_pending")
    /\ \E second \in Seconds(c) :
        /\ clock' = [clock EXCEPT ![c] = second]
        /\ local' = [local EXCEPT ![w].pages = job[w].pages, ![w].pdf = second]
        /\ bucket' = PutObject(bucket, UnsortedKey(c, second),
                               [pdf |-> second, pages |-> job[w].pages])
    /\ UNCHANGED <<queue, dead, session, raws, letters, reminders, buttons,
                   historyVars>>

\* The names the LLM may choose: one of an earlier letter's, or another.
Names(second) == IF SharedNames THEN 1 .. second + 1 ELSE {second}

\* The LLM names the letter, and the session awaits the user's confirmation.
ProcPending(w) ==
    LET c == job[w].chat IN
    /\ Goto(w, "proc_pending", "proc_preview")
    /\ \E name \in Names(local[w].pdf) :
        session' = [session EXCEPT
            ![c] = SetPendingConfirmation(@, local[w].pdf,
                       [name |-> name, pages |-> local[w].pages])]
    /\ UNCHANGED <<queue, dead, local, storeVars, buttons, historyVars>>

ProcPreview(w) ==
    LET c == job[w].chat IN
    /\ Goto(w, "proc_preview", "finish")
    /\ buttons' = [buttons EXCEPT ![c] = @ \cup {"confirm_save", "request_fix"}]
    /\ previewed' = [previewed EXCEPT
            ![c] = @ \cup {[pdf |-> local[w].pdf, pages |-> local[w].pages]}]
    /\ UNCHANGED <<queue, dead, local, session, storeVars, sealed, dispatched>>

-----------------------------------------------------------------------------
(* handleConfirmSave.                                                      *)

SaveMark(w) ==
    LET c == job[w].chat
        s == session[c]
    IN
    /\ Goto(w, "save_mark", "save_copy")
    /\ CanMarkSaving(s)
    /\ session' = [session EXCEPT ![c] = MarkSaving(@)]
    /\ local' = [local EXCEPT ![w].pages = s.class.pages, ![w].pdf = s.pdf,
                              ![w].name = s.class.name]
    /\ UNCHANGED <<queue, dead, storeVars, buttons, historyVars>>

\* ErrNotPending: the bot answers that there is nothing to confirm.
SaveNothing(w) ==
    /\ Goto(w, "save_mark", "finish")
    /\ ~CanMarkSaving(session[job[w].chat])
    /\ UNCHANGED <<queue, dead, local, session, storeVars, buttons,
                   historyVars>>

\* Move, first half.
SaveCopy(w) ==
    LET c    == job[w].chat
        from == UnsortedKey(c, local[w].pdf)
    IN
    /\ Goto(w, "save_copy", "save_delete")
    /\ CanCopy(bucket, from)
    /\ bucket' = CopyObject(bucket, from, FinalKey(c, local[w].name))
    /\ UNCHANGED <<queue, dead, local, session, raws, clock, letters, reminders,
                   buttons, historyVars>>

\* Variant, for mutation: the error of the copy is ignored.
SaveCopyMissingIgnored(w) ==
    /\ Goto(w, "save_copy", "save_delete")
    /\ ~CanCopy(bucket, UnsortedKey(job[w].chat, local[w].pdf))
    /\ UNCHANGED <<queue, dead, local, session, storeVars, buttons,
                   historyVars>>

\* There is nothing to copy: the handler reports it and fails.
SaveCopyMissing(w) ==
    /\ pc[w] = "save_copy"
    /\ ~CanCopy(bucket, UnsortedKey(job[w].chat, local[w].pdf))
    /\ GiveBack(w)
    /\ UNCHANGED <<failures, session, storeVars, userVars, buttons,
                   historyVars>>

\* Variant, for mutation: Move deletes what it has copied to.
SaveDeleteTarget(w) ==
    /\ Goto(w, "save_delete", "save_put")
    /\ bucket' = DeleteObject(bucket, FinalKey(job[w].chat, local[w].name))
    /\ UNCHANGED <<queue, dead, local, session, raws, clock, letters, reminders,
                   buttons, historyVars>>

\* Move, second half.
SaveDelete(w) ==
    /\ Goto(w, "save_delete", "save_put")
    /\ bucket' = DeleteObject(bucket, UnsortedKey(job[w].chat, local[w].pdf))
    /\ UNCHANGED <<queue, dead, local, session, raws, clock, letters, reminders,
                   buttons, historyVars>>

\* Variant, for mutation: an error of Put is ignored.
SavePutIgnored(w) ==
    LET c == job[w].chat IN
    /\ Goto(w, "save_put", "save_schedule")
    /\ local' = [local EXCEPT ![w].letter = Len(letters[c]) + 1]
    /\ UNCHANGED <<queue, dead, session, storeVars, buttons, historyVars>>

\* The letter is stored under a new random id: here, its place in the table.
SavePut(w) ==
    LET c == job[w].chat IN
    /\ Goto(w, "save_put", "save_schedule")
    /\ letters' = [letters EXCEPT ![c] = Append(@,
            [name |-> local[w].name, pdf |-> local[w].pdf,
             pages |-> local[w].pages])]
    /\ local' = [local EXCEPT ![w].letter = Len(letters[c]) + 1]
    /\ UNCHANGED <<queue, dead, session, bucket, raws, clock, reminders,
                   buttons, historyVars>>

\* ScheduleAll stops at its first error, which is only logged.
SaveSchedule(w) ==
    /\ Goto(w, "save_schedule", "save_clear")
    /\ \E n \in 0..MaxReminders :
        reminders' = reminders \cup
            {[chat |-> job[w].chat, letter |-> local[w].letter, kind |-> k] :
                k \in 1..n}
    /\ UNCHANGED <<queue, dead, local, session, bucket, raws, clock, letters,
                   buttons, historyVars>>

\* Variant, for mutation: the session is left as it is.
SaveClearForgotten(w) ==
    /\ Goto(w, "save_clear", "finish")
    /\ UNCHANGED <<queue, dead, local, session, storeVars, buttons, historyVars>>

SaveClear(w) ==
    LET c == job[w].chat IN
    /\ Goto(w, "save_clear", "finish")
    /\ session' = [session EXCEPT ![c] = Clear(@)]
    /\ UNCHANGED <<queue, dead, local, storeVars, buttons, historyVars>>

\* An error of that call is logged, and the letter is reported as saved.
SaveClearFails(w) ==
    /\ failures < MaxFailures
    /\ failures' = failures + 1
    /\ pc[w] = "save_clear"
    /\ pc' = [pc EXCEPT ![w] = "finish"]
    /\ UNCHANGED <<queue, dead, job, local, session, storeVars, userVars,
                   buttons, historyVars>>

-----------------------------------------------------------------------------
(* The expiry of sessions.                                                 *)

Expire(c) ==
    /\ SessionsExpire
    /\ session[c].ttl = "live"
    /\ session' = [session EXCEPT ![c] = Lapse(@)]
    /\ UNCHANGED <<queue, dead, failures, pc, job, local, storeVars, userVars,
                   buttons, historyVars>>

\* DynamoDB deletes an expired item when it gets to it.
Reap(c) ==
    /\ session[c].ttl = "expired"
    /\ session' = [session EXCEPT ![c] = Clear(@)]
    /\ UNCHANGED <<queue, dead, failures, pc, job, local, storeVars, userVars,
                   buttons, historyVars>>

-----------------------------------------------------------------------------
WorkerStep(w) ==
    \/ Finish(w)
    \/ PhotoStore(w) \/ PhotoAppend(w) \/ PhotoAck(w)
    \/ DoneEmpty(w) \/ DoneGet(w) \/ DoneMark(w) \/ DoneAlready(w)
    \/ DoneSend(w)
    \/ ClearSession(w)
    \/ TessRun(w) \/ TessReject(w)
    \/ ProcStore(w) \/ ProcPending(w) \/ ProcPreview(w)
    \/ SaveMark(w) \/ SaveNothing(w) \/ SaveCopy(w) \/ SaveCopyMissing(w)
    \/ SaveDelete(w) \/ SavePut(w) \/ SaveSchedule(w) \/ SaveClear(w)

Next ==
    \/ \E c \in Chats : PostPhoto(c)
    \/ \E c \in Chats, kind \in TapKinds : PostTap(c, kind)
    \/ \E w \in Workers, m \in queue : Receive(w, m)
    \/ \E w \in Workers : WorkerStep(w) \/ SaveClearFails(w) \/ Fail(w)
    \/ \E c \in Chats : Expire(c) \/ Reap(c)

Spec == Init /\ [][Next]_vars

(***************************************************************************)
(* SQS hands a waiting message to Lambda, and an invocation takes its next *)
(* step or stops.  Users, expiry and failures are under no obligation.     *)
(***************************************************************************)
Fairness ==
    \A w \in Workers : /\ WF_vars(\E m \in queue : Receive(w, m))
                       /\ WF_vars(WorkerStep(w))

FairSpec == Spec /\ Fairness

-----------------------------------------------------------------------------
(* Properties.                                                             *)

\* Every variable has its type; a worker that is not idle holds a message.
MessagesOK ==
    /\ queue \subseteq Message
    /\ dead \subseteq Message
    /\ failures \in 0..MaxFailures

WorkersOK ==
    /\ pc \in [Workers -> Steps]
    /\ job \in [Workers -> Message \cup {NoMessage}]
    /\ local \in [Workers -> Local]
    /\ \A w \in Workers : pc[w] # "idle" => job[w] \in Message
    /\ \A w \in Workers : pc[w] = "photo_append" => Len(local[w].pages) = 1

StoresOK ==
    /\ session \in [Chats -> Item]
    /\ DOMAIN bucket \subseteq ObjectKey
    /\ \A k \in DOMAIN bucket : bucket[k] \in Pdf
    /\ raws \in [Chats -> Nat]
    /\ clock \in [Chats -> Nat]
    /\ letters \in [Chats -> Seq(Letter)]
    /\ reminders \subseteq Reminder

UsersOK ==
    /\ posts \in [Chats -> 0..MaxPosts]
    /\ taps \in [Chats -> [TapKinds -> Nat]]
    /\ buttons \in [Chats -> SUBSET TapKinds]

HistoryOK ==
    /\ sealed \in [Chats -> SUBSET RawKey]
    /\ dispatched \in [Chats -> Seq(Seq(RawKey))]
    /\ previewed \in [Chats -> SUBSET Pdf]

TypeOK == MessagesOK /\ WorkersOK /\ StoresOK /\ UsersOK /\ HistoryOK

(***************************************************************************)
(* Why no page is sent twice.  A raw key is new when it is made and is in   *)
(* one worker's hands until it is in the session; a session without status *)
(* holds no page that Done has taken; and a page that Done has taken is in  *)
(* one place: with the worker that sends it, or in one batch.              *)
(***************************************************************************)
Adding(w, c) == pc[w] = "photo_append" /\ job[w].chat = c

Sending(w, c) == pc[w] = "done_send" /\ job[w].chat = c

KnownPages(c) == Range(session[c].raw) \cup sealed[c]

KnownPagesAreOld == \A c \in Chats : \A k \in KnownPages(c) : k.at <= raws[c]

AddedPagesAreNew ==
    \A c \in Chats : \A w \in Workers : Adding(w, c) =>
        /\ local[w].pages[1].at <= raws[c]
        /\ local[w].pages[1] \notin KnownPages(c)
        /\ \A v \in Workers \ {w} : Adding(v, c) =>
               local[v].pages[1] # local[w].pages[1]

OpenSessionsAreUntaken ==
    \A c \in Chats : session[c].status = "none" =>
        Range(session[c].raw) \cap sealed[c] = {}

TakenPagesAreInOnePlace ==
    \A c \in Chats :
        /\ Pages(dispatched[c]) \subseteq sealed[c]
        /\ \A w \in Workers : Sending(w, c) =>
            /\ Range(local[w].pages) \subseteq sealed[c]
            /\ Range(local[w].pages) \cap Pages(dispatched[c]) = {}
            /\ \A v \in Workers \ {w} : Sending(v, c) =>
                   Range(local[v].pages) \cap Range(local[w].pages) = {}

(***************************************************************************)
(* However often Done is pressed, delivered again or raced by new photos   *)
(* and restarts, no page is sent to processing in two batches: the         *)
(* conditional update of MarkAwaitingProcessing is the only guard.         *)
(***************************************************************************)
NoDoubleDispatch ==
    \A c \in Chats : \A i, j \in DOMAIN dispatched[c] :
        i # j => Range(dispatched[c][i]) \cap Range(dispatched[c][j]) = {}

\* The pages that a worker has taken with Done and not sent yet.
BeingSent(c) ==
    UNION {Range(local[w].pages) : w \in {v \in Workers : Sending(v, c)}}

\* The inductive invariant behind NoDoubleDispatch (see UploadFlow_proofs).
PageInv ==
    /\ KnownPagesAreOld
    /\ AddedPagesAreNew
    /\ OpenSessionsAreUntaken
    /\ TakenPagesAreInOnePlace
    /\ NoDoubleDispatch

(***************************************************************************)
(* As long as nothing fails, Done loses no page: every page that was in the*)
(* session when the session was taken is sent or about to be sent, also    *)
(* one that arrived after handleDone had read the session.                 *)
(***************************************************************************)
SealedPagesSent ==
    failures = 0 =>
        \A c \in Chats :
            sealed[c] \subseteq Pages(dispatched[c]) \cup BeingSent(c)

(***************************************************************************)
(* However often Save is pressed or delivered again, the PDF of a preview  *)
(* is archived as one letter at most.  (PDFs built in the same second share*)
(* a key, and are not told apart.)                                         *)
(***************************************************************************)
SavedOncePerPdf ==
    \A c \in Chats : \A i, j \in DOMAIN letters[c] :
        i # j => letters[c][i].pdf # letters[c][j].pdf

(***************************************************************************)
(* A session that awaits confirmation points to a PDF that is there and is *)
(* made of the pages that were classified: what the user reads in the      *)
(* preview is what Save will archive, also when deliveries are repeated.   *)
(***************************************************************************)
PendingPdfStored ==
    \A c \in Chats : LET s == session[c]  k == UnsortedKey(c, s.pdf) IN
        s.status = "pending_confirmation" =>
            /\ k \in DOMAIN bucket
            /\ bucket[k].pages = s.class.pages

(***************************************************************************)
(* Every letter of the archive keeps its PDF: under the key its metadata   *)
(* names lies the very PDF it was saved with, whatever is saved, redelivered*)
(* or failing half-way after it.                                           *)
(***************************************************************************)
LetterPdfIntact ==
    \A c \in Chats : \A l \in Range(letters[c]) :
        LET k == FinalKey(c, l.name) IN
            /\ k \in DOMAIN bucket
            /\ bucket[k] = [pdf |-> l.pdf, pages |-> l.pages]

(***************************************************************************)
(* Also when PDFs and file names collide, a letter of the archive has some *)
(* PDF: a Save that finds nothing to move stops before it stores a letter. *)
(***************************************************************************)
LetterHasFile ==
    \A c \in Chats : \A l \in Range(letters[c]) :
        FinalKey(c, l.name) \in DOMAIN bucket

(***************************************************************************)
(* A Save that has taken the session finds the PDF it is about to move,    *)
(* whichever previews were replaced, saved or delivered again before it.   *)
(***************************************************************************)
SaveFindsItsPdf ==
    \A w \in Workers : pc[w] = "save_copy" =>
        CanCopy(bucket, UnsortedKey(job[w].chat, local[w].pdf))

(***************************************************************************)
(* A letter is what the user sealed with one Done, and all of it: every PDF*)
(* and every letter has the pages of one batch, and two letters share pages*)
(* only if they were made of the same batch.  This does not depend on keys *)
(* and names being different.                                              *)
(***************************************************************************)
WholeLetters ==
    \A c \in Chats : LET batches == Range(dispatched[c]) IN
        /\ \A k \in DOMAIN bucket : k.chat = c => bucket[k].pages \in batches
        /\ \A l \in Range(letters[c]) : l.pages \in batches
        /\ \A k, l \in Range(letters[c]) :
               Range(k.pages) \cap Range(l.pages) # {} => k.pages = l.pages

(***************************************************************************)
(* A PDF the user has been shown is not lost by a failure half-way through *)
(* Save: it stays in the bucket under the one key or the other.            *)
(***************************************************************************)
PreviewedPdfKept ==
    \A c \in Chats : \A p \in previewed[c] :
        \E k \in DOMAIN bucket : k.chat = c /\ bucket[k] = p

(***************************************************************************)
(* What is kept under a chat is made of that chat's photos only, in every  *)
(* store: session, bucket and archive.                                     *)
(***************************************************************************)
TenantsApart ==
    /\ \A c \in Chats :
        \A k \in Range(session[c].raw) \cup Range(session[c].class.pages) :
            k.chat = c
    /\ \A key \in DOMAIN bucket : \A k \in Range(bucket[key].pages) :
            k.chat = key.chat
    /\ \A c \in Chats : \A l \in Range(letters[c]) : \A k \in Range(l.pages) :
            k.chat = c

(***************************************************************************)
(* Every batch sent to processing is eventually previewed, or one of its   *)
(* messages ends in a dead-letter queue where an operator finds it.        *)
(***************************************************************************)
Settled(c, pages) ==
    \/ \E p \in previewed[c] : p.pages = pages
    \/ \E m \in dead : m.chat = c /\ m.pages = pages

BatchSettles ==
    \A c \in Chats : \A n \in 1..MaxTaps["done"] :
        n \in DOMAIN dispatched[c] ~>
            n \in DOMAIN dispatched[c] /\ Settled(c, dispatched[c][n])

(***************************************************************************)
(* No batch is lost on its way from images-to-process to the preview: it is*)
(* in a message, also in one that was given up, or with a worker that has  *)
(* not shown it yet, or it has been shown.                                 *)
(***************************************************************************)
BatchMessages == {"images", "processed"}

Carries(m, c, i) ==
    /\ m.kind \in BatchMessages
    /\ m.chat = c
    /\ m.id = i
    /\ m.pages = dispatched[c][i]

BatchSteps == {"tess_run", "proc_store", "proc_pending", "proc_preview"}

OnItsWay(c, i) ==
    \/ \E m \in queue \cup dead : Carries(m, c, i)
    \/ \E w \in Workers : pc[w] \in BatchSteps /\ Carries(job[w], c, i)

NoBatchLost ==
    \A c \in Chats : \A i \in DOMAIN dispatched[c] :
        OnItsWay(c, i) \/ \E p \in previewed[c] : p.pages = dispatched[c][i]

(***************************************************************************)
(* A session does not stay in the middle of processing or of Save, where a *)
(* new photo is added to a letter that is already on its way: unless some  *)
(* call fails, or its batch is refused, it moves on.                       *)
(***************************************************************************)
Busy(c) == session[c].status \in {"awaiting_processing", "saving"}

SessionSettles ==
    \A c \in Chats :
        Busy(c) ~> ~Busy(c) \/ failures > 0 \/ \E m \in dead : m.chat = c

(***************************************************************************)
(* What SessionSettles rests on: as long as nothing fails, a session in the*)
(* middle of processing or of Save has somebody who is going to move it on:*)
(* a batch on its way to the preview, or a worker in the middle of Save.   *)
(***************************************************************************)
At(w, c, steps) == pc[w] \in steps /\ job[w].chat = c

BeforePending == {"done_send", "tess_run", "proc_store", "proc_pending"}

BeforeClear ==
    {"save_copy", "save_delete", "save_put", "save_schedule", "save_clear"}

InProcessing(c) ==
    \/ \E m \in queue \cup dead : m.kind \in BatchMessages /\ m.chat = c
    \/ \E w \in Workers : At(w, c, BeforePending)

BusyIsMoving ==
    failures = 0 => \A c \in Chats :
        /\ session[c].status = "awaiting_processing" => InProcessing(c)
        /\ session[c].status = "saving" => \E w \in Workers : At(w, c, BeforeClear)

(***************************************************************************)
(* No letter without pages is shown or saved.  A Done that races a restart *)
(* or the expiry of its session takes a session without pages; its batch   *)
(* must end in the dead-letter queue.                                      *)
(***************************************************************************)
NoEmptyLetter ==
    \A c \in Chats :
        /\ \A p \in previewed[c] : p.pages # <<>>
        /\ \A l \in Range(letters[c]) : l.pages # <<>>

(***************************************************************************)
(* A reminder is about a letter that is in the archive, also when the Save *)
(* that has scheduled it fails right after, or has scheduled only some.    *)
(***************************************************************************)
RemindersHaveLetter ==
    \A r \in reminders : r.letter \in DOMAIN letters[r.chat]

-----------------------------------------------------------------------------
(* The promise of the upload flow, LetterLife, which it keeps as long as no*)
(* two PDFs share a key.                                                   *)

PageNumbers(pages) == {k.at : k \in Range(pages)}

\* The pages of a PDF of a chat, under whichever key it lies.
PdfPages(c, n) ==
    LET k == CHOOSE key \in DOMAIN bucket :
                 key.chat = c /\ bucket[key].pdf = n
    IN  PageNumbers(bucket[k].pages)

Life == INSTANCE LetterLife WITH
    photos   <- raws,
    sent     <- [c \in Chats |->
                   {PageNumbers(dispatched[c][i]) : i \in DOMAIN dispatched[c]}],
    pdfs     <- [c \in Chats |-> [n \in 1..clock[c] |-> PdfPages(c, n)]],
    archived <- [c \in Chats |-> [i \in DOMAIN letters[c] |->
                   [pdf   |-> letters[c][i].pdf,
                    pages |-> PageNumbers(letters[c][i].pages)]]]

(***************************************************************************)
(* Every step of every handler is a step of LetterLife or changes nothing  *)
(* there: pages are sent once, PDFs are neither lost nor overwritten by    *)
(* another, and a preview becomes one letter, whatever is raced, delivered *)
(* again or failing half-way.                                              *)
(***************************************************************************)
ImplementsLetterLife == Life!Spec

-----------------------------------------------------------------------------
(* Claims of the repository that the code does not keep.                   *)

(***************************************************************************)
(* A session all of whose pages are new (Done has taken none of them) is   *)
(* usable: no status of an earlier letter has leaked into it.              *)
(***************************************************************************)
FreshSessionUsable ==
    \A c \in Chats : LET s == session[c] IN
        (s.raw # <<>> /\ Range(s.raw) \cap sealed[c] = {}) => s.status = "none"

\* Pages that Done has taken are eventually sent to processing.
SealedIsDispatched ==
    \A c \in Chats : \A n \in 1..MaxPosts :
        LET k == [chat |-> c, at |-> n] IN
            k \in sealed[c] ~> k \in Pages(dispatched[c])
=============================================================================
