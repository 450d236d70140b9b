-------------------------- MODULE LetterLife_proofs -------------------------
(***************************************************************************)
(* Theorems about the letters UploadFlow makes: what they are made of, that*)
(* each PDF becomes one letter at most, that PDFs are kept, and that the   *)
(* upload flow implements LetterLife.  Where two PDFs may share a key, the *)
(* theorem assumes that they do not, and says so.                          *)
(***************************************************************************)
EXTENDS UploadFlow_proofs

AtWork(w) == pc[w] # "idle"

Pending(c) == session[c].status = "pending_confirmation"

\* Where a worker holds a PDF that is not in the session or the archive.
SavingSteps == {"save_copy", "save_delete", "save_put"}

HoldingSteps == {"proc_pending"} \cup SavingSteps

PrintedSteps == {"proc_preview"} \cup HoldingSteps

Holds(w, c) == pc[w] \in HoldingSteps /\ job[w].chat = c

-----------------------------------------------------------------------------
(* Whose pages they are.  Everything that is kept under a chat, on its way *)
(* to a worker or with one, is made of that chat's photos; a batch that has*)
(* been through tesseract has a page; and no other is printed.             *)

Own(pages, c) == \A k \in Range(pages) : k.chat = c

BatchOK(m) ==
    /\ Own(m.pages, m.chat)
    /\ m.kind \in {"images", "processed"} => m.pages \in Range(dispatched[m.chat])
    /\ m.kind = "processed" => m.pages # <<>>

MessagesOwn ==
    /\ \A m \in queue : BatchOK(m)
    /\ \A w \in Workers : AtWork(w) => BatchOK(job[w])

WorkersOwn ==
    \A w \in Workers :
        /\ ~AtWork(w) => local[w].pages = <<>>
        /\ AtWork(w) => Own(local[w].pages, job[w].chat)
        /\ pc[w] \in PrintedSteps => local[w].pages # <<>>
        /\ pc[w] = "tess_run" => job[w].kind = "images"
        /\ pc[w] = "proc_store" => job[w].kind = "processed"

ItemOwn(s, c) ==
    /\ Own(s.raw, c)
    /\ Own(s.class.pages, c)
    /\ s.status = "pending_confirmation" => s.class.pages # <<>>

SessionsOwn == \A c \in Chats : ItemOwn(session[c], c)

HistoryOwn ==
    \A c \in Chats :
        /\ \A k \in sealed[c] : k.chat = c
        /\ \A i \in DOMAIN dispatched[c] : Own(dispatched[c][i], c)
        /\ \A p \in previewed[c] : p.pages # <<>>

StoresOwn ==
    /\ \A key \in DOMAIN bucket : Own(bucket[key].pages, key.chat)
    /\ \A c \in Chats : \A i \in DOMAIN letters[c] :
           Own(letters[c][i].pages, c) /\ letters[c][i].pages # <<>>

OwnInv == MessagesOwn /\ WorkersOwn /\ SessionsOwn /\ HistoryOwn /\ StoresOwn

-----------------------------------------------------------------------------
(* Who holds a PDF.  Until it is a letter, a PDF is with one worker that has*)
(* just built it, or in the session, or with one worker that saves it.     *)

PdfsAreOld ==
    \A c \in Chats :
        /\ \A w \in Workers : Holds(w, c) => local[w].pdf \in 1..clock[c]
        /\ Pending(c) => session[c].pdf \in 1..clock[c]
        /\ \A i \in DOMAIN letters[c] : letters[c][i].pdf \in 1..clock[c]

HoldersDiffer ==
    \A c \in Chats : \A v, w \in Workers :
        v # w /\ Holds(v, c) /\ Holds(w, c) => local[v].pdf # local[w].pdf

PendingIsFree ==
    \A c \in Chats : Pending(c) =>
        /\ \A w \in Workers : Holds(w, c) => local[w].pdf # session[c].pdf
        /\ \A i \in DOMAIN letters[c] : letters[c][i].pdf # session[c].pdf

HeldIsUnsaved ==
    \A c \in Chats : \A w \in Workers : Holds(w, c) =>
        \A i \in DOMAIN letters[c] : letters[c][i].pdf # local[w].pdf

HolderInv ==
    PdfsAreOld /\ HoldersDiffer /\ PendingIsFree /\ HeldIsUnsaved /\ SavedOncePerPdf

-----------------------------------------------------------------------------
(* What lies under the keys.  A key ends in the number of the PDF below it;*)
(* the copies of a PDF are equal, one of them stays, and whoever speaks of *)
(* a PDF means the pages it has.                                           *)

KeysNamePdfs ==
    \A k \in DOMAIN bucket : bucket[k].pdf = k.name /\ k.name \in 1..clock[k.chat]

PdfsKept ==
    \A c \in Chats : \A n \in 1..clock[c] :
        \E k \in DOMAIN bucket : k.chat = c /\ k.name = n

PagesAre(c, n, pages) ==
    \A k \in DOMAIN bucket : k.chat = c /\ k.name = n => bucket[k].pages = pages

CopiesAgree ==
    \A k \in DOMAIN bucket : PagesAre(k.chat, k.name, bucket[k].pages)

PendingStored ==
    \A c \in Chats : Pending(c) =>
        /\ UnsortedKey(c, session[c].pdf) \in DOMAIN bucket
        /\ session[c].class.name = session[c].pdf
        /\ PagesAre(c, session[c].pdf, session[c].class.pages)

HeldStored ==
    \A w \in Workers : LET c == job[w].chat  n == local[w].pdf IN
        /\ pc[w] \in PrintedSteps =>
               n \in 1..clock[c] /\ PagesAre(c, n, local[w].pages)
        /\ pc[w] = "proc_pending" => UnsortedKey(c, n) \in DOMAIN bucket
        /\ pc[w] \in SavingSteps => local[w].name = n
        /\ pc[w] \in {"save_delete", "save_put"} =>
               FinalKey(c, n) \in DOMAIN bucket

LettersStored ==
    \A c \in Chats : \A i \in DOMAIN letters[c] : LET l == letters[c][i] IN
        /\ l.name = l.pdf
        /\ FinalKey(c, l.pdf) \in DOMAIN bucket
        /\ PagesAre(c, l.pdf, l.pages)

PreviewsStored ==
    \A c \in Chats : \A p \in previewed[c] :
        p.pdf \in 1..clock[c] /\ PagesAre(c, p.pdf, p.pages)

StoredInv ==
    /\ KeysNamePdfs
    /\ PdfsKept
    /\ CopiesAgree
    /\ PendingStored
    /\ HeldStored
    /\ LettersStored
    /\ PreviewsStored

-----------------------------------------------------------------------------
(* What most steps leave alone.                                            *)

\* Batches are taken, sent and previewed by three steps only.
LEMMA HistoryStays ==
    ASSUME [Next]_vars,
           ~ \E w \in Workers : DoneMark(w) \/ DoneSend(w) \/ ProcPreview(w)
    PROVE  UNCHANGED historyVars
  <1> USE DEF historyVars
  <1>1. ASSUME NEW w \in Workers,
               \/ Finish(w) \/ Fail(w) \/ TessReject(w) \/ SaveCopyMissing(w)
               \/ PhotoStore(w) \/ PhotoAppend(w) \/ PhotoAck(w)
               \/ DoneEmpty(w) \/ DoneGet(w) \/ DoneAlready(w)
               \/ ClearSession(w) \/ TessRun(w)
        PROVE  UNCHANGED historyVars
    BY <1>1 DEF Finish, Fail, TessReject, SaveCopyMissing, PhotoStore,
                PhotoAppend, PhotoAck, DoneEmpty, DoneGet, DoneAlready,
                ClearSession, TessRun
  <1>2. ASSUME NEW w \in Workers,
               \/ ProcStore(w) \/ ProcPending(w) \/ SaveMark(w)
               \/ SaveNothing(w) \/ SaveCopy(w) \/ SaveDelete(w) \/ SavePut(w)
               \/ SaveSchedule(w) \/ SaveClear(w) \/ SaveClearFails(w)
        PROVE  UNCHANGED historyVars
    BY <1>2 DEF ProcStore, ProcPending, SaveMark, SaveNothing, SaveCopy,
                SaveDelete, SavePut, SaveSchedule, SaveClear, SaveClearFails
  <1>3. ASSUME NEW c \in Chats,
               \/ PostPhoto(c) \/ Expire(c) \/ Reap(c)
               \/ \E kind \in TapKinds : PostTap(c, kind)
        PROVE  UNCHANGED historyVars
    BY <1>3 DEF PostPhoto, PostTap, Expire, Reap
  <1>4. ASSUME NEW w \in Workers, NEW m \in queue, Receive(w, m)
        PROVE  UNCHANGED historyVars
    BY <1>4 DEF Receive
  <1>5. ASSUME UNCHANGED vars
        PROVE  UNCHANGED historyVars
    BY <1>5 DEF vars
  <1> QED
    BY <1>1, <1>2, <1>3, <1>4, <1>5 DEF Next, WorkerStep

\* PDFs are stored, moved and archived by four steps only.
LEMMA StoresStay ==
    ASSUME [Next]_vars,
           ~ \E w \in Workers : \/ ProcStore(w) \/ SaveCopy(w)
                                \/ SaveDelete(w) \/ SavePut(w)
    PROVE  UNCHANGED <<bucket, clock, letters>>
  <1> USE DEF storeVars
  <1>1. ASSUME NEW w \in Workers,
               \/ Finish(w) \/ Fail(w) \/ TessReject(w) \/ SaveCopyMissing(w)
               \/ PhotoStore(w) \/ PhotoAppend(w) \/ PhotoAck(w)
               \/ DoneEmpty(w) \/ DoneGet(w) \/ DoneMark(w) \/ DoneAlready(w)
               \/ DoneSend(w) \/ ClearSession(w) \/ TessRun(w)
        PROVE  UNCHANGED <<bucket, clock, letters>>
    BY <1>1 DEF Finish, Fail, TessReject, SaveCopyMissing, PhotoStore,
                PhotoAppend, PhotoAck, DoneEmpty, DoneGet, DoneMark,
                DoneAlready, DoneSend, ClearSession, TessRun
  <1>2. ASSUME NEW w \in Workers,
               \/ ProcPending(w) \/ ProcPreview(w) \/ SaveMark(w)
               \/ SaveNothing(w) \/ SaveSchedule(w) \/ SaveClear(w)
               \/ SaveClearFails(w)
        PROVE  UNCHANGED <<bucket, clock, letters>>
    BY <1>2 DEF ProcPending, ProcPreview, SaveMark, SaveNothing, SaveSchedule,
                SaveClear, SaveClearFails
  <1>3. ASSUME NEW c \in Chats,
               \/ PostPhoto(c) \/ Expire(c) \/ Reap(c)
               \/ \E kind \in TapKinds : PostTap(c, kind)
        PROVE  UNCHANGED <<bucket, clock, letters>>
    BY <1>3 DEF PostPhoto, PostTap, Expire, Reap
  <1>4. ASSUME NEW w \in Workers, NEW m \in queue, Receive(w, m)
        PROVE  UNCHANGED <<bucket, clock, letters>>
    BY <1>4 DEF Receive
  <1>5. ASSUME UNCHANGED vars
        PROVE  UNCHANGED <<bucket, clock, letters>>
    BY <1>5 DEF vars
  <1> QED
    BY <1>1, <1>2, <1>3, <1>4, <1>5 DEF Next, WorkerStep

(***************************************************************************)
(* A worker gets a PDF by building one or by taking over the session's; it *)
(* keeps what it holds, unchanged, for as long as it holds it.             *)
(***************************************************************************)
LEMMA HoldersStay ==
    ASSUME TypeOK, [Next]_vars,
           ~ \E w \in Workers : ProcStore(w) \/ SaveMark(w)
    PROVE  \A v \in Workers :
               /\ pc'[v] \in PrintedSteps =>
                      /\ pc[v] \in PrintedSteps
                      /\ job'[v] = job[v]
                      /\ local'[v] = local[v]
               /\ pc'[v] \in HoldingSteps => pc[v] \in HoldingSteps
               /\ pc'[v] \in SavingSteps => pc[v] \in SavingSteps
               /\ pc'[v] = "proc_pending" => pc[v] = "proc_pending"
               /\ pc'[v] = "proc_preview" => pc[v] \in {"proc_pending", "proc_preview"}
               /\ pc'[v] = "save_copy" => pc[v] = "save_copy"
               /\ pc'[v] \in {"save_delete", "save_put"} =>
                      \/ pc[v] \in {"save_delete", "save_put"}
                      \/ SaveCopy(v)
  <1> DEFINE Goal ==
       \A v \in Workers :
               /\ pc'[v] \in PrintedSteps =>
                      /\ pc[v] \in PrintedSteps
                      /\ job'[v] = job[v]
                      /\ local'[v] = local[v]
               /\ pc'[v] \in HoldingSteps => pc[v] \in HoldingSteps
               /\ pc'[v] \in SavingSteps => pc[v] \in SavingSteps
               /\ pc'[v] = "proc_pending" => pc[v] = "proc_pending"
               /\ pc'[v] = "proc_preview" => pc[v] \in {"proc_pending", "proc_preview"}
               /\ pc'[v] = "save_copy" => pc[v] = "save_copy"
               /\ pc'[v] \in {"save_delete", "save_put"} =>
                      \/ pc[v] \in {"save_delete", "save_put"}
                      \/ SaveCopy(v)
  <1> USE DEF PrintedSteps, HoldingSteps, SavingSteps
  <1>1. /\ pc \in [Workers -> Steps]
        /\ job \in [Workers -> Message \cup {NoMessage}]
        /\ local \in [Workers -> Local]
        /\ queue \subseteq Message
    BY DEF TypeOK, WorkersOK, MessagesOK
  <1>2. ASSUME NEW w \in Workers, pc' = [pc EXCEPT ![w] = "idle"],
               job' = [job EXCEPT ![w] = NoMessage],
               local' = [local EXCEPT ![w] = NoLocal]
        PROVE  Goal
    BY <1>1, <1>2
  <1>3. ASSUME NEW w \in Workers,
               Finish(w) \/ Fail(w) \/ TessReject(w) \/ SaveCopyMissing(w)
        PROVE  Goal
    BY <1>2, <1>3 DEF Finish, Fail, TessReject, SaveCopyMissing, GiveBack,
                      Return, Rest
  <1>4. ASSUME NEW w \in Workers, job' = job,
               \E to \in Steps \ PrintedSteps : pc' = [pc EXCEPT ![w] = to],
               \A v \in Workers \ {w} : local'[v] = local[v]
        PROVE  Goal
    BY <1>1, <1>4
  <1>5. ASSUME NEW w \in Workers,
               \/ PhotoStore(w) \/ DoneGet(w) \/ DoneMark(w) \/ SavePut(w)
        PROVE  Goal
    <2>1. /\ \E to \in Steps \ PrintedSteps : pc' = [pc EXCEPT ![w] = to]
          /\ job' = job
      BY <1>5 DEF PhotoStore, DoneGet, DoneMark, SavePut, Goto, Advance, Steps
    <2>2. \A v \in Workers \ {w} : local'[v] = local[v]
      BY <1>1, <1>5 DEF PhotoStore, DoneGet, DoneMark, SavePut
    <2> QED
      BY <1>4, <2>1, <2>2
  <1>6. ASSUME NEW w \in Workers,
               \/ PhotoAppend(w) \/ PhotoAck(w) \/ DoneEmpty(w)
               \/ DoneAlready(w) \/ DoneSend(w) \/ ClearSession(w) \/ TessRun(w)
               \/ ProcPreview(w) \/ SaveNothing(w) \/ SaveSchedule(w)
               \/ SaveClear(w) \/ SaveClearFails(w)
        PROVE  Goal
    <2>1. /\ \E to \in Steps \ PrintedSteps : pc' = [pc EXCEPT ![w] = to]
          /\ job' = job /\ local' = local
      BY <1>6 DEF PhotoAppend, PhotoAck, DoneEmpty, DoneAlready, DoneSend,
                  ClearSession, TessRun, ProcPreview, SaveNothing,
                  SaveSchedule, SaveClear, SaveClearFails, Goto, Advance, Steps
    <2> QED
      BY <1>4, <2>1
  <1>7. ASSUME NEW w \in Workers, ProcPending(w) \/ SaveCopy(w) \/ SaveDelete(w)
        PROVE  Goal
    <2>1. /\ job' = job /\ local' = local
          /\ \/ /\ pc[w] = "proc_pending"
                /\ pc' = [pc EXCEPT ![w] = "proc_preview"]
             \/ /\ pc[w] = "save_copy" /\ SaveCopy(w)
                /\ pc' = [pc EXCEPT ![w] = "save_delete"]
             \/ /\ pc[w] = "save_delete"
                /\ pc' = [pc EXCEPT ![w] = "save_put"]
      BY <1>7 DEF ProcPending, SaveCopy, SaveDelete, Goto, Advance
    <2> QED
      BY <1>1, <2>1
  <1>8. ASSUME NEW w \in Workers, NEW m \in queue, Receive(w, m)
        PROVE  Goal
    <2>1. Entry[m.kind] \in Steps \ PrintedSteps
      BY <1>1 DEF Message, Kinds, TapKinds, Entry, Steps
    <2>2. /\ pc' = [pc EXCEPT ![w] = Entry[m.kind]]
          /\ job' = [job EXCEPT ![w] = [m EXCEPT !.receives = @ + 1]]
          /\ local' = local
      BY <1>8 DEF Receive, Deliver
    <2> QED
      BY <1>1, <2>1, <2>2
  <1>9. ASSUME UNCHANGED <<pc, job, local>>
        PROVE  Goal
    BY <1>9
  <1>10. ASSUME NEW c \in Chats,
                \/ PostPhoto(c) \/ Expire(c) \/ Reap(c)
                \/ \E kind \in TapKinds : PostTap(c, kind)
         PROVE  Goal
    BY <1>9, <1>10 DEF PostPhoto, PostTap, Expire, Reap
  <1>11. ASSUME UNCHANGED vars
         PROVE  Goal
    BY <1>9, <1>11 DEF vars
  <1> HIDE DEF Goal
  <1>12. Goal
    BY <1>3, <1>5, <1>6, <1>7, <1>8, <1>10, <1>11 DEF Next, WorkerStep
  <1> QED
    BY <1>12 DEF Goal

\* A session that awaits confirmation does so with the PDF it has.
LEMMA PendingStays ==
    ASSUME TypeOK, [Next]_vars, ~ \E w \in Workers : ProcPending(w)
    PROVE  \A c \in Chats : Pending(c)' =>
               /\ Pending(c)
               /\ session'[c].pdf = session[c].pdf
               /\ session'[c].class = session[c].class
  <1> DEFINE Goal == \A c \in Chats : Pending(c)' =>
               /\ Pending(c)
               /\ session'[c].pdf = session[c].pdf
               /\ session'[c].class = session[c].class
  <1> USE DEF Pending
  <1>1. session \in [Chats -> Item]
    BY DEF TypeOK, StoresOK
  <1>2. ASSUME UNCHANGED session
        PROVE  Goal
    BY <1>2
  <1>3. ASSUME NEW w \in Workers,
               \/ Finish(w) \/ Fail(w) \/ TessReject(w) \/ SaveCopyMissing(w)
               \/ PhotoStore(w) \/ PhotoAck(w)
               \/ DoneEmpty(w) \/ DoneGet(w) \/ DoneAlready(w)
               \/ DoneSend(w) \/ TessRun(w)
        PROVE  Goal
    BY <1>2, <1>3 DEF Finish, Fail, TessReject, SaveCopyMissing, PhotoStore,
                PhotoAck, DoneEmpty, DoneGet, DoneAlready, DoneSend, TessRun
  <1>4. ASSUME NEW w \in Workers,
               \/ ProcStore(w) \/ ProcPreview(w) \/ SaveNothing(w)
               \/ SaveCopy(w) \/ SaveDelete(w) \/ SavePut(w)
               \/ SaveSchedule(w) \/ SaveClearFails(w)
        PROVE  Goal
    BY <1>2, <1>4 DEF ProcStore, ProcPreview, SaveNothing, SaveCopy,
                SaveDelete, SavePut, SaveSchedule, SaveClearFails
  <1>5. ASSUME NEW c \in Chats,
               PostPhoto(c) \/ \E kind \in TapKinds : PostTap(c, kind)
        PROVE  Goal
    BY <1>2, <1>5 DEF PostPhoto, PostTap
  <1>6. ASSUME NEW w \in Workers, NEW m \in queue, Receive(w, m)
        PROVE  Goal
    BY <1>2, <1>6 DEF Receive
  <1>7. ASSUME UNCHANGED vars
        PROVE  Goal
    BY <1>2, <1>7 DEF vars
  <1>8. ASSUME NEW d, NEW s, session' = [session EXCEPT ![d] = s],
               s.status # "pending_confirmation"
        PROVE  Goal
    BY <1>1, <1>8
  <1>9. ASSUME NEW w \in Workers, ClearSession(w) \/ SaveClear(w)
        PROVE  Goal
    <2>1. session' = [session EXCEPT ![job[w].chat] = NoItem]
      BY <1>9 DEF ClearSession, SaveClear, Clear
    <2> QED
      BY <1>1, <2>1 DEF NoItem
  <1>10. ASSUME NEW c \in Chats, Reap(c)
         PROVE  Goal
    BY <1>8, <1>10 DEF Reap, Clear, NoItem
  <1>11. ASSUME NEW w \in Workers, DoneMark(w) \/ SaveMark(w)
         PROVE  Goal
    <2>1. \/ session' = [session EXCEPT ![job[w].chat] = MarkAwaitingProcessing(@)]
          \/ session' = [session EXCEPT ![job[w].chat] = MarkSaving(@)]
      BY <1>11 DEF DoneMark, SaveMark
    <2>2. \A s \in Item : /\ MarkAwaitingProcessing(s).status = "awaiting_processing"
                          /\ MarkSaving(s).status = "saving"
      BY DEF MarkAwaitingProcessing, MarkSaving, Item
    <2> QED
      BY <1>1, <2>1, <2>2
  <1>12. ASSUME NEW w \in Workers, PhotoAppend(w)
         PROVE  Goal
    <2>1. \A s \in Item : \A k : LET t == AppendRawKey(s, k) IN
              t.status = s.status /\ t.pdf = s.pdf /\ t.class = s.class
      BY DEF AppendRawKey, Item
    <2> QED
      BY <1>1, <1>12, <2>1 DEF PhotoAppend
  <1>13. ASSUME NEW c \in Chats, Expire(c)
         PROVE  Goal
    <2>1. \A s \in Item : LET t == Lapse(s) IN
              t.status = s.status /\ t.pdf = s.pdf /\ t.class = s.class
      BY DEF Lapse, Item
    <2> QED
      BY <1>1, <1>13, <2>1 DEF Expire
  <1> HIDE DEF Goal
  <1>14. Goal
    BY <1>3, <1>4, <1>5, <1>6, <1>7, <1>9, <1>10, <1>11, <1>12, <1>13
    DEF Next, WorkerStep
  <1> QED
    BY <1>14 DEF Goal

-----------------------------------------------------------------------------
(* Whose pages they are: OwnInv is inductive.                              *)

\* What the proofs need of the types.
LEMMA OwnTyped ==
    ASSUME TypeOK
    PROVE  /\ session \in [Chats -> Item]
           /\ pc \in [Workers -> Steps]
           /\ job \in [Workers -> Message \cup {NoMessage}]
           /\ local \in [Workers -> Local]
           /\ queue \subseteq Message
           /\ \A w \in Workers : AtWork(w) => job[w] \in Message
           /\ dispatched \in [Chats -> Seq(Seq(RawKey))]
           /\ letters \in [Chats -> Seq(Letter)]
           /\ sealed \in [Chats -> SUBSET RawKey]
           /\ previewed \in [Chats -> SUBSET Pdf]
           /\ clock \in [Chats -> Nat]
           /\ DOMAIN bucket \subseteq ObjectKey
           /\ \A k \in DOMAIN bucket : bucket[k] \in Pdf
  BY DEF TypeOK, StoresOK, WorkersOK, MessagesOK, HistoryOK, AtWork

\* A batch stays what it is while more batches are sent.
LEMMA BatchStays ==
    ASSUME NEW m \in Message, BatchOK(m),
           \A c \in Chats : Range(dispatched[c]) \subseteq Range(dispatched'[c])
    PROVE  BatchOK(m)'
  BY DEF BatchOK, Message

\* Messages other than batches carry no pages.
LEMMA NoBatch ==
    ASSUME NEW m, m.pages = <<>>, m.kind \notin {"images", "processed"}
    PROVE  BatchOK(m)
  BY RangeOfEmpty DEF BatchOK, Own

\* The messages, when no batch is sent or processed.
LEMMA MessagesStay ==
    ASSUME TypeOK, MessagesOwn, [Next]_vars,
           ~ \E w \in Workers : DoneSend(w) \/ TessRun(w)
    PROVE  MessagesOwn'
  <1> USE DEF historyVars
  <1>1. /\ pc \in [Workers -> Steps]
        /\ job \in [Workers -> Message \cup {NoMessage}]
        /\ queue \subseteq Message
        /\ \A v \in Workers : AtWork(v) => job[v] \in Message
    BY OwnTyped
  <1>2. /\ \A m \in queue : BatchOK(m)
        /\ \A v \in Workers : AtWork(v) => BatchOK(job[v])
    BY DEF MessagesOwn
  <1>3. ASSUME dispatched' = dispatched,
               \A m \in queue' : m \in queue \/ BatchOK(m)
                   \/ \E w \in Workers : AtWork(w) /\ m = job[w],
               \A v \in Workers : AtWork(v)' =>
                   \/ AtWork(v) /\ job'[v] = job[v]
                   \/ BatchOK(job'[v])
        PROVE  MessagesOwn'
    <2>1. \A m : BatchOK(m) => BatchOK(m)'
      BY <1>3 DEF BatchOK
    <2>2. \A m \in queue' : BatchOK(m)
      BY <1>2, <1>3
    <2>3. \A v \in Workers : AtWork(v)' => BatchOK(job'[v])
      BY <1>2, <1>3
    <2>4. \A v \in Workers : AtWork(v)' => BatchOK(job[v])'
      BY <1>3, <2>3 DEF BatchOK
    <2> QED
      BY <2>1, <2>2, <2>4 DEF MessagesOwn
  <1>4. ASSUME NEW w \in Workers, pc[w] # "idle",
               queue' \subseteq queue \cup {job[w]},
               Rest(w), dispatched' = dispatched
        PROVE  MessagesOwn'
    BY <1>1, <1>3, <1>4 DEF Rest, AtWork
  <1>5. ASSUME NEW w \in Workers,
               Finish(w) \/ Fail(w) \/ TessReject(w) \/ SaveCopyMissing(w)
        PROVE  MessagesOwn'
    <2>1. /\ pc[w] # "idle" /\ Rest(w) /\ dispatched' = dispatched
          /\ queue' \subseteq queue \cup {job[w]}
      BY <1>5 DEF Finish, Fail, TessReject, SaveCopyMissing, GiveBack, Return
    <2> QED
      BY <1>4, <2>1
  <1>6. ASSUME NEW w \in Workers, NEW from \in Steps \ {"idle"},
               NEW to \in Steps, pc[w] = from, pc' = [pc EXCEPT ![w] = to],
               job' = job, queue' = queue, dispatched' = dispatched
        PROVE  MessagesOwn'
    BY <1>1, <1>3, <1>6 DEF AtWork
  <1>7. ASSUME NEW w \in Workers,
               \/ PhotoStore(w) \/ PhotoAppend(w) \/ PhotoAck(w)
               \/ DoneEmpty(w) \/ DoneGet(w) \/ DoneMark(w) \/ DoneAlready(w)
               \/ ClearSession(w)
        PROVE  MessagesOwn'
    <2>1. /\ \E from \in Steps \ {"idle"}, to \in Steps :
                 pc[w] = from /\ pc' = [pc EXCEPT ![w] = to]
          /\ job' = job
      BY <1>7 DEF PhotoStore, PhotoAppend, PhotoAck, DoneEmpty, DoneGet,
                  DoneMark, DoneAlready, ClearSession, Goto, Advance, Steps
    <2>2. queue' = queue /\ dispatched' = dispatched
      BY <1>7 DEF PhotoStore, PhotoAppend, PhotoAck, DoneEmpty, DoneGet,
                  DoneMark, DoneAlready, ClearSession
    <2> QED
      BY <1>6, <2>1, <2>2
  <1>8. ASSUME NEW w \in Workers,
               \/ ProcStore(w) \/ ProcPending(w) \/ ProcPreview(w)
               \/ SaveMark(w) \/ SaveNothing(w) \/ SaveCopy(w) \/ SaveDelete(w)
               \/ SavePut(w) \/ SaveSchedule(w) \/ SaveClear(w)
               \/ SaveClearFails(w)
        PROVE  MessagesOwn'
    <2>1. /\ \E from \in Steps \ {"idle"}, to \in Steps :
                 pc[w] = from /\ pc' = [pc EXCEPT ![w] = to]
          /\ job' = job
      BY <1>8 DEF ProcStore, ProcPending, ProcPreview, SaveMark, SaveNothing,
                  SaveCopy, SaveDelete, SavePut, SaveSchedule, SaveClear,
                  SaveClearFails, Goto, Advance, Steps
    <2>2. queue' = queue /\ dispatched' = dispatched
      BY <1>8 DEF ProcStore, ProcPending, ProcPreview, SaveMark, SaveNothing,
                  SaveCopy, SaveDelete, SavePut, SaveSchedule, SaveClear,
                  SaveClearFails
    <2> QED
      BY <1>6, <2>1, <2>2
  <1>9. ASSUME NEW w \in Workers, NEW m \in queue, Receive(w, m)
        PROVE  MessagesOwn'
    <2>1. /\ queue' \subseteq queue /\ dispatched' = dispatched
          /\ pc' = [pc EXCEPT ![w] = Entry[m.kind]]
          /\ job' = [job EXCEPT ![w] = [m EXCEPT !.receives = @ + 1]]
      BY <1>9 DEF Receive, Deliver
    <2>2. BatchOK([m EXCEPT !.receives = @ + 1])
      <3>1. m \in Message /\ BatchOK(m)
        BY <1>1, <1>2
      <3> QED
        BY <3>1 DEF BatchOK, Message
    <2>3. \A v \in Workers : v # w => pc'[v] = pc[v] /\ job'[v] = job[v]
      BY <1>1, <2>1
    <2>4. job'[w] = [m EXCEPT !.receives = @ + 1]
      BY <1>1, <2>1
    <2> QED
      BY <1>3, <2>1, <2>2, <2>3, <2>4 DEF AtWork
  <1>10. ASSUME NEW c \in Chats, NEW kind \in TapKinds \cup {"photo"},
                NEW id, Post(kind, c, id), UNCHANGED <<pc, job, dispatched>>
         PROVE  MessagesOwn'
    <2> DEFINE new == [kind |-> kind, chat |-> c, id |-> id, run |-> 0,
                       pages |-> <<>>, receives |-> 0]
    <2>1. BatchOK(new)
      <3>1. new.pages = <<>> /\ new.kind \notin {"images", "processed"}
        BY DEF TapKinds
      <3> HIDE DEF new
      <3> QED
        BY <3>1, NoBatch
    <2>2. queue' = queue \cup {new}
      BY <1>10 DEF Post
    <2> HIDE DEF new
    <2> QED
      BY <1>3, <1>10, <2>1, <2>2 DEF AtWork
  <1>11. ASSUME NEW c \in Chats,
                PostPhoto(c) \/ \E kind \in TapKinds : PostTap(c, kind)
         PROVE  MessagesOwn'
    BY <1>10, <1>11 DEF PostPhoto, PostTap
  <1>12. ASSUME UNCHANGED <<queue, pc, job, dispatched>>
         PROVE  MessagesOwn'
    BY <1>3, <1>12 DEF AtWork
  <1>13. ASSUME NEW c \in Chats, Expire(c) \/ Reap(c)
         PROVE  MessagesOwn'
    BY <1>12, <1>13 DEF Expire, Reap
  <1>14. ASSUME UNCHANGED vars
         PROVE  MessagesOwn'
    BY <1>12, <1>14 DEF vars
  <1> QED
    BY <1>5, <1>7, <1>8, <1>9, <1>11, <1>13, <1>14 DEF Next, WorkerStep

\* The messages, when a batch is sent to or from tesseract.
LEMMA OwnMessages ==
    ASSUME TypeOK, OwnInv, [Next]_vars
    PROVE  MessagesOwn'
  <1>1. /\ pc \in [Workers -> Steps]
        /\ queue \subseteq Message
        /\ \A v \in Workers : AtWork(v) => job[v] \in Message
        /\ dispatched \in [Chats -> Seq(Seq(RawKey))]
        /\ local \in [Workers -> Local]
    BY OwnTyped
  <1>2. MessagesOwn /\ WorkersOwn
    BY DEF OwnInv
  <1>3. ASSUME NEW w \in Workers, AtWork(w), NEW to \in Steps,
               pc' = [pc EXCEPT ![w] = to], job' = job,
               NEW new, queue' = queue \cup {new}, BatchOK(new)',
               \A c \in Chats : Range(dispatched[c]) \subseteq Range(dispatched'[c])
        PROVE  MessagesOwn'
    <2>1. \A m \in Message : BatchOK(m) => BatchOK(m)'
      BY <1>3, BatchStays
    <2>2. \A m \in queue : BatchOK(m)'
      BY <1>1, <1>2, <2>1 DEF MessagesOwn
    <2>3. \A v \in Workers : AtWork(v)' => AtWork(v) /\ job'[v] = job[v]
      BY <1>1, <1>3 DEF AtWork
    <2>4. \A v \in Workers : AtWork(v)' => BatchOK(job[v])'
      <3> TAKE v \in Workers
      <3> HAVE AtWork(v)'
      <3>1. /\ job[v] \in Message /\ BatchOK(job[v]) /\ job'[v] = job[v]
        BY <1>1, <1>2, <2>3 DEF MessagesOwn
      <3> DEFINE j == job[v]
      <3> QED
        BY <1>3, <3>1 DEF BatchOK, Message
    <2> QED
      BY <1>3, <2>2, <2>4 DEF MessagesOwn
  <1>4. ASSUME NEW w \in Workers, TessRun(w)
        PROVE  MessagesOwn'
    <2>1. /\ AtWork(w) /\ pc[w] = "tess_run"
          /\ pc' = [pc EXCEPT ![w] = "finish"]
          /\ job' = job /\ dispatched' = dispatched
          /\ job[w].pages # <<>>
      BY <1>4 DEF TessRun, Goto, Advance, AtWork, historyVars
    <2>2. PICK new : /\ queue' = queue \cup {new}
                     /\ new.kind = "processed" /\ new.chat = job[w].chat
                     /\ new.pages = job[w].pages
      <3> DEFINE m == job[w]
      <3> WITNESS [kind |-> "processed", chat |-> m.chat, id |-> m.id,
                   run |-> m.receives, pages |-> m.pages, receives |-> 0]
      <3> QED
        BY <1>4 DEF TessRun
    <2>3. BatchOK(job[w]) /\ job[w].kind = "images"
      BY <1>2, <2>1 DEF MessagesOwn, WorkersOwn
    <2>4. BatchOK(new)'
      BY <2>1, <2>2, <2>3 DEF BatchOK
    <2> QED
      BY <1>3, <2>1, <2>2, <2>4 DEF Steps
  <1>5. ASSUME NEW w \in Workers, DoneSend(w)
        PROVE  MessagesOwn'
    <2> DEFINE c == job[w].chat
               b == local[w].pages
    <2>2. /\ AtWork(w)
          /\ pc' = [pc EXCEPT ![w] = "finish"]
          /\ job' = job
          /\ dispatched' = [dispatched EXCEPT ![c] = Append(@, b)]
      BY <1>5 DEF DoneSend, Goto, Advance, AtWork
    <2>3. PICK new : /\ queue' = queue \cup {new}
                     /\ new.kind = "images" /\ new.chat = c /\ new.pages = b
      <3> WITNESS [kind |-> "images", chat |-> c,
                   id |-> Len(dispatched[c]) + 1, run |-> 0, pages |-> b,
                   receives |-> 0]
      <3> QED
        BY <1>5 DEF DoneSend
    <2>4. c \in Chats /\ b \in Seq(RawKey) /\ Own(b, c)
      BY <1>1, <1>2, <2>2 DEF Message, Local, WorkersOwn
    <2>5. Range(dispatched'[c]) = Range(dispatched[c]) \cup {b}
      <3>1. Range(Append(dispatched[c], b)) = Range(dispatched[c]) \cup {b}
        BY <1>1, <2>4, RangeOfAppend
      <3> QED
        BY <1>1, <2>2, <2>4, <3>1
    <2>6. BatchOK(new)'
      BY <2>3, <2>4, <2>5 DEF BatchOK, Own
    <2>7. \A d \in Chats : Range(dispatched[d]) \subseteq Range(dispatched'[d])
      BY <1>1, <2>2, <2>5
    <2> QED
      BY <1>3, <2>2, <2>3, <2>6, <2>7 DEF Steps
  <1> QED
    BY <1>2, <1>4, <1>5, MessagesStay

\* A worker that goes on keeps to its chat's pages.
LEMMA GotoOwn ==
    ASSUME TypeOK, WorkersOwn, NEW w \in Workers, NEW to \in Steps,
           AtWork(w), pc' = [pc EXCEPT ![w] = to], job' = job,
           to \notin {"idle", "tess_run", "proc_store"},
           \A v \in Workers \ {w} : local'[v] = local[v],
           Own(local'[w].pages, job[w].chat),
           to \in PrintedSteps => local'[w].pages # <<>>
    PROVE  WorkersOwn'
  <1>1. pc \in [Workers -> Steps]
    BY OwnTyped
  <1> SUFFICES ASSUME NEW v \in Workers
               PROVE  /\ ~AtWork(v)' => local'[v].pages = <<>>
                      /\ AtWork(v)' => Own(local'[v].pages, job[v].chat)
                      /\ pc'[v] \in PrintedSteps => local'[v].pages # <<>>
                      /\ pc'[v] = "tess_run" => job[v].kind = "images"
                      /\ pc'[v] = "proc_store" => job[v].kind = "processed"
    BY DEF WorkersOwn, Own
  <1>2. CASE v = w
    BY <1>1, <1>2 DEF AtWork
  <1>3. CASE v # w
    BY <1>1, <1>3 DEF AtWork, WorkersOwn
  <1> QED
    BY <1>2, <1>3

\* A worker that stops has nothing left.
LEMMA StopOwn ==
    ASSUME TypeOK, WorkersOwn, NEW w \in Workers, Rest(w),
           local' = [local EXCEPT ![w] = NoLocal]
    PROVE  WorkersOwn'
  <1>1. /\ pc \in [Workers -> Steps]
        /\ job \in [Workers -> Message \cup {NoMessage}]
        /\ local \in [Workers -> Local]
    BY OwnTyped
  <1>2. \A v \in Workers \ {w} :
            pc'[v] = pc[v] /\ job'[v] = job[v] /\ local'[v] = local[v]
    BY <1>1 DEF Rest
  <1>3. pc'[w] = "idle" /\ local'[w].pages = <<>>
    BY <1>1 DEF Rest, NoLocal
  <1> QED
    BY <1>2, <1>3 DEF WorkersOwn, AtWork, Own, PrintedSteps, HoldingSteps,
                      SavingSteps

\* The workers' pages are their chats': one step of the proof per action.
LEMMA OwnWorkers ==
    ASSUME TypeOK, OwnInv, [Next]_vars
    PROVE  WorkersOwn'
  <1>1. /\ session \in [Chats -> Item]
        /\ pc \in [Workers -> Steps]
        /\ job \in [Workers -> Message \cup {NoMessage}]
        /\ local \in [Workers -> Local]
        /\ queue \subseteq Message
        /\ \A w \in Workers : AtWork(w) => job[w] \in Message
    BY OwnTyped
  <1>2. WorkersOwn /\ SessionsOwn /\ MessagesOwn
    BY DEF OwnInv
  <1>3. ASSUME NEW w \in Workers,
               Finish(w) \/ Fail(w) \/ TessReject(w) \/ SaveCopyMissing(w)
        PROVE  WorkersOwn'
    BY <1>2, <1>3, StopOwn DEF Finish, Fail, TessReject, SaveCopyMissing,
                               GiveBack, Return
  <1>4. ASSUME NEW w \in Workers, AtWork(w), NEW to \in Steps,
               pc' = [pc EXCEPT ![w] = to], job' = job, local' = local,
               to \notin {"idle", "tess_run", "proc_store"},
               to \in PrintedSteps => pc[w] \in PrintedSteps
        PROVE  WorkersOwn'
    <2>1. Own(local'[w].pages, job[w].chat)
      BY <1>2, <1>4 DEF WorkersOwn
    <2>2. to \in PrintedSteps => local'[w].pages # <<>>
      BY <1>2, <1>4 DEF WorkersOwn
    <2> QED
      BY <1>2, <1>4, <2>1, <2>2, GotoOwn
  <1>5. ASSUME NEW w \in Workers,
               \/ PhotoAppend(w) \/ PhotoAck(w) \/ DoneEmpty(w)
               \/ DoneAlready(w) \/ DoneSend(w) \/ ClearSession(w) \/ TessRun(w)
               \/ ProcPreview(w) \/ SaveNothing(w) \/ SaveSchedule(w)
               \/ SaveClear(w) \/ SaveClearFails(w)
        PROVE  WorkersOwn'
    <2>1. /\ AtWork(w) /\ job' = job /\ local' = local
          /\ \E to \in {"photo_ack", "finish", "save_clear"} :
                 pc' = [pc EXCEPT ![w] = to]
      BY <1>5 DEF PhotoAppend, PhotoAck, DoneEmpty, DoneAlready, DoneSend,
                  ClearSession, TessRun, ProcPreview, SaveNothing,
                  SaveSchedule, SaveClear, SaveClearFails, Goto, Advance, AtWork
    <2> QED
      BY <1>4, <2>1 DEF Steps, PrintedSteps, HoldingSteps, SavingSteps
  <1>6. ASSUME NEW w \in Workers, ProcPending(w) \/ SaveCopy(w) \/ SaveDelete(w)
        PROVE  WorkersOwn'
    <2>1. /\ AtWork(w) /\ job' = job /\ local' = local
          /\ pc[w] \in PrintedSteps
          /\ \E to \in {"proc_preview", "save_delete", "save_put"} :
                 pc' = [pc EXCEPT ![w] = to]
      BY <1>6 DEF ProcPending, SaveCopy, SaveDelete, Goto, Advance, AtWork,
                  PrintedSteps, HoldingSteps, SavingSteps
    <2> QED
      BY <1>4, <2>1 DEF Steps
  <1>7. ASSUME NEW w \in Workers, PhotoStore(w)
        PROVE  WorkersOwn'
    <2>1. /\ AtWork(w) /\ job' = job
          /\ pc' = [pc EXCEPT ![w] = "photo_append"]
          /\ local' = [local EXCEPT ![w].pages =
                 <<[chat |-> job[w].chat, at |-> raws[job[w].chat] + 1]>>]
      BY <1>7 DEF PhotoStore, Goto, Advance, AtWork
    <2>2. /\ local'[w].pages =
                 <<[chat |-> job[w].chat, at |-> raws[job[w].chat] + 1]>>
          /\ \A v \in Workers \ {w} : local'[v] = local[v]
      BY <1>1, <2>1 DEF Local
    <2>3. Own(local'[w].pages, job[w].chat)
      BY <2>2 DEF Own, Range
    <2> QED
      BY <1>2, <2>1, <2>2, <2>3, GotoOwn
      DEF Steps, PrintedSteps, HoldingSteps, SavingSteps
  <1>8. ASSUME NEW w \in Workers, DoneGet(w) \/ DoneMark(w)
        PROVE  WorkersOwn'
    <2> DEFINE c == job[w].chat
    <2>1. /\ AtWork(w) /\ job' = job
          /\ \E to \in {"done_mark", "done_send"} : pc' = [pc EXCEPT ![w] = to]
          /\ \/ local' = [local EXCEPT ![w].pages = session[c].raw]
             \/ local' = [local EXCEPT ![w].pages = Get(session[c]).raw]
      BY <1>8 DEF DoneGet, DoneMark, Goto, Advance, AtWork
    <2>2. c \in Chats
      BY <1>1, <2>1 DEF Message
    <2>3. Own(session[c].raw, c)
      BY <1>2, <2>2 DEF SessionsOwn, ItemOwn
    <2>4. Own(Get(session[c]).raw, c)
      BY <2>3, RangeOfEmpty DEF Get, NoItem, Own
    <2>5. /\ local'[w].pages \in {session[c].raw, Get(session[c]).raw}
          /\ \A v \in Workers \ {w} : local'[v] = local[v]
      BY <1>1, <2>1 DEF Local
    <2>6. Own(local'[w].pages, c)
      BY <2>3, <2>4, <2>5
    <2> QED
      BY <1>2, <2>1, <2>5, <2>6, GotoOwn
      DEF Steps, PrintedSteps, HoldingSteps, SavingSteps
  <1>9. ASSUME NEW w \in Workers, ProcStore(w)
        PROVE  WorkersOwn'
    <2>1. /\ AtWork(w) /\ job' = job /\ pc[w] = "proc_store"
          /\ pc' = [pc EXCEPT ![w] = "proc_pending"]
          /\ \E second \in Seconds(job[w].chat) :
                 local' = [local EXCEPT ![w].pages = job[w].pages,
                                        ![w].pdf = second]
      BY <1>9 DEF ProcStore, Goto, Advance, AtWork
    <2>2. /\ local'[w].pages = job[w].pages
          /\ \A v \in Workers \ {w} : local'[v] = local[v]
      BY <1>1, <2>1 DEF Local
    <2>3. Own(job[w].pages, job[w].chat) /\ job[w].pages # <<>>
      BY <1>2, <2>1 DEF WorkersOwn, MessagesOwn, BatchOK
    <2> QED
      BY <1>2, <2>1, <2>2, <2>3, GotoOwn DEF Steps
  <1>10. ASSUME NEW w \in Workers, SaveMark(w)
         PROVE  WorkersOwn'
    <2> DEFINE c == job[w].chat
    <2>1. /\ AtWork(w) /\ job' = job
          /\ pc' = [pc EXCEPT ![w] = "save_copy"]
          /\ session[c].status = "pending_confirmation"
          /\ local' = [local EXCEPT ![w].pages = session[c].class.pages,
                                    ![w].pdf = session[c].pdf,
                                    ![w].name = session[c].class.name]
      BY <1>10 DEF SaveMark, CanMarkSaving, Goto, Advance, AtWork
    <2>2. c \in Chats
      BY <1>1, <2>1 DEF Message
    <2>3. /\ local'[w].pages = session[c].class.pages
          /\ \A v \in Workers \ {w} : local'[v] = local[v]
      BY <1>1, <2>1 DEF Local
    <2>4. Own(session[c].class.pages, c) /\ session[c].class.pages # <<>>
      BY <1>2, <2>1, <2>2 DEF SessionsOwn, ItemOwn
    <2> QED
      BY <1>2, <2>1, <2>3, <2>4, GotoOwn DEF Steps
  <1>11. ASSUME NEW w \in Workers, SavePut(w)
         PROVE  WorkersOwn'
    <2>1. /\ AtWork(w) /\ job' = job
          /\ pc' = [pc EXCEPT ![w] = "save_schedule"]
          /\ local' = [local EXCEPT ![w].letter = Len(letters[job[w].chat]) + 1]
      BY <1>11 DEF SavePut, Goto, Advance, AtWork
    <2>2. /\ local'[w].pages = local[w].pages
          /\ \A v \in Workers \ {w} : local'[v] = local[v]
      BY <1>1, <2>1 DEF Local
    <2>3. Own(local'[w].pages, job[w].chat)
      BY <1>2, <2>1, <2>2 DEF WorkersOwn
    <2> QED
      BY <1>2, <2>1, <2>2, <2>3, GotoOwn
      DEF Steps, PrintedSteps, HoldingSteps, SavingSteps
  <1>12. ASSUME NEW w \in Workers, NEW m \in queue, Receive(w, m)
         PROVE  WorkersOwn'
    <2>1. /\ pc[w] = "idle" /\ local' = local
          /\ pc' = [pc EXCEPT ![w] = Entry[m.kind]]
          /\ job' = [job EXCEPT ![w] = [m EXCEPT !.receives = @ + 1]]
      BY <1>12 DEF Receive, Deliver
    <2>2. m \in Message
      BY <1>1
    <2>3. /\ Entry[m.kind] \notin PrintedSteps \cup {"idle"}
          /\ Entry[m.kind] = "tess_run" => m.kind = "images"
          /\ Entry[m.kind] = "proc_store" => m.kind = "processed"
      BY <2>2 DEF Message, Kinds, TapKinds, Entry, PrintedSteps, HoldingSteps,
                  SavingSteps
    <2>4. pc'[w] = Entry[m.kind] /\ job'[w].kind = m.kind
      BY <1>1, <2>1, <2>2 DEF Message
    <2>5. local'[w].pages = <<>>
      BY <1>2, <2>1 DEF WorkersOwn, AtWork
    <2>6. \A v \in Workers \ {w} :
              pc'[v] = pc[v] /\ job'[v] = job[v] /\ local'[v] = local[v]
      BY <1>1, <2>1
    <2> QED
      BY <1>2, <2>3, <2>4, <2>5, <2>6, RangeOfEmpty DEF WorkersOwn, AtWork, Own
  <1>13. ASSUME UNCHANGED <<pc, job, local>>
         PROVE  WorkersOwn'
    BY <1>2, <1>13 DEF WorkersOwn, AtWork, Own
  <1>14. ASSUME NEW c \in Chats,
                \/ PostPhoto(c) \/ Expire(c) \/ Reap(c)
                \/ \E kind \in TapKinds : PostTap(c, kind)
         PROVE  WorkersOwn'
    BY <1>13, <1>14 DEF PostPhoto, PostTap, Expire, Reap
  <1>15. ASSUME UNCHANGED vars
         PROVE  WorkersOwn'
    BY <1>13, <1>15 DEF vars
  <1> QED
    BY <1>3, <1>5, <1>6, <1>7, <1>8, <1>9, <1>10, <1>11, <1>12, <1>14, <1>15
    DEF Next, WorkerStep

\* The calls to the session table mix no chat's pages into another's item.
LEMMA SessionCallsOwn ==
    ASSUME NEW s \in Item, NEW c, ItemOwn(s, c)
    PROVE  /\ ItemOwn(Clear(s), c)
           /\ ItemOwn(Lapse(s), c)
           /\ ItemOwn(MarkAwaitingProcessing(s), c)
           /\ ItemOwn(MarkSaving(s), c)
           /\ \A k \in RawKey : k.chat = c => ItemOwn(AppendRawKey(s, k), c)
           /\ \A p \in Nat, cl \in Classification :
                  Own(cl.pages, c) /\ cl.pages # <<>>
                      => ItemOwn(SetPendingConfirmation(s, p, cl), c)
  <1>1. ItemOwn(Clear(s), c)
    <2>1. NoItem.raw = <<>> /\ NoItem.class.pages = <<>> /\ NoItem.status = "none"
      BY DEF NoItem, NoClassification
    <2> QED
      BY <2>1, RangeOfEmpty DEF Clear, ItemOwn, Own
  <1>2. /\ ItemOwn(Lapse(s), c)
        /\ ItemOwn(MarkAwaitingProcessing(s), c)
        /\ ItemOwn(MarkSaving(s), c)
    BY DEF Lapse, MarkAwaitingProcessing, MarkSaving, Item, ItemOwn, Own
  <1>3. \A k \in RawKey : k.chat = c => ItemOwn(AppendRawKey(s, k), c)
    <2> SUFFICES ASSUME NEW k \in RawKey, k.chat = c
                 PROVE  ItemOwn(AppendRawKey(s, k), c)
      OBVIOUS
    <2>1. Range(Append(s.raw, k)) = Range(s.raw) \cup {k}
      BY RangeOfAppend DEF Item
    <2>2. LET t == AppendRawKey(s, k) IN
            t.raw = Append(s.raw, k) /\ t.status = s.status /\ t.class = s.class
      BY DEF AppendRawKey, Item
    <2> QED
      BY <2>1, <2>2 DEF ItemOwn, Own
  <1>4. ASSUME NEW p \in Nat, NEW cl \in Classification,
               Own(cl.pages, c), cl.pages # <<>>
        PROVE  ItemOwn(SetPendingConfirmation(s, p, cl), c)
    BY <1>4 DEF SetPendingConfirmation, Item, ItemOwn, Own
  <1> QED
    BY <1>1, <1>2, <1>3, <1>4

\* The sessions' pages are their chats'.
LEMMA OwnSessions ==
    ASSUME TypeOK, OwnInv, [Next]_vars
    PROVE  SessionsOwn'
  <1>1. /\ session \in [Chats -> Item]
        /\ local \in [Workers -> Local]
        /\ \A w \in Workers : AtWork(w) => job[w] \in Message
    BY OwnTyped
  <1>2. WorkersOwn /\ \A c \in Chats : ItemOwn(session[c], c)
    BY DEF OwnInv, SessionsOwn
  <1>3. ASSUME UNCHANGED session
        PROVE  SessionsOwn'
    BY <1>2, <1>3 DEF SessionsOwn, ItemOwn, Own
  <1>4. ASSUME NEW c \in Chats, NEW s, ItemOwn(s, c),
               session' = [session EXCEPT ![c] = s]
        PROVE  SessionsOwn'
    <2>1. \A d \in Chats : ItemOwn(session'[d], d)
      BY <1>1, <1>2, <1>4
    <2> QED
      BY <2>1 DEF SessionsOwn, ItemOwn, Own
  <1>5. ASSUME NEW w \in Workers,
               \/ Finish(w) \/ Fail(w) \/ TessReject(w) \/ SaveCopyMissing(w)
               \/ PhotoStore(w) \/ PhotoAck(w)
               \/ DoneEmpty(w) \/ DoneGet(w) \/ DoneAlready(w)
               \/ DoneSend(w) \/ TessRun(w)
        PROVE  SessionsOwn'
    BY <1>3, <1>5 DEF Finish, Fail, TessReject, SaveCopyMissing, PhotoStore,
                PhotoAck, DoneEmpty, DoneGet, DoneAlready, DoneSend, TessRun
  <1>6. ASSUME NEW w \in Workers,
               \/ ProcStore(w) \/ ProcPreview(w) \/ SaveNothing(w)
               \/ SaveCopy(w) \/ SaveDelete(w) \/ SavePut(w)
               \/ SaveSchedule(w) \/ SaveClearFails(w)
        PROVE  SessionsOwn'
    BY <1>3, <1>6 DEF ProcStore, ProcPreview, SaveNothing, SaveCopy,
                SaveDelete, SavePut, SaveSchedule, SaveClearFails
  <1>7. ASSUME NEW c \in Chats,
               PostPhoto(c) \/ \E kind \in TapKinds : PostTap(c, kind)
        PROVE  SessionsOwn'
    BY <1>3, <1>7 DEF PostPhoto, PostTap
  <1>8. ASSUME NEW w \in Workers, NEW m \in queue, Receive(w, m)
        PROVE  SessionsOwn'
    BY <1>3, <1>8 DEF Receive
  <1>9. ASSUME UNCHANGED vars
        PROVE  SessionsOwn'
    BY <1>3, <1>9 DEF vars
  <1>10. ASSUME NEW c \in Chats,
                \/ session' = [session EXCEPT ![c] = Clear(@)]
                \/ session' = [session EXCEPT ![c] = Lapse(@)]
                \/ session' = [session EXCEPT ![c] = MarkAwaitingProcessing(@)]
                \/ session' = [session EXCEPT ![c] = MarkSaving(@)]
         PROVE  SessionsOwn'
    <2>1. /\ ItemOwn(Clear(session[c]), c)
          /\ ItemOwn(Lapse(session[c]), c)
          /\ ItemOwn(MarkAwaitingProcessing(session[c]), c)
          /\ ItemOwn(MarkSaving(session[c]), c)
      BY <1>1, <1>2, SessionCallsOwn
    <2>2. CASE session' = [session EXCEPT ![c] = Clear(@)]
      BY <1>4, <2>1, <2>2
    <2>3. CASE session' = [session EXCEPT ![c] = Lapse(@)]
      BY <1>4, <2>1, <2>3
    <2>4. CASE session' = [session EXCEPT ![c] = MarkAwaitingProcessing(@)]
      BY <1>4, <2>1, <2>4
    <2>5. CASE session' = [session EXCEPT ![c] = MarkSaving(@)]
      BY <1>4, <2>1, <2>5
    <2> QED
      BY <1>10, <2>2, <2>3, <2>4, <2>5
  <1>11. ASSUME NEW c \in Chats, Expire(c) \/ Reap(c)
         PROVE  SessionsOwn'
    BY <1>10, <1>11 DEF Expire, Reap
  <1>12. ASSUME NEW w \in Workers,
                ClearSession(w) \/ SaveClear(w) \/ DoneMark(w) \/ SaveMark(w)
         PROVE  SessionsOwn'
    <2>1. AtWork(w)
      BY <1>12 DEF ClearSession, SaveClear, DoneMark, SaveMark, Goto, Advance,
                   AtWork
    <2>2. job[w].chat \in Chats
      BY <1>1, <2>1 DEF Message
    <2> QED
      BY <1>10, <1>12, <2>2 DEF ClearSession, SaveClear, DoneMark, SaveMark
  <1>13. ASSUME NEW w \in Workers, PhotoAppend(w)
         PROVE  SessionsOwn'
    <2> DEFINE c == job[w].chat
               k == local[w].pages[1]
    <2>1. pc[w] = "photo_append" /\ AtWork(w)
      BY <1>13 DEF PhotoAppend, Goto, Advance, AtWork
    <2>2. c \in Chats
      BY <1>1, <2>1 DEF Message
    <2>3. Len(local[w].pages) = 1 /\ local[w].pages \in Seq(RawKey)
      BY <1>1, <2>1 DEF TypeOK, WorkersOK, Local
    <2>4. k \in RawKey /\ k \in Range(local[w].pages)
      BY <2>3 DEF Range
    <2>5. k.chat = c
      BY <1>2, <2>1, <2>4 DEF WorkersOwn, Own
    <2>6. ItemOwn(AppendRawKey(session[c], k), c)
      BY <1>1, <1>2, <2>2, <2>4, <2>5, SessionCallsOwn
    <2>7. session' = [session EXCEPT ![c] = AppendRawKey(session[c], k)]
      BY <1>13 DEF PhotoAppend
    <2> HIDE DEF c, k
    <2> QED
      BY <1>4, <2>2, <2>6, <2>7
  <1>14. ASSUME NEW w \in Workers, ProcPending(w)
         PROVE  SessionsOwn'
    <2> DEFINE c == job[w].chat
    <2>1. pc[w] \in PrintedSteps /\ AtWork(w)
      BY <1>14 DEF ProcPending, Goto, Advance, AtWork, PrintedSteps, HoldingSteps
    <2>2. c \in Chats /\ local[w].pdf \in Nat /\ local[w].pages \in Seq(RawKey)
      BY <1>1, <2>1 DEF Message, Local
    <2>3. Own(local[w].pages, c) /\ local[w].pages # <<>>
      BY <1>2, <2>1 DEF WorkersOwn
    <2>4. PICK name \in Names(local[w].pdf) :
              session' = [session EXCEPT
                  ![c] = SetPendingConfirmation(session[c], local[w].pdf,
                             [name |-> name, pages |-> local[w].pages])]
      BY <1>14 DEF ProcPending
    <2>5. name \in Nat
      BY <2>2, <2>4 DEF Names
    <2> DEFINE cl == [name |-> name, pages |-> local[w].pages]
    <2>6. cl \in Classification /\ Own(cl.pages, c) /\ cl.pages # <<>>
      BY <2>2, <2>3, <2>5 DEF Classification
    <2>7. session' = [session EXCEPT
              ![c] = SetPendingConfirmation(session[c], local[w].pdf, cl)]
      BY <2>4
    <2> HIDE DEF cl, c
    <2>8. ItemOwn(SetPendingConfirmation(session[c], local[w].pdf, cl), c)
      BY <1>1, <1>2, <2>2, <2>6, SessionCallsOwn
    <2> QED
      BY <1>4, <2>2, <2>7, <2>8
  <1> QED
    BY <1>5, <1>6, <1>7, <1>8, <1>9, <1>11, <1>12, <1>13, <1>14
    DEF Next, WorkerStep

\* What Done has taken and sent of a chat, and what was previewed.
LEMMA OwnHistory ==
    ASSUME TypeOK, OwnInv, [Next]_vars
    PROVE  HistoryOwn'
  <1>1. /\ local \in [Workers -> Local]
        /\ \A w \in Workers : AtWork(w) => job[w] \in Message
        /\ dispatched \in [Chats -> Seq(Seq(RawKey))]
        /\ sealed \in [Chats -> SUBSET RawKey]
        /\ previewed \in [Chats -> SUBSET Pdf]
    BY OwnTyped
  <1>2. WorkersOwn /\ SessionsOwn /\ HistoryOwn
    BY DEF OwnInv
  <1>3. ASSUME NEW w \in Workers, DoneMark(w)
        PROVE  HistoryOwn'
    <2> DEFINE c == job[w].chat
    <2>1. /\ AtWork(w) /\ UNCHANGED <<dispatched, previewed>>
          /\ sealed' = [sealed EXCEPT ![c] = @ \cup Range(session[c].raw)]
      BY <1>3 DEF DoneMark, Goto, Advance, AtWork
    <2>2. c \in Chats
      BY <1>1, <2>1 DEF Message
    <2>3. Own(session[c].raw, c)
      BY <1>2, <2>2 DEF SessionsOwn, ItemOwn
    <2>4. \A d \in Chats : \A k \in sealed'[d] : k.chat = d
      BY <1>1, <1>2, <2>1, <2>2, <2>3 DEF HistoryOwn, Own
    <2> QED
      BY <1>2, <2>1, <2>4 DEF HistoryOwn, Own
  <1>4. ASSUME NEW w \in Workers, DoneSend(w)
        PROVE  HistoryOwn'
    <2> DEFINE c == job[w].chat
               b == local[w].pages
    <2>1. /\ AtWork(w) /\ UNCHANGED <<sealed, previewed>>
          /\ dispatched' = [dispatched EXCEPT ![c] = Append(@, b)]
      BY <1>4 DEF DoneSend, Goto, Advance, AtWork
    <2>2. c \in Chats /\ b \in Seq(RawKey) /\ Own(b, c)
      BY <1>1, <1>2, <2>1 DEF Message, Local, WorkersOwn
    <2>3. \A i \in DOMAIN dispatched'[c] : Own(dispatched'[c][i], c)
      <3>1. dispatched'[c] = Append(dispatched[c], b)
        BY <1>1, <2>1, <2>2
      <3>2. \A i \in DOMAIN Append(dispatched[c], b) :
                \/ i \in DOMAIN dispatched[c]
                   /\ Append(dispatched[c], b)[i] = dispatched[c][i]
                \/ Append(dispatched[c], b)[i] = b
        BY <1>1, <2>2, ElementsOfAppend
      <3>3. \A i \in DOMAIN dispatched[c] : Own(dispatched[c][i], c)
        BY <1>2, <2>2 DEF HistoryOwn
      <3> QED
        BY <2>2, <3>1, <3>2, <3>3
    <2>4. \A d \in Chats : \A i \in DOMAIN dispatched'[d] : Own(dispatched'[d][i], d)
      BY <1>1, <1>2, <2>1, <2>3 DEF HistoryOwn
    <2> QED
      BY <1>2, <2>1, <2>4 DEF HistoryOwn, Own
  <1>5. ASSUME NEW w \in Workers, ProcPreview(w)
        PROVE  HistoryOwn'
    <2> DEFINE c == job[w].chat
    <2>1. /\ pc[w] \in PrintedSteps /\ UNCHANGED <<sealed, dispatched>>
          /\ previewed' = [previewed EXCEPT
                 ![c] = @ \cup {[pdf |-> local[w].pdf, pages |-> local[w].pages]}]
      BY <1>5 DEF ProcPreview, Goto, Advance, PrintedSteps
    <2>2. local[w].pages # <<>>
      BY <1>2, <2>1 DEF WorkersOwn
    <2>3. \A d \in Chats : \A p \in previewed'[d] : p.pages # <<>>
      BY <1>1, <1>2, <2>1, <2>2 DEF HistoryOwn
    <2> QED
      BY <1>2, <2>1, <2>3 DEF HistoryOwn, Own
  <1>6. ASSUME UNCHANGED historyVars
        PROVE  HistoryOwn'
    BY <1>2, <1>6 DEF HistoryOwn, Own, historyVars
  <1> QED
    BY <1>3, <1>4, <1>5, <1>6, HistoryStays

\* What the bucket and the archive hold of a chat.
LEMMA OwnStores ==
    ASSUME TypeOK, OwnInv, [Next]_vars
    PROVE  StoresOwn'
  <1>1. /\ local \in [Workers -> Local]
        /\ \A w \in Workers : AtWork(w) => job[w] \in Message
        /\ letters \in [Chats -> Seq(Letter)]
    BY OwnTyped
  <1>2. MessagesOwn /\ WorkersOwn /\ StoresOwn
    BY DEF OwnInv
  <1>3. ASSUME \A k \in DOMAIN bucket' : Own(bucket'[k].pages, k.chat),
               letters' = letters
        PROVE  StoresOwn'
    BY <1>2, <1>3 DEF StoresOwn, Own
  <1>4. ASSUME NEW w \in Workers, ProcStore(w)
        PROVE  StoresOwn'
    <2> DEFINE c == job[w].chat
    <2>1. /\ AtWork(w) /\ letters' = letters
          /\ \E second \in Seconds(c) :
                 bucket' = PutObject(bucket, UnsortedKey(c, second),
                               [pdf |-> second, pages |-> job[w].pages])
      BY <1>4 DEF ProcStore, Goto, Advance, AtWork
    <2>2. Own(job[w].pages, c)
      BY <1>2, <2>1 DEF MessagesOwn, BatchOK
    <2> QED
      BY <1>2, <1>3, <2>1, <2>2 DEF PutObject, UnsortedKey, StoresOwn
  <1>5. ASSUME NEW w \in Workers, SaveCopy(w)
        PROVE  StoresOwn'
    BY <1>2, <1>3, <1>5 DEF SaveCopy, CanCopy, CopyObject, PutObject,
                            UnsortedKey, FinalKey, StoresOwn
  <1>6. ASSUME NEW w \in Workers, SaveDelete(w)
        PROVE  StoresOwn'
    BY <1>2, <1>3, <1>6 DEF SaveDelete, DeleteObject, StoresOwn
  <1>7. ASSUME NEW w \in Workers, SavePut(w)
        PROVE  StoresOwn'
    <2> DEFINE c == job[w].chat
               l == [name |-> local[w].name, pdf |-> local[w].pdf,
                     pages |-> local[w].pages]
    <2>1. /\ pc[w] = "save_put" /\ AtWork(w) /\ bucket' = bucket
          /\ letters' = [letters EXCEPT ![c] = Append(@, l)]
      BY <1>7 DEF SavePut, Goto, Advance, AtWork
    <2>2. c \in Chats /\ l \in Letter
      BY <1>1, <2>1 DEF Message, Local, Letter
    <2>3. Own(l.pages, c) /\ l.pages # <<>>
      BY <1>2, <2>1 DEF WorkersOwn, PrintedSteps, HoldingSteps, SavingSteps
    <2> HIDE DEF l
    <2>4. \A i \in DOMAIN letters'[c] :
              Own(letters'[c][i].pages, c) /\ letters'[c][i].pages # <<>>
      <3>1. letters'[c] = Append(letters[c], l)
        BY <1>1, <2>1, <2>2
      <3>2. \A i \in DOMAIN Append(letters[c], l) :
                \/ i \in DOMAIN letters[c]
                   /\ Append(letters[c], l)[i] = letters[c][i]
                \/ Append(letters[c], l)[i] = l
        BY <1>1, <2>2, ElementsOfAppend
      <3>3. \A i \in DOMAIN letters[c] :
                Own(letters[c][i].pages, c) /\ letters[c][i].pages # <<>>
        BY <1>2, <2>2 DEF StoresOwn
      <3> QED
        BY <2>3, <3>1, <3>2, <3>3
    <2>5. \A d \in Chats : \A i \in DOMAIN letters'[d] :
              Own(letters'[d][i].pages, d) /\ letters'[d][i].pages # <<>>
      BY <1>1, <1>2, <2>1, <2>4 DEF StoresOwn
    <2> QED
      BY <1>2, <2>1, <2>5 DEF StoresOwn, Own
  <1>8. ASSUME UNCHANGED <<bucket, clock, letters>>
        PROVE  StoresOwn'
    BY <1>2, <1>8 DEF StoresOwn, Own
  <1> QED
    BY <1>4, <1>5, <1>6, <1>7, <1>8, StoresStay

\* There are no pages yet.
LEMMA OwnInit == Init => OwnInv
  <1> SUFFICES ASSUME Init
               PROVE  OwnInv
    OBVIOUS
  <1> USE DEF Init, InvocationsInit
  <1>1. MessagesOwn
    BY DEF MessagesOwn, AtWork
  <1>2. WorkersOwn
    BY DEF WorkersOwn, AtWork, NoLocal, PrintedSteps, HoldingSteps, SavingSteps
  <1>3. SessionsOwn
    <2>1. NoItem.raw = <<>> /\ NoItem.class.pages = <<>> /\ NoItem.status = "none"
      BY DEF NoItem, NoClassification
    <2> QED
      BY <2>1, RangeOfEmpty DEF SessionsOwn, ItemOwn, Own
  <1>4. HistoryOwn
    <2>1. \A c \in Chats : sealed[c] = {} /\ previewed[c] = {}
      OBVIOUS
    <2>2. \A c \in Chats : dispatched[c] = <<>>
      OBVIOUS
    <2>3. DOMAIN <<>> = {}
      OBVIOUS
    <2>4. \A c \in Chats : DOMAIN dispatched[c] = {}
      BY <2>2, <2>3
    <2> QED
      BY <2>1, <2>4 DEF HistoryOwn
  <1>5. StoresOwn
    <2>1. DOMAIN bucket = {} /\ \A c \in Chats : DOMAIN letters[c] = {}
      OBVIOUS
    <2> QED
      BY <2>1 DEF StoresOwn
  <1> QED
    BY <1>1, <1>2, <1>3, <1>4, <1>5 DEF OwnInv

\* The pages in every place are the chat's own, and none of them is nothing.
THEOREM PagesAreOwn == Spec => []OwnInv
  <1>1. TypeOK /\ OwnInv /\ [Next]_vars => OwnInv'
    BY OwnMessages, OwnWorkers, OwnSessions, OwnHistory, OwnStores DEF OwnInv
  <1> QED
    BY <1>1, TypeInit, TypeStep, OwnInit, PTL DEF Spec

(***************************************************************************)
(* No handler, in whatever order messages are delivered, redelivered or    *)
(* fail, keeps a page of one chat in the session, the bucket or the archive*)
(* of another.                                                             *)
(***************************************************************************)
THEOREM ChatsStayApart == Spec => []TenantsApart
  <1>1. TypeOK /\ OwnInv => TenantsApart
    <2> SUFFICES ASSUME TypeOK, OwnInv
                 PROVE  TenantsApart
      OBVIOUS
    <2>1. SessionsOwn /\ StoresOwn
      BY DEF OwnInv
    <2>2. \A c \in Chats : \A l \in Range(letters[c]) : Own(l.pages, c)
      BY <2>1 DEF StoresOwn, Range
    <2> QED
      BY <2>1, <2>2 DEF TenantsApart, SessionsOwn, ItemOwn, StoresOwn, Own
  <1> QED
    BY <1>1, PagesAreOwn, TypeInit, TypeStep, PTL DEF Spec

(***************************************************************************)
(* A Done that takes a session without pages leads to no letter: tesseract *)
(* refuses its batch, and nothing without pages is shown or saved.         *)
(***************************************************************************)
THEOREM NoLetterIsEmpty == Spec => []NoEmptyLetter
  <1>1. OwnInv => NoEmptyLetter
    BY DEF OwnInv, HistoryOwn, StoresOwn, NoEmptyLetter, Range
  <1> QED
    BY <1>1, PagesAreOwn, PTL

-----------------------------------------------------------------------------
(* Who holds a PDF: HolderInv is inductive.                                *)

\* The steps that give a worker a PDF, as they concern the holders.
LEMMA ProcStoreHolds ==
    ASSUME TypeOK, NEW w \in Workers, ProcStore(w), ~SameSecond
    PROVE  LET c == job[w].chat  second == clock[c] + 1 IN
           /\ c \in Chats
           /\ pc[w] = "proc_store" /\ pc'[w] = "proc_pending"
           /\ local'[w].pdf = second /\ local'[w].pages = job[w].pages
           /\ clock' = [clock EXCEPT ![c] = second]
           /\ bucket' = PutObject(bucket, UnsortedKey(c, second),
                                  [pdf |-> second, pages |-> job[w].pages])
           /\ job' = job
           /\ \A v \in Workers \ {w} : pc'[v] = pc[v] /\ local'[v] = local[v]
           /\ UNCHANGED <<session, raws, letters, sealed, dispatched, previewed>>
  <1>1. /\ pc \in [Workers -> Steps]
        /\ local \in [Workers -> Local]
        /\ \A v \in Workers : AtWork(v) => job[v] \in Message
    BY OwnTyped
  <1> DEFINE c == job[w].chat
             second == clock[c] + 1
  <1>2. Seconds(c) = {second}
    BY DEF Seconds
  <1>3. /\ pc[w] = "proc_store" /\ AtWork(w)
        /\ pc' = [pc EXCEPT ![w] = "proc_pending"]
        /\ job' = job
        /\ local' = [local EXCEPT ![w].pages = job[w].pages, ![w].pdf = second]
        /\ clock' = [clock EXCEPT ![c] = second]
        /\ bucket' = PutObject(bucket, UnsortedKey(c, second),
                               [pdf |-> second, pages |-> job[w].pages])
        /\ UNCHANGED <<session, raws, letters, sealed, dispatched, previewed>>
    BY <1>2 DEF ProcStore, Goto, Advance, AtWork, historyVars
  <1>4. c \in Chats
    BY <1>1, <1>3 DEF Message
  <1>5. /\ local'[w].pdf = second /\ local'[w].pages = job[w].pages
        /\ \A v \in Workers \ {w} : local'[v] = local[v]
    BY <1>1, <1>3 DEF Local
  <1>6. /\ pc'[w] = "proc_pending"
        /\ \A v \in Workers \ {w} : pc'[v] = pc[v]
    BY <1>1, <1>3
  <1> QED
    BY <1>3, <1>4, <1>5, <1>6

\* MarkSaving hands the session's PDF to the worker, and the session is no
\* longer pending.
LEMMA SaveMarkHolds ==
    ASSUME TypeOK, NEW w \in Workers, SaveMark(w)
    PROVE  LET c == job[w].chat  s == session[c] IN
           /\ c \in Chats
           /\ pc[w] = "save_mark" /\ pc'[w] = "save_copy"
           /\ Pending(c) /\ ~Pending(c)'
           /\ local'[w].pages = s.class.pages /\ local'[w].pdf = s.pdf
           /\ local'[w].name = s.class.name
           /\ job' = job
           /\ \A v \in Workers \ {w} : pc'[v] = pc[v] /\ local'[v] = local[v]
           /\ \A d \in Chats \ {c} : session'[d] = session[d]
           /\ UNCHANGED <<bucket, raws, clock, letters, sealed, dispatched,
                          previewed>>
  <1>1. /\ pc \in [Workers -> Steps]
        /\ local \in [Workers -> Local]
        /\ session \in [Chats -> Item]
        /\ \A v \in Workers : AtWork(v) => job[v] \in Message
    BY OwnTyped
  <1> DEFINE c == job[w].chat
             s == session[c]
  <1>2. /\ pc[w] = "save_mark" /\ AtWork(w)
        /\ pc' = [pc EXCEPT ![w] = "save_copy"]
        /\ job' = job
        /\ s.status = "pending_confirmation"
        /\ session' = [session EXCEPT ![c] = MarkSaving(s)]
        /\ local' = [local EXCEPT ![w].pages = s.class.pages, ![w].pdf = s.pdf,
                                  ![w].name = s.class.name]
        /\ UNCHANGED <<bucket, raws, clock, letters, sealed, dispatched,
                       previewed>>
    BY DEF SaveMark, CanMarkSaving, Goto, Advance, AtWork, storeVars, historyVars
  <1>3. c \in Chats
    BY <1>1, <1>2 DEF Message
  <1>4. /\ local'[w].pages = s.class.pages /\ local'[w].pdf = s.pdf
        /\ local'[w].name = s.class.name
        /\ \A v \in Workers \ {w} : local'[v] = local[v]
    BY <1>1, <1>2 DEF Local
  <1>5. /\ pc'[w] = "save_copy"
        /\ \A v \in Workers \ {w} : pc'[v] = pc[v]
    BY <1>1, <1>2
  <1>6. /\ session'[c].status = "saving"
        /\ \A d \in Chats \ {c} : session'[d] = session[d]
    <2>1. MarkSaving(s).status = "saving"
      BY <1>1, <1>3 DEF MarkSaving, Item
    <2> QED
      BY <1>1, <1>2, <1>3, <2>1
  <1> QED
    BY <1>2, <1>3, <1>4, <1>5, <1>6 DEF Pending

\* The steps that take a PDF from a worker: the session or the archive has it.
LEMMA ProcPendingHolds ==
    ASSUME TypeOK, NEW w \in Workers, ProcPending(w)
    PROVE  LET c == job[w].chat IN
           /\ c \in Chats
           /\ pc[w] = "proc_pending" /\ pc'[w] = "proc_preview"
           /\ session'[c].pdf = local[w].pdf
           /\ session'[c].class.pages = local[w].pages
           /\ session'[c].class.name \in Names(local[w].pdf)
           /\ \A d \in Chats \ {c} : session'[d] = session[d]
           /\ UNCHANGED <<bucket, raws, clock, letters, sealed, dispatched,
                          previewed>>
  <1>1. /\ pc \in [Workers -> Steps]
        /\ session \in [Chats -> Item]
        /\ \A v \in Workers : AtWork(v) => job[v] \in Message
    BY OwnTyped
  <1> DEFINE c == job[w].chat
  <1>2. PICK name \in Names(local[w].pdf) :
            session' = [session EXCEPT
                ![c] = SetPendingConfirmation(session[c], local[w].pdf,
                           [name |-> name, pages |-> local[w].pages])]
    BY DEF ProcPending
  <1>3. /\ pc[w] = "proc_pending" /\ AtWork(w)
        /\ pc' = [pc EXCEPT ![w] = "proc_preview"]
        /\ UNCHANGED <<bucket, raws, clock, letters, sealed, dispatched,
                       previewed>>
    BY DEF ProcPending, Goto, Advance, AtWork, storeVars, historyVars
  <1>4. c \in Chats
    BY <1>1, <1>3 DEF Message
  <1>5. \A cl : LET t == SetPendingConfirmation(session[c], local[w].pdf, cl) IN
            t.pdf = local[w].pdf /\ t.class = cl
    BY <1>1, <1>4 DEF SetPendingConfirmation, Item
  <1>6. /\ session'[c].pdf = local[w].pdf
        /\ session'[c].class = [name |-> name, pages |-> local[w].pages]
        /\ \A d \in Chats \ {c} : session'[d] = session[d]
    BY <1>1, <1>2, <1>4, <1>5
  <1> QED
    BY <1>1, <1>2, <1>3, <1>4, <1>6

\* Put makes the PDF in the worker's hands the newest letter of its chat.
LEMMA SavePutHolds ==
    ASSUME TypeOK, NEW w \in Workers, SavePut(w)
    PROVE  LET c == job[w].chat
               n == Len(letters[c]) + 1
           IN
           /\ c \in Chats
           /\ pc[w] = "save_put" /\ pc'[w] = "save_schedule"
           /\ \A d \in Chats : \A i \in DOMAIN letters'[d] :
                  \/ /\ i \in DOMAIN letters[d]
                     /\ letters'[d][i] = letters[d][i]
                  \/ /\ d = c /\ i = n
                     /\ letters'[d][i] = [name |-> local[w].name,
                                          pdf |-> local[w].pdf,
                                          pages |-> local[w].pages]
           /\ letters' = [letters EXCEPT
                  ![c] = Append(@, [name |-> local[w].name, pdf |-> local[w].pdf,
                                    pages |-> local[w].pages])]
           /\ UNCHANGED <<session, bucket, raws, clock, sealed, dispatched,
                          previewed>>
  <1>1. /\ pc \in [Workers -> Steps]
        /\ local \in [Workers -> Local]
        /\ letters \in [Chats -> Seq(Letter)]
        /\ \A v \in Workers : AtWork(v) => job[v] \in Message
    BY OwnTyped
  <1> DEFINE c == job[w].chat
             l == [name |-> local[w].name, pdf |-> local[w].pdf,
                   pages |-> local[w].pages]
             n == Len(letters[c]) + 1
  <1>2. /\ pc[w] = "save_put" /\ AtWork(w)
        /\ pc' = [pc EXCEPT ![w] = "save_schedule"]
        /\ letters' = [letters EXCEPT ![c] = Append(@, l)]
        /\ UNCHANGED <<session, bucket, raws, clock, sealed, dispatched,
                       previewed>>
    BY DEF SavePut, Goto, Advance, AtWork, historyVars
  <1>3. c \in Chats /\ l \in Letter
    BY <1>1, <1>2 DEF Message, Local, Letter
  <1> HIDE DEF l
  <1>4. /\ letters'[c] = Append(letters[c], l)
        /\ \A d \in Chats \ {c} : letters'[d] = letters[d]
    BY <1>1, <1>2, <1>3
  <1>5. /\ DOMAIN letters'[c] = DOMAIN letters[c] \cup {n}
        /\ letters'[c][n] = l
        /\ \A i \in DOMAIN letters[c] : letters'[c][i] = letters[c][i]
    <2>1. letters[c] \in Seq(Letter)
      BY <1>1, <1>3
    <2> QED
      BY <1>3, <1>4, <2>1, ElementsOfAppend
  <1>6. \A d \in Chats : \A i \in DOMAIN letters'[d] :
            \/ i \in DOMAIN letters[d] /\ letters'[d][i] = letters[d][i]
            \/ d = c /\ i = n /\ letters'[d][i] = l
    BY <1>4, <1>5
  <1>7. pc'[w] = "save_schedule"
    BY <1>1, <1>2
  <1> QED
    BY <1>2, <1>3, <1>6, <1>7 DEF l

\* No other step gives a worker or a session a PDF it did not have.
LEMMA NobodyElseHolds ==
    ASSUME TypeOK, [Next]_vars,
           ~ \E w \in Workers : ProcStore(w) \/ SaveMark(w)
    PROVE  \A v \in Workers, c \in Chats : Holds(v, c)' =>
               Holds(v, c) /\ local'[v].pdf = local[v].pdf
  BY HoldersStay DEF Holds, PrintedSteps

\* A new PDF is held by the worker that built it; ProcPending, SaveMark and
\* SavePut hand it on, and no step gives it a second holder.
LEMMA HolderStep ==
    ASSUME TypeOK, HolderInv, [Next]_vars, ~SameSecond
    PROVE  HolderInv'
  <1>1. PdfsAreOld /\ HoldersDiffer /\ PendingIsFree /\ HeldIsUnsaved
        /\ SavedOncePerPdf
    BY DEF HolderInv
  <1>2. \A c \in Chats : clock[c] \in Nat
    BY OwnTyped
  <1>3. ASSUME PdfsAreOld', HoldersDiffer', PendingIsFree', HeldIsUnsaved',
               SavedOncePerPdf'
        PROVE  HolderInv'
    BY <1>3 DEF HolderInv
  <1>4. ASSUME NEW w \in Workers, ProcStore(w)
        PROVE  HolderInv'
    <2> DEFINE c == job[w].chat
               second == clock[c] + 1
    <2>1. /\ c \in Chats
          /\ pc[w] = "proc_store" /\ pc'[w] = "proc_pending"
          /\ local'[w].pdf = second
          /\ clock' = [clock EXCEPT ![c] = second]
          /\ job' = job
          /\ \A v \in Workers \ {w} : pc'[v] = pc[v] /\ local'[v] = local[v]
          /\ session' = session /\ letters' = letters
      BY <1>4, ProcStoreHolds
    <2>2. \A v \in Workers, d \in Chats : Holds(v, d)' =>
              \/ v = w /\ d = c /\ local'[v].pdf = second
              \/ v # w /\ Holds(v, d) /\ local'[v].pdf = local[v].pdf
      BY <2>1 DEF Holds
    <2>3. \A d \in Chats : Pending(d)' => Pending(d) /\ session'[d] = session[d]
      BY <2>1 DEF Pending
    <2>4. clock \in [Chats -> Nat]
      BY OwnTyped
    <2>5. \A d \in Chats : 1..clock[d] \subseteq 1..clock'[d]
      BY <2>1, <2>4
    <2>6. second \in 1..clock'[c] /\ second \notin 1..clock[c]
      BY <2>1, <2>4
    <2> HIDE DEF c, second
    <2>7. PdfsAreOld'
      <3>1. \A d \in Chats, v \in Workers :
                Holds(v, d)' => local'[v].pdf \in 1..clock'[d]
        BY <1>1, <2>2, <2>5, <2>6 DEF PdfsAreOld
      <3>2. \A d \in Chats : Pending(d)' => session'[d].pdf \in 1..clock'[d]
        BY <1>1, <2>3, <2>5 DEF PdfsAreOld
      <3>3. \A d \in Chats : \A i \in DOMAIN letters'[d] :
                letters'[d][i].pdf \in 1..clock'[d]
        BY <1>1, <2>1, <2>5 DEF PdfsAreOld
      <3> QED
        BY <3>1, <3>2, <3>3 DEF PdfsAreOld
    <2>8. HoldersDiffer'
      BY <1>1, <2>2, <2>6 DEF PdfsAreOld, HoldersDiffer
    <2>9. PendingIsFree'
      BY <1>1, <2>1, <2>2, <2>3, <2>6 DEF PdfsAreOld, PendingIsFree
    <2>10. HeldIsUnsaved'
      BY <1>1, <2>1, <2>2, <2>6 DEF PdfsAreOld, HeldIsUnsaved
    <2>11. SavedOncePerPdf'
      BY <1>1, <2>1 DEF SavedOncePerPdf
    <2> QED
      BY <1>3, <2>7, <2>8, <2>9, <2>10, <2>11
  <1>5. ASSUME NEW w \in Workers, SaveMark(w)
        PROVE  HolderInv'
    <2> DEFINE c == job[w].chat
    <2>1. /\ c \in Chats
          /\ pc[w] = "save_mark" /\ pc'[w] = "save_copy"
          /\ Pending(c) /\ ~Pending(c)'
          /\ local'[w].pdf = session[c].pdf
          /\ job' = job
          /\ \A v \in Workers \ {w} : pc'[v] = pc[v] /\ local'[v] = local[v]
          /\ \A d \in Chats \ {c} : session'[d] = session[d]
          /\ clock' = clock /\ letters' = letters
      BY <1>5, SaveMarkHolds
    <2>2. \A v \in Workers, d \in Chats : Holds(v, d)' =>
              \/ v = w /\ d = c /\ local'[v].pdf = session[c].pdf
              \/ v # w /\ Holds(v, d) /\ local'[v].pdf = local[v].pdf
      BY <2>1 DEF Holds
    <2>3. \A d \in Chats : Pending(d)' =>
              d # c /\ Pending(d) /\ session'[d] = session[d]
      BY <2>1 DEF Pending
    <2>4. Pending(c) /\ c \in Chats /\ clock' = clock /\ letters' = letters
      BY <2>1
    <2> HIDE DEF c
    <2>5. PdfsAreOld'
      BY <1>1, <2>2, <2>3, <2>4 DEF PdfsAreOld
    <2>6. HoldersDiffer'
      BY <1>1, <2>2, <2>4 DEF HoldersDiffer, PendingIsFree
    <2>7. PendingIsFree'
      <3> SUFFICES ASSUME NEW d \in Chats, Pending(d)'
                   PROVE  /\ \A v \in Workers : Holds(v, d)' =>
                                 local'[v].pdf # session'[d].pdf
                          /\ \A i \in DOMAIN letters'[d] :
                                 letters'[d][i].pdf # session'[d].pdf
        BY DEF PendingIsFree
      <3>1. d # c /\ Pending(d) /\ session'[d] = session[d]
        BY <2>3
      <3>2. /\ \A v \in Workers : Holds(v, d) => local[v].pdf # session[d].pdf
            /\ \A i \in DOMAIN letters[d] : letters[d][i].pdf # session[d].pdf
        BY <1>1, <3>1 DEF PendingIsFree
      <3> QED
        BY <2>2, <2>4, <3>1, <3>2
    <2>8. HeldIsUnsaved'
      BY <1>1, <2>2, <2>4 DEF HeldIsUnsaved, PendingIsFree
    <2>9. SavedOncePerPdf'
      BY <1>1, <2>4 DEF SavedOncePerPdf
    <2> QED
      BY <1>3, <2>5, <2>6, <2>7, <2>8, <2>9
  <1>6. CASE ~ \E w \in Workers : ProcStore(w) \/ SaveMark(w)
    <2>1. \A v \in Workers, d \in Chats : Holds(v, d)' =>
              Holds(v, d) /\ local'[v].pdf = local[v].pdf
      BY <1>6, NobodyElseHolds
    <2>2. HoldersDiffer'
      BY <1>1, <2>1 DEF HoldersDiffer
    <2>3. ASSUME NEW w \in Workers, ProcPending(w)
          PROVE  HolderInv'
      <3> DEFINE c == job[w].chat
      <3>1. /\ c \in Chats
            /\ pc[w] = "proc_pending" /\ pc'[w] = "proc_preview"
            /\ session'[c].pdf = local[w].pdf
            /\ \A d \in Chats \ {c} : session'[d] = session[d]
            /\ clock' = clock /\ letters' = letters
        BY <2>3, ProcPendingHolds
      <3>2. Holds(w, c) /\ \A d \in Chats : ~Holds(w, d)'
        BY <3>1 DEF Holds, HoldingSteps, SavingSteps
      <3>3. \A d \in Chats : Pending(d)' =>
                \/ d = c /\ session'[d].pdf = local[w].pdf
                \/ Pending(d) /\ session'[d].pdf = session[d].pdf
        BY <3>1 DEF Pending
      <3>4. c \in Chats /\ clock' = clock /\ letters' = letters
        BY <3>1
      <3> HIDE DEF c
      <3>5. PdfsAreOld'
        <4>1. \A d \in Chats : Pending(d)' => session'[d].pdf \in 1..clock[d]
          BY <1>1, <3>2, <3>3, <3>4 DEF PdfsAreOld
        <4> QED
          BY <1>1, <2>1, <3>4, <4>1 DEF PdfsAreOld
      <3>6. PendingIsFree'
        BY <1>1, <2>1, <3>2, <3>3, <3>4
        DEF PendingIsFree, HoldersDiffer, HeldIsUnsaved
      <3>7. HeldIsUnsaved' /\ SavedOncePerPdf'
        BY <1>1, <2>1, <3>4 DEF HeldIsUnsaved, SavedOncePerPdf
      <3> QED
        BY <1>3, <2>2, <3>5, <3>6, <3>7
    <2>4. ASSUME ~ \E w \in Workers : ProcPending(w)
          PROVE  HolderInv'
      <3>1. \A d \in Chats : Pending(d)' =>
                Pending(d) /\ session'[d].pdf = session[d].pdf
        BY <2>4, PendingStays
      <3>2. ASSUME NEW w \in Workers, SavePut(w)
            PROVE  HolderInv'
        <4> DEFINE c == job[w].chat
                   n == Len(letters[c]) + 1
        <4>1. /\ c \in Chats
              /\ pc[w] = "save_put" /\ pc'[w] = "save_schedule"
              /\ \A d \in Chats : \A i \in DOMAIN letters'[d] :
                     \/ i \in DOMAIN letters[d] /\ letters'[d][i] = letters[d][i]
                     \/ d = c /\ i = n /\ letters'[d][i] =
                           [name |-> local[w].name, pdf |-> local[w].pdf,
                            pages |-> local[w].pages]
              /\ clock' = clock
          BY <3>2, SavePutHolds
        <4>2. Holds(w, c) /\ \A d \in Chats : ~Holds(w, d)'
          BY <4>1 DEF Holds, HoldingSteps, SavingSteps
        <4>3. \A d \in Chats : \A i \in DOMAIN letters'[d] :
                  \/ /\ i \in DOMAIN letters[d]
                     /\ letters'[d][i].pdf = letters[d][i].pdf
                  \/ d = c /\ i = n /\ letters'[d][i].pdf = local[w].pdf
          BY <4>1
        <4>4. c \in Chats /\ clock' = clock
          BY <4>1
        <4> HIDE DEF c, n
        <4>5. PdfsAreOld'
          <5>1. \A d \in Chats : \A i \in DOMAIN letters'[d] :
                    letters'[d][i].pdf \in 1..clock[d]
            BY <1>1, <4>2, <4>3 DEF PdfsAreOld
          <5>2. \A d \in Chats : Pending(d)' => session'[d].pdf \in 1..clock[d]
            BY <1>1, <3>1 DEF PdfsAreOld
          <5>3. \A d \in Chats, v \in Workers :
                    Holds(v, d)' => local'[v].pdf \in 1..clock[d]
            BY <1>1, <2>1 DEF PdfsAreOld
          <5> QED
            BY <4>4, <5>1, <5>2, <5>3 DEF PdfsAreOld
        <4>6. PendingIsFree'
          <5>1. \A d \in Chats : Pending(d)' => \A v \in Workers :
                    Holds(v, d)' => local'[v].pdf # session'[d].pdf
            BY <1>1, <2>1, <3>1 DEF PendingIsFree
          <5>2. \A d \in Chats : Pending(d)' => \A i \in DOMAIN letters'[d] :
                    letters'[d][i].pdf # session'[d].pdf
            BY <1>1, <3>1, <4>2, <4>3 DEF PendingIsFree
          <5> QED
            BY <5>1, <5>2 DEF PendingIsFree
        <4>7. HeldIsUnsaved'
          BY <1>1, <2>1, <4>2, <4>3 DEF HeldIsUnsaved, HoldersDiffer
        <4>8. SavedOncePerPdf'
          <5> SUFFICES ASSUME NEW d \in Chats, NEW i \in DOMAIN letters'[d],
                              NEW j \in DOMAIN letters'[d], i # j
                       PROVE  letters'[d][i].pdf # letters'[d][j].pdf
            BY DEF SavedOncePerPdf
          <5>1. \A k \in DOMAIN letters[c] : letters[c][k].pdf # local[w].pdf
            BY <1>1, <4>2, <4>4 DEF HeldIsUnsaved
          <5> QED
            BY <1>1, <4>3, <5>1 DEF SavedOncePerPdf
        <4> QED
          BY <1>3, <2>2, <4>5, <4>6, <4>7, <4>8
      <3>3. ASSUME ~ \E w \in Workers : SavePut(w)
            PROVE  HolderInv'
        <4>1. clock' = clock /\ letters' = letters
          <5>1. ASSUME NEW w \in Workers, SaveCopy(w) \/ SaveDelete(w)
                PROVE  clock' = clock /\ letters' = letters
            BY <5>1 DEF SaveCopy, SaveDelete
          <5> QED
            BY <1>6, <3>3, <5>1, StoresStay
        <4>2. PdfsAreOld'
          BY <1>1, <2>1, <3>1, <4>1 DEF PdfsAreOld
        <4>3. PendingIsFree'
          BY <1>1, <2>1, <3>1, <4>1 DEF PendingIsFree
        <4>4. HeldIsUnsaved' /\ SavedOncePerPdf'
          BY <1>1, <2>1, <4>1 DEF HeldIsUnsaved, SavedOncePerPdf
        <4> QED
          BY <1>3, <2>2, <4>2, <4>3, <4>4
      <3> QED
        BY <3>2, <3>3
    <2> QED
      BY <2>3, <2>4
  <1> QED
    BY <1>4, <1>5, <1>6

\* There are no PDFs yet.
LEMMA HolderInit == Init => HolderInv
  <1> SUFFICES ASSUME Init
               PROVE  HolderInv
    OBVIOUS
  <1>1. \A w \in Workers, c \in Chats : ~Holds(w, c)
    BY DEF Init, InvocationsInit, Holds, HoldingSteps, SavingSteps
  <1>2. \A c \in Chats : ~Pending(c)
    BY DEF Init, Pending, NoItem
  <1>3. \A c \in Chats : DOMAIN letters[c] = {}
    <2>1. DOMAIN <<>> = {} /\ \A c \in Chats : letters[c] = <<>>
      BY DEF Init
    <2> QED
      BY <2>1
  <1> QED
    BY <1>1, <1>2, <1>3 DEF HolderInv, PdfsAreOld, HoldersDiffer, PendingIsFree,
                            HeldIsUnsaved, SavedOncePerPdf

\* A PDF that is not a letter yet has one holder, if PDFs have keys of their own.
THEOREM PdfsHaveOneHolder == ASSUME ~SameSecond PROVE Spec => []HolderInv
  BY TypeInit, TypeStep, HolderInit, HolderStep, PTL DEF Spec

(***************************************************************************)
(* However often Save is pressed, delivered again or failing half-way, a   *)
(* PDF becomes one letter at most: MarkSaving's condition is guard enough, *)
(* provided that no two PDFs of a chat are built in the same second.       *)
(***************************************************************************)
THEOREM PdfSavedOnce == ASSUME ~SameSecond PROVE Spec => []SavedOncePerPdf
  BY PdfsHaveOneHolder, PTL DEF HolderInv

-----------------------------------------------------------------------------
(* Letters have a file, whatever keys collide: an object of the archive is *)
(* never deleted, and no letter is stored before one is there.             *)

FilesThere ==
    \A w \in Workers : pc[w] \in {"save_delete", "save_put"} =>
        FinalKey(job[w].chat, local[w].name) \in DOMAIN bucket

FilesInv == FilesThere /\ LetterHasFile

\* Nothing removes an object from the archive: Save deletes unsorted PDFs.
LEMMA FinalKeysStay ==
    ASSUME [Next]_vars
    PROVE  \A c, name : FinalKey(c, name) \in DOMAIN bucket =>
               FinalKey(c, name) \in DOMAIN bucket'
  <1>1. ASSUME NEW w \in Workers, ProcStore(w) \/ SaveCopy(w)
        PROVE  DOMAIN bucket \subseteq DOMAIN bucket'
    BY <1>1 DEF ProcStore, SaveCopy, CopyObject, PutObject
  <1>2. ASSUME NEW w \in Workers, SaveDelete(w)
        PROVE  \A c, name : FinalKey(c, name) \in DOMAIN bucket =>
                   FinalKey(c, name) \in DOMAIN bucket'
    <2>1. DOMAIN bucket' = DOMAIN bucket \ {UnsortedKey(job[w].chat, local[w].pdf)}
      BY <1>2 DEF SaveDelete, DeleteObject
    <2>2. \A c, name, d, n : FinalKey(c, name) # UnsortedKey(d, n)
      BY DEF FinalKey, UnsortedKey
    <2> QED
      BY <2>1, <2>2
  <1>3. ASSUME NEW w \in Workers, SavePut(w)
        PROVE  bucket' = bucket
    BY <1>3 DEF SavePut
  <1> QED
    BY <1>1, <1>2, <1>3, StoresStay

\* The copy comes before the item of the letter, and stays.
LEMMA FilesStep ==
    ASSUME TypeOK, FilesInv, [Next]_vars
    PROVE  FilesInv'
  <1>1. /\ pc \in [Workers -> Steps]
        /\ local \in [Workers -> Local]
        /\ letters \in [Chats -> Seq(Letter)]
    BY OwnTyped
  <1>2. \A c, name : FinalKey(c, name) \in DOMAIN bucket =>
            FinalKey(c, name) \in DOMAIN bucket'
    BY FinalKeysStay
  <1>3. FilesThere'
    <2>1. ASSUME NEW w \in Workers, ProcStore(w) \/ SaveMark(w)
          PROVE  FilesThere'
      <3>1. /\ job' = job
            /\ \E to \in {"proc_pending", "save_copy"} :
                   pc' = [pc EXCEPT ![w] = to]
        BY <2>1 DEF ProcStore, SaveMark, Goto, Advance
      <3>2. \A v \in Workers \ {w} : local'[v] = local[v]
        BY <1>1, <2>1 DEF ProcStore, SaveMark
      <3>3. \A v \in Workers : pc'[v] \in {"save_delete", "save_put"} =>
                v # w /\ pc[v] = pc'[v]
        BY <1>1, <3>1
      <3> QED
        BY <1>2, <3>1, <3>2, <3>3 DEF FilesInv, FilesThere, FinalKey
    <2>2. CASE ~ \E w \in Workers : ProcStore(w) \/ SaveMark(w)
      <3> SUFFICES ASSUME NEW v \in Workers, pc'[v] \in {"save_delete", "save_put"}
                   PROVE  FinalKey(job'[v].chat, local'[v].name) \in DOMAIN bucket'
        BY DEF FilesThere, FinalKey
      <3>1. /\ job'[v] = job[v] /\ local'[v] = local[v]
            /\ pc[v] \in {"save_delete", "save_put"} \/ SaveCopy(v)
        BY <2>2, HoldersStay DEF PrintedSteps, HoldingSteps, SavingSteps
      <3>2. CASE pc[v] \in {"save_delete", "save_put"}
        BY <1>2, <3>1, <3>2 DEF FilesInv, FilesThere
      <3>3. CASE SaveCopy(v)
        BY <3>1, <3>3 DEF SaveCopy, CopyObject, PutObject
      <3> QED
        BY <3>1, <3>2, <3>3
    <2> QED
      BY <2>1, <2>2
  <1>4. LetterHasFile'
    <2> SUFFICES ASSUME NEW c \in Chats, NEW i \in DOMAIN letters'[c]
                 PROVE  FinalKey(c, letters'[c][i].name) \in DOMAIN bucket'
      BY DEF LetterHasFile, Range, FinalKey
    <2>1. \A j \in DOMAIN letters[c] :
              FinalKey(c, letters[c][j].name) \in DOMAIN bucket'
      BY <1>2 DEF FilesInv, LetterHasFile, Range
    <2>2. ASSUME NEW w \in Workers, SavePut(w)
          PROVE  FinalKey(c, letters'[c][i].name) \in DOMAIN bucket'
      <3>1. /\ pc[w] = "save_put"
            /\ \/ i \in DOMAIN letters[c] /\ letters'[c][i] = letters[c][i]
               \/ /\ c = job[w].chat
                  /\ letters'[c][i] = [name |-> local[w].name,
                                       pdf |-> local[w].pdf,
                                       pages |-> local[w].pages]
        BY <2>2, SavePutHolds
      <3>2. FinalKey(job[w].chat, local[w].name) \in DOMAIN bucket'
        BY <1>2, <3>1 DEF FilesInv, FilesThere
      <3>3. CASE i \in DOMAIN letters[c] /\ letters'[c][i] = letters[c][i]
        BY <2>1, <3>3
      <3>4. CASE /\ c = job[w].chat
                 /\ letters'[c][i] = [name |-> local[w].name,
                                      pdf |-> local[w].pdf,
                                      pages |-> local[w].pages]
        <4>1. letters'[c][i].name = local[w].name
          BY <3>4
        <4> QED
          BY <3>2, <3>4, <4>1
      <3> QED
        BY <3>1, <3>3, <3>4
    <2>3. ASSUME ~ \E w \in Workers : SavePut(w)
          PROVE  FinalKey(c, letters'[c][i].name) \in DOMAIN bucket'
      <3>1. letters' = letters
        <4>1. ASSUME NEW w \in Workers,
                     ProcStore(w) \/ SaveCopy(w) \/ SaveDelete(w)
              PROVE  letters' = letters
          BY <4>1 DEF ProcStore, SaveCopy, SaveDelete
        <4> QED
          BY <2>3, <4>1, StoresStay
      <3> QED
        BY <2>1, <3>1
    <2> QED
      BY <2>2, <2>3
  <1> QED
    BY <1>3, <1>4 DEF FilesInv

(***************************************************************************)
(* A letter never lacks its file altogether, whatever names the LLM chooses*)
(* and whichever second PDFs are built in.                                 *)
(***************************************************************************)
THEOREM LettersHaveFiles == Spec => []LetterHasFile
  <1>1. Init => FilesInv
    <2> SUFFICES ASSUME Init
                 PROVE  FilesInv
      OBVIOUS
    <2>1. FilesThere
      BY DEF Init, InvocationsInit, FilesThere
    <2>2. \A c \in Chats : letters[c] = <<>>
      BY DEF Init
    <2>3. LetterHasFile
      BY <2>2, RangeOfEmpty DEF LetterHasFile
    <2> QED
      BY <2>1, <2>3 DEF FilesInv
  <1>2. TypeOK /\ FilesInv /\ [Next]_vars => FilesInv'
    BY FilesStep
  <1>3. FilesInv => LetterHasFile
    BY DEF FilesInv
  <1> QED
    BY <1>1, <1>2, <1>3, TypeInit, TypeStep, PTL DEF Spec

-----------------------------------------------------------------------------
(* The reminders of a letter.                                              *)

\* A worker about to schedule reminders has stored their letter.
RemindersInv ==
    /\ RemindersHaveLetter
    /\ \A w \in Workers : pc[w] = "save_schedule" =>
           local[w].letter \in DOMAIN letters[job[w].chat]

\* Only SavePut brings a worker to ScheduleAll, and only that makes reminders.
LEMMA SchedulersStay ==
    ASSUME TypeOK, [Next]_vars, ~ \E w \in Workers : SavePut(w)
    PROVE  /\ \A v \in Workers : pc'[v] = "save_schedule" =>
                  /\ pc[v] = "save_schedule"
                  /\ job'[v] = job[v] /\ local'[v] = local[v]
           /\ letters' = letters
           /\ reminders' = reminders \/ \E w \in Workers : SaveSchedule(w)
  <1> DEFINE Kept ==
        \A v \in Workers : pc'[v] = "save_schedule" =>
                  /\ pc[v] = "save_schedule"
                  /\ job'[v] = job[v] /\ local'[v] = local[v]
  <1> DEFINE Goal == /\ Kept /\ letters' = letters
                     /\ reminders' = reminders \/ \E w \in Workers : SaveSchedule(w)
  <1> USE DEF storeVars
  <1>1. /\ pc \in [Workers -> Steps]
        /\ job \in [Workers -> Message \cup {NoMessage}]
        /\ local \in [Workers -> Local]
        /\ queue \subseteq Message
    BY OwnTyped
  <1>2. ASSUME NEW w \in Workers, NEW to \in Steps \ {"save_schedule"},
               pc' = [pc EXCEPT ![w] = to],
               \A v \in Workers \ {w} : job'[v] = job[v] /\ local'[v] = local[v]
        PROVE  Kept
    BY <1>1, <1>2
  <1>3. ASSUME UNCHANGED <<pc, job, local>>
        PROVE  Kept
    BY <1>3
  <1> HIDE DEF Kept
  <1> USE DEF Steps
  <1>4. ASSUME NEW w \in Workers,
               Finish(w) \/ Fail(w) \/ TessReject(w) \/ SaveCopyMissing(w)
        PROVE  Goal
    <2>1. /\ pc' = [pc EXCEPT ![w] = "idle"]
          /\ \A v \in Workers \ {w} : job'[v] = job[v] /\ local'[v] = local[v]
          /\ letters' = letters /\ reminders' = reminders
      BY <1>1, <1>4 DEF Finish, Fail, TessReject, SaveCopyMissing, GiveBack,
                        Return, Rest
    <2> QED
      BY <1>2, <2>1
  <1>5. ASSUME NEW w \in Workers,
               \/ PhotoStore(w) \/ PhotoAppend(w) \/ PhotoAck(w)
               \/ DoneEmpty(w) \/ DoneGet(w) \/ DoneMark(w) \/ DoneAlready(w)
               \/ DoneSend(w) \/ ClearSession(w) \/ TessRun(w)
        PROVE  Goal
    <2>1. /\ \E to \in Steps \ {"save_schedule"} : pc' = [pc EXCEPT ![w] = to]
          /\ job' = job /\ letters' = letters /\ reminders' = reminders
      BY <1>5 DEF PhotoStore, PhotoAppend, PhotoAck, DoneEmpty, DoneGet,
                  DoneMark, DoneAlready, DoneSend, ClearSession, TessRun, Goto,
                  Advance
    <2>2. \A v \in Workers \ {w} : local'[v] = local[v]
      BY <1>1, <1>5 DEF PhotoStore, PhotoAppend, PhotoAck, DoneEmpty, DoneGet,
                        DoneMark, DoneAlready, DoneSend, ClearSession, TessRun
    <2> QED
      BY <1>2, <2>1, <2>2
  <1>6. ASSUME NEW w \in Workers,
               \/ ProcStore(w) \/ ProcPending(w) \/ ProcPreview(w) \/ SaveMark(w)
               \/ SaveNothing(w) \/ SaveCopy(w) \/ SaveDelete(w)
               \/ SaveSchedule(w) \/ SaveClear(w) \/ SaveClearFails(w)
        PROVE  Goal
    <2>1. /\ \E to \in Steps \ {"save_schedule"} : pc' = [pc EXCEPT ![w] = to]
          /\ job' = job /\ letters' = letters
          /\ reminders' = reminders \/ SaveSchedule(w)
      BY <1>6 DEF ProcStore, ProcPending, ProcPreview, SaveMark, SaveNothing,
                  SaveCopy, SaveDelete, SaveSchedule, SaveClear,
                  SaveClearFails, Goto, Advance
    <2>2. \A v \in Workers \ {w} : local'[v] = local[v]
      BY <1>1, <1>6 DEF ProcStore, ProcPending, ProcPreview, SaveMark,
                        SaveNothing, SaveCopy, SaveDelete, SaveSchedule,
                        SaveClear, SaveClearFails
    <2> QED
      BY <1>2, <2>1, <2>2
  <1>7. ASSUME NEW w \in Workers, NEW m \in queue, Receive(w, m)
        PROVE  Goal
    <2>1. Entry[m.kind] \in Steps \ {"save_schedule"}
      BY <1>1 DEF Message, Kinds, TapKinds, Entry
    <2>2. /\ pc' = [pc EXCEPT ![w] = Entry[m.kind]]
          /\ \A v \in Workers \ {w} : job'[v] = job[v] /\ local'[v] = local[v]
          /\ letters' = letters /\ reminders' = reminders
      BY <1>1, <1>7 DEF Receive, Deliver
    <2> QED
      BY <1>2, <2>1, <2>2
  <1>8. ASSUME \/ \E c \in Chats :
                      \/ PostPhoto(c) \/ Expire(c) \/ Reap(c)
                      \/ \E kind \in TapKinds : PostTap(c, kind)
               \/ UNCHANGED vars
        PROVE  Goal
    BY <1>3, <1>8 DEF PostPhoto, PostTap, Expire, Reap, vars
  <1> HIDE DEF Goal
  <1>9. Goal
    BY <1>4, <1>5, <1>6, <1>7, <1>8 DEF Next, WorkerStep
  <1> QED
    BY <1>9 DEF Goal, Kept

(***************************************************************************)
(* A reminder is scheduled for a letter that has been stored, and nothing  *)
(* takes a letter out of the table again while it is being uploaded.       *)
(***************************************************************************)
THEOREM RemindersAreAboutLetters == Spec => []RemindersHaveLetter
  <1>1. Init => RemindersInv
    BY DEF Init, InvocationsInit, RemindersInv, RemindersHaveLetter
  <1>2. TypeOK /\ RemindersInv /\ [Next]_vars => RemindersInv'
    <2> SUFFICES ASSUME TypeOK, RemindersInv, [Next]_vars
                 PROVE  RemindersInv'
      OBVIOUS
    <2>1. /\ pc \in [Workers -> Steps] /\ local \in [Workers -> Local]
          /\ letters \in [Chats -> Seq(Letter)]
          /\ \A w \in Workers : AtWork(w) => job[w] \in Message
      BY OwnTyped
    <2>2. ASSUME NEW w \in Workers, SavePut(w)
          PROVE  RemindersInv'
      <3> PICK c, new : /\ c = job[w].chat
                        /\ new = [name |-> local[w].name, pdf |-> local[w].pdf,
                                  pages |-> local[w].pages]
        OBVIOUS
      <3>1. /\ pc[w] = "save_put" /\ pc' = [pc EXCEPT ![w] = "save_schedule"]
            /\ job' = job /\ reminders' = reminders
            /\ letters' = [letters EXCEPT ![c] = Append(@, new)]
            /\ local' = [local EXCEPT ![w].letter = Len(letters[c]) + 1]
        BY <2>2 DEF SavePut, Goto, Advance
      <3>2. c \in Chats
        BY <2>1, <3>1 DEF AtWork, Message
      <3>3. /\ letters'[c] = Append(letters[c], new)
            /\ \A d \in Chats \ {c} : letters'[d] = letters[d]
            /\ Len(letters[c]) \in Nat
            /\ DOMAIN letters[c] = 1..Len(letters[c])
        BY <2>1, <3>1, <3>2
      <3>4. DOMAIN letters'[c] = 1..(Len(letters[c]) + 1)
        BY <3>3
      <3>5. /\ DOMAIN letters[c] \subseteq DOMAIN letters'[c]
            /\ Len(letters[c]) + 1 \in DOMAIN letters'[c]
        BY <3>3, <3>4
      <3>6. \A d : d \in Chats => DOMAIN letters[d] \subseteq DOMAIN letters'[d]
        BY <3>3, <3>5
      <3>7. /\ local'[w].letter = Len(letters[c]) + 1
            /\ \A v \in Workers \ {w} : local'[v] = local[v] /\ pc'[v] = pc[v]
        BY <2>1, <3>1 DEF Local
      <3>8. ASSUME NEW v \in Workers, pc'[v] = "save_schedule"
            PROVE  local'[v].letter \in DOMAIN letters'[job'[v].chat]
        <4>1. CASE v = w
          BY <3>1, <3>5, <3>7, <4>1
        <4>2. CASE v # w
          <5>1. /\ pc[v] = "save_schedule"
                /\ local[v].letter \in DOMAIN letters[job[v].chat]
            BY <3>7, <3>8, <4>2 DEF RemindersInv
          <5>2. job[v].chat \in Chats
            BY <2>1, <5>1 DEF AtWork, Message
          <5> QED
            BY <3>1, <3>6, <3>7, <4>2, <5>1, <5>2
        <4> QED
          BY <4>1, <4>2
      <3>9. RemindersHaveLetter'
        <4>1. \A r \in reminders : r.chat \in Chats
          BY DEF TypeOK, StoresOK, Reminder
        <4> QED
          BY <3>1, <3>6, <4>1 DEF RemindersInv, RemindersHaveLetter
      <3> QED
        BY <3>8, <3>9 DEF RemindersInv
    <2>3. CASE ~ \E w \in Workers : SavePut(w)
      <3>1. /\ \A v \in Workers : pc'[v] = "save_schedule" =>
                   /\ pc[v] = "save_schedule"
                   /\ job'[v] = job[v] /\ local'[v] = local[v]
            /\ letters' = letters
            /\ reminders' = reminders \/ \E w \in Workers : SaveSchedule(w)
        BY <2>3, SchedulersStay
      <3>2. ASSUME NEW w \in Workers, SaveSchedule(w), NEW r \in reminders'
            PROVE  r.letter \in DOMAIN letters'[r.chat]
        <4>1. /\ pc[w] = "save_schedule"
              /\ r \in reminders \/ (r.chat = job[w].chat /\ r.letter = local[w].letter)
          BY <3>2 DEF SaveSchedule, Goto, Advance
        <4> QED
          BY <3>1, <4>1 DEF RemindersInv, RemindersHaveLetter
      <3>3. RemindersHaveLetter'
        BY <3>1, <3>2 DEF RemindersInv, RemindersHaveLetter
      <3> QED
        BY <3>1, <3>3 DEF RemindersInv
    <2> QED
      BY <2>2, <2>3
  <1>3. RemindersInv => RemindersHaveLetter
    BY DEF RemindersInv
  <1> QED
    BY <1>1, <1>2, <1>3, TypeCorrect, PTL DEF Spec

-----------------------------------------------------------------------------
(* What lies under the keys: StoredInv is inductive, as long as no two PDFs*)
(* of a chat are built in a second and no two letters get the same name.   *)

\* A later state of the bucket has, of an old PDF, only what there was.
LEMMA BucketAfter ==
    ASSUME TypeOK, StoredInv, [Next]_vars, ~SameSecond
    PROVE  /\ KeysNamePdfs' /\ PdfsKept' /\ CopiesAgree'
           /\ \A c \in Chats : 1..clock[c] \subseteq 1..clock'[c]
           /\ \A c \in Chats : \A n \in 1..clock[c] : \A pages :
                  PagesAre(c, n, pages) => PagesAre(c, n, pages)'
           /\ \A k \in DOMAIN bucket :
                  \/ k \in DOMAIN bucket'
                  \/ \E w \in Workers :
                         /\ SaveDelete(w)
                         /\ k = UnsortedKey(job[w].chat, local[w].pdf)
  <1> DEFINE Goal ==
           /\ KeysNamePdfs' /\ PdfsKept' /\ CopiesAgree'
           /\ \A c \in Chats : 1..clock[c] \subseteq 1..clock'[c]
           /\ \A c \in Chats : \A n \in 1..clock[c] : \A pages :
                  PagesAre(c, n, pages) => PagesAre(c, n, pages)'
           /\ \A k \in DOMAIN bucket :
                  \/ k \in DOMAIN bucket'
                  \/ \E w \in Workers :
                         /\ SaveDelete(w)
                         /\ k = UnsortedKey(job[w].chat, local[w].pdf)
  <1>1. /\ clock \in [Chats -> Nat]
        /\ DOMAIN bucket \subseteq ObjectKey
        /\ \A w \in Workers : AtWork(w) => job[w] \in Message
    BY OwnTyped
  <1>2. KeysNamePdfs /\ PdfsKept /\ CopiesAgree /\ HeldStored
    BY DEF StoredInv
  <1>3. ASSUME NEW w \in Workers, ProcStore(w)
        PROVE  Goal
    <2> DEFINE c == job[w].chat
               second == clock[c] + 1
               new == UnsortedKey(c, second)
    <2>1. /\ c \in Chats
          /\ clock' = [clock EXCEPT ![c] = second]
          /\ bucket' = PutObject(bucket, new,
                                 [pdf |-> second, pages |-> job[w].pages])
      BY <1>3, ProcStoreHolds
    <2>2. /\ DOMAIN bucket' = DOMAIN bucket \cup {new}
          /\ bucket'[new].pdf = second
          /\ \A k \in DOMAIN bucket : k # new => bucket'[k] = bucket[k]
      BY <2>1 DEF PutObject
    <2>3. new.chat = c /\ new.name = second
      BY DEF UnsortedKey
    <2>4. /\ \A d \in Chats : 1..clock[d] \subseteq 1..clock'[d]
          /\ second \in 1..clock'[c] /\ second \notin 1..clock[c]
          /\ 1..clock'[c] = 1..clock[c] \cup {second}
          /\ \A d \in Chats \ {c} : clock'[d] = clock[d]
      BY <1>1, <2>1
    <2>5. \A k \in DOMAIN bucket : k.chat \in Chats
      BY <1>1 DEF ObjectKey
    <2> HIDE DEF c, second, new
    <2>6. \A k \in DOMAIN bucket :
              /\ k.name \in 1..clock[k.chat] /\ bucket[k].pdf = k.name
              /\ k # new /\ bucket'[k] = bucket[k]
      BY <1>2, <2>2, <2>3, <2>4 DEF KeysNamePdfs
    <2>7. KeysNamePdfs'
      BY <2>2, <2>3, <2>4, <2>5, <2>6 DEF KeysNamePdfs
    <2>8. PdfsKept'
      <3> SUFFICES ASSUME NEW d \in Chats, NEW n \in 1..clock'[d]
                   PROVE  \E k \in DOMAIN bucket' : k.chat = d /\ k.name = n
        BY DEF PdfsKept
      <3>1. CASE n \in 1..clock[d]
        BY <1>2, <2>2, <3>1 DEF PdfsKept
      <3>2. CASE n \notin 1..clock[d]
        <4>1. d = c /\ n = second
          BY <2>4, <3>2
        <4> QED
          BY <2>2, <2>3, <4>1
      <3> QED
        BY <3>1, <3>2
    <2>9. CopiesAgree'
      <3> SUFFICES ASSUME NEW k \in DOMAIN bucket', NEW l \in DOMAIN bucket',
                          l.chat = k.chat, l.name = k.name
                   PROVE  bucket'[l].pages = bucket'[k].pages
        BY DEF CopiesAgree, PagesAre
      <3>1. CASE k = new \/ l = new
        BY <2>2, <2>3, <2>4, <2>6, <3>1
      <3>2. CASE k # new /\ l # new
        BY <1>2, <2>2, <2>6, <3>2 DEF CopiesAgree, PagesAre
      <3> QED
        BY <3>1, <3>2
    <2>10. \A d \in Chats : \A n \in 1..clock[d] : \A pages :
              PagesAre(d, n, pages) => PagesAre(d, n, pages)'
      BY <2>2, <2>3, <2>4, <2>6 DEF PagesAre
    <2> QED
      BY <2>2, <2>4, <2>7, <2>8, <2>9, <2>10
  <1>4. ASSUME NEW w \in Workers, SaveCopy(w)
        PROVE  Goal
    <2> DEFINE c == job[w].chat
               from == UnsortedKey(c, local[w].pdf)
               to == FinalKey(c, local[w].name)
    <2>1. /\ pc[w] = "save_copy"
          /\ from \in DOMAIN bucket
          /\ bucket' = PutObject(bucket, to, bucket[from])
          /\ clock' = clock
      BY <1>4 DEF SaveCopy, CanCopy, CopyObject, Goto, Advance
    <2>2. local[w].name = local[w].pdf
      BY <1>2, <2>1 DEF HeldStored, SavingSteps
    <2>3. from.chat = to.chat /\ from.name = to.name
      BY <2>2 DEF UnsortedKey, FinalKey
    <2>4. /\ DOMAIN bucket' = DOMAIN bucket \cup {to}
          /\ bucket'[to] = bucket[from]
          /\ \A k \in DOMAIN bucket : k # to => bucket'[k] = bucket[k]
      BY <2>1 DEF PutObject
    <2> HIDE DEF from, to
    <2>5. \A k \in DOMAIN bucket' : \E l \in DOMAIN bucket :
              /\ l.chat = k.chat /\ l.name = k.name
              /\ bucket'[k] = bucket[l]
      BY <2>1, <2>3, <2>4
    <2>6. KeysNamePdfs'
      BY <1>2, <2>1, <2>5 DEF KeysNamePdfs
    <2>7. PdfsKept'
      BY <1>2, <2>1, <2>4 DEF PdfsKept
    <2>8. CopiesAgree'
      BY <1>2, <2>5 DEF CopiesAgree, PagesAre
    <2>9. \A d \in Chats : \A n \in 1..clock[d] : \A pages :
              PagesAre(d, n, pages) => PagesAre(d, n, pages)'
      BY <2>5 DEF PagesAre
    <2> QED
      BY <2>1, <2>4, <2>6, <2>7, <2>8, <2>9
  <1>5. ASSUME NEW w \in Workers, SaveDelete(w)
        PROVE  Goal
    <2> DEFINE c == job[w].chat
               n == local[w].pdf
               gone == UnsortedKey(c, n)
               there == FinalKey(c, n)
    <2>1. /\ pc[w] = "save_delete"
          /\ bucket' = DeleteObject(bucket, gone)
          /\ clock' = clock
      BY <1>5 DEF SaveDelete, Goto, Advance
    <2>2. there \in DOMAIN bucket
      BY <1>2, <2>1 DEF HeldStored
    <2>3. /\ there # gone
          /\ there.chat = gone.chat /\ there.name = gone.name
      BY DEF UnsortedKey, FinalKey
    <2>4. /\ DOMAIN bucket' = DOMAIN bucket \ {gone}
          /\ \A k \in DOMAIN bucket' : bucket'[k] = bucket[k]
      BY <2>1 DEF DeleteObject
    <2>5. \A k \in DOMAIN bucket : k \in DOMAIN bucket' \/ k = gone
      BY <2>4
    <2>6. \A k \in DOMAIN bucket : k \in DOMAIN bucket' \/
              \E v \in Workers : /\ SaveDelete(v)
                                 /\ k = UnsortedKey(job[v].chat, local[v].pdf)
      BY <1>5, <2>5
    <2> HIDE DEF gone, there
    <2>7. KeysNamePdfs'
      BY <1>2, <2>1, <2>4 DEF KeysNamePdfs
    <2>8. PdfsKept'
      BY <1>2, <2>1, <2>2, <2>3, <2>4 DEF PdfsKept
    <2>9. CopiesAgree'
      BY <1>2, <2>4 DEF CopiesAgree, PagesAre
    <2>10. \A d \in Chats : \A i \in 1..clock[d] : \A pages :
              PagesAre(d, i, pages) => PagesAre(d, i, pages)'
      BY <2>4 DEF PagesAre
    <2> QED
      BY <2>1, <2>6, <2>7, <2>8, <2>9, <2>10
  <1>6. ASSUME ~ \E w \in Workers : ProcStore(w) \/ SaveCopy(w) \/ SaveDelete(w)
        PROVE  Goal
    <2>1. bucket' = bucket /\ clock' = clock
      <3>1. ASSUME NEW w \in Workers, SavePut(w)
            PROVE  bucket' = bucket /\ clock' = clock
        BY <3>1 DEF SavePut
      <3> QED
        BY <1>6, <3>1, StoresStay
    <2>2. \A c \in Chats : \A n \in 1..clock[c] : \A pages :
              PagesAre(c, n, pages) => PagesAre(c, n, pages)'
      BY <2>1 DEF PagesAre
    <2>3. KeysNamePdfs' /\ PdfsKept'
      BY <1>2, <2>1 DEF KeysNamePdfs, PdfsKept
    <2>4. CopiesAgree'
      BY <1>2, <2>1 DEF CopiesAgree, PagesAre
    <2> QED
      BY <2>1, <2>2, <2>3, <2>4
  <1> HIDE DEF Goal
  <1>7. Goal
    BY <1>3, <1>4, <1>5, <1>6
  <1> QED
    BY <1>7 DEF Goal

\* What a session says about its PDF.
LEMMA PendingStoredStep ==
    ASSUME TypeOK, HolderInv, StoredInv, [Next]_vars, ~SameSecond, ~SharedNames
    PROVE  PendingStored'
  <1>1. PendingStored /\ HeldStored
    BY DEF StoredInv
  <1>2. PdfsAreOld /\ PendingIsFree
    BY DEF HolderInv
  <1>3. /\ \A c \in Chats : \A n \in 1..clock[c] : \A pages :
               PagesAre(c, n, pages) => PagesAre(c, n, pages)'
        /\ \A k \in DOMAIN bucket :
               \/ k \in DOMAIN bucket'
               \/ \E w \in Workers : /\ SaveDelete(w)
                                     /\ k = UnsortedKey(job[w].chat, local[w].pdf)
    BY BucketAfter
  <1> SUFFICES ASSUME NEW c \in Chats, Pending(c)'
               PROVE  /\ UnsortedKey(c, session'[c].pdf) \in DOMAIN bucket'
                      /\ session'[c].class.name = session'[c].pdf
                      /\ \A k \in DOMAIN bucket' :
                             k.chat = c /\ k.name = session'[c].pdf =>
                                 bucket'[k].pages = session'[c].class.pages
    BY DEF PendingStored, PagesAre, UnsortedKey
  <1>4. ASSUME Pending(c), session'[c].pdf = session[c].pdf,
               session'[c].class = session[c].class
        PROVE  /\ UnsortedKey(c, session'[c].pdf) \in DOMAIN bucket'
               /\ session'[c].class.name = session'[c].pdf
               /\ \A k \in DOMAIN bucket' :
                      k.chat = c /\ k.name = session'[c].pdf =>
                          bucket'[k].pages = session'[c].class.pages
    <2> DEFINE n == session[c].pdf
    <2>1. /\ UnsortedKey(c, n) \in DOMAIN bucket
          /\ session[c].class.name = n
          /\ PagesAre(c, n, session[c].class.pages)
          /\ n \in 1..clock[c]
      BY <1>1, <1>2, <1>4 DEF PendingStored, PdfsAreOld
    <2>2. ASSUME NEW w \in Workers, SaveDelete(w),
                 UnsortedKey(c, n) = UnsortedKey(job[w].chat, local[w].pdf)
          PROVE  FALSE
      <3>1. c = job[w].chat /\ n = local[w].pdf
        BY <2>2 DEF UnsortedKey
      <3>2. Holds(w, c)
        BY <2>2, <3>1 DEF SaveDelete, Goto, Advance, Holds, HoldingSteps,
                          SavingSteps
      <3> QED
        BY <1>2, <1>4, <3>1, <3>2 DEF PendingIsFree
    <2>3. UnsortedKey(c, n) \in DOMAIN bucket'
      BY <1>3, <2>1, <2>2
    <2>4. PICK pages : pages = session[c].class.pages
      OBVIOUS
    <2>5. \A k \in DOMAIN bucket' :
              k.chat = c /\ k.name = n => bucket'[k].pages = pages
      BY <1>3, <2>1, <2>4 DEF PagesAre
    <2> QED
      BY <1>4, <2>1, <2>3, <2>4, <2>5
  <1>5. ASSUME NEW w \in Workers, ProcPending(w)
        PROVE  /\ UnsortedKey(c, session'[c].pdf) \in DOMAIN bucket'
               /\ session'[c].class.name = session'[c].pdf
               /\ \A k \in DOMAIN bucket' :
                      k.chat = c /\ k.name = session'[c].pdf =>
                          bucket'[k].pages = session'[c].class.pages
    <2> DEFINE d == job[w].chat
               n == local[w].pdf
    <2>1. /\ d \in Chats
          /\ pc[w] = "proc_pending"
          /\ session'[d].pdf = n
          /\ session'[d].class.pages = local[w].pages
          /\ session'[d].class.name \in Names(n)
          /\ \A e \in Chats \ {d} : session'[e] = session[e]
          /\ bucket' = bucket
      BY <1>5, ProcPendingHolds
    <2>2. CASE c # d
      <3>1. Pending(c) /\ session'[c] = session[c]
        BY <2>1, <2>2 DEF Pending
      <3> QED
        BY <1>4, <3>1
    <2>3. CASE c = d
      <3>1. session'[c].class.name = n
        BY <2>1, <2>3 DEF Names
      <3>2. UnsortedKey(d, n) \in DOMAIN bucket /\ PagesAre(d, n, local[w].pages)
        BY <1>1, <2>1 DEF HeldStored, PrintedSteps, HoldingSteps
      <3> QED
        BY <2>1, <2>3, <3>1, <3>2 DEF PagesAre
    <2> QED
      BY <2>2, <2>3
  <1>6. CASE ~ \E w \in Workers : ProcPending(w)
    BY <1>4, <1>6, PendingStays
  <1> QED
    BY <1>5, <1>6

\* What the workers know about the PDFs they hold.
LEMMA HeldStoredStep ==
    ASSUME TypeOK, HolderInv, StoredInv, [Next]_vars, ~SameSecond, ~SharedNames
    PROVE  HeldStored'
  <1>1. PendingStored /\ HeldStored /\ KeysNamePdfs
    BY DEF StoredInv
  <1>2. PdfsAreOld /\ HoldersDiffer
    BY DEF HolderInv
  <1>3. /\ \A c \in Chats : 1..clock[c] \subseteq 1..clock'[c]
        /\ \A c \in Chats : \A n \in 1..clock[c] : \A pages :
               PagesAre(c, n, pages) => PagesAre(c, n, pages)'
        /\ \A k \in DOMAIN bucket :
               \/ k \in DOMAIN bucket'
               \/ \E w \in Workers : /\ SaveDelete(w)
                                     /\ k = UnsortedKey(job[w].chat, local[w].pdf)
    BY BucketAfter
  <1>4. \A c, name : FinalKey(c, name) \in DOMAIN bucket =>
            FinalKey(c, name) \in DOMAIN bucket'
    BY FinalKeysStay
  <1>5. /\ clock \in [Chats -> Nat]
        /\ \A w \in Workers : AtWork(w) => job[w] \in Message
    BY OwnTyped
  <1>6. \A v \in Workers : pc[v] \in PrintedSteps => job[v].chat \in Chats
    BY <1>5 DEF AtWork, PrintedSteps, HoldingSteps, SavingSteps, Message
  <1> DEFINE Stored(v) ==
      LET c == job'[v].chat  n == local'[v].pdf IN
          /\ pc'[v] \in PrintedSteps =>
                 /\ n \in 1..clock'[c]
                 /\ \A k \in DOMAIN bucket' : k.chat = c /\ k.name = n =>
                        bucket'[k].pages = local'[v].pages
          /\ pc'[v] = "proc_pending" => UnsortedKey(c, n) \in DOMAIN bucket'
          /\ pc'[v] \in SavingSteps => local'[v].name = n
          /\ pc'[v] \in {"save_delete", "save_put"} =>
                 FinalKey(c, n) \in DOMAIN bucket'
  <1>7. ASSUME \A v \in Workers : Stored(v)
        PROVE  HeldStored'
    BY <1>7 DEF HeldStored, PagesAre, UnsortedKey, FinalKey, PrintedSteps,
                HoldingSteps, SavingSteps
  <1>8. ASSUME NEW v \in Workers, job'[v] = job[v], local'[v] = local[v],
               pc'[v] \in PrintedSteps => pc[v] \in PrintedSteps,
               pc'[v] \in SavingSteps => pc[v] \in SavingSteps,
               pc'[v] = "proc_pending" => pc[v] = "proc_pending",
               pc'[v] \in {"save_delete", "save_put"} =>
                   pc[v] \in {"save_delete", "save_put"} \/ SaveCopy(v)
        PROVE  Stored(v)
    <2> DEFINE c == job[v].chat
               n == local[v].pdf
    <2>1. ASSUME pc'[v] \in PrintedSteps
          PROVE  /\ n \in 1..clock'[c]
                 /\ \A k \in DOMAIN bucket' : k.chat = c /\ k.name = n =>
                        bucket'[k].pages = local[v].pages
      <3>1. /\ n \in 1..clock[c] /\ c \in Chats
            /\ PagesAre(c, n, local[v].pages)
        BY <1>1, <1>6, <1>8, <2>1 DEF HeldStored
      <3> HIDE DEF c, n
      <3>2. \A pages : PagesAre(c, n, pages) =>
                \A k \in DOMAIN bucket' : k.chat = c /\ k.name = n =>
                    bucket'[k].pages = pages
        <4>1. \A d \in Chats : \A i \in 1..clock[d] : \A pages :
                  PagesAre(d, i, pages) =>
                      \A k \in DOMAIN bucket' : k.chat = d /\ k.name = i =>
                          bucket'[k].pages = pages
          BY <1>3 DEF PagesAre
        <4> QED
          BY <3>1, <4>1
      <3> QED
        BY <1>3, <3>1, <3>2
    <2>2. ASSUME pc'[v] = "proc_pending"
          PROVE  UnsortedKey(c, n) \in DOMAIN bucket'
      <3>1. UnsortedKey(c, n) \in DOMAIN bucket /\ pc[v] = "proc_pending"
        BY <1>1, <1>8, <2>2 DEF HeldStored
      <3>2. c \in Chats /\ Holds(v, c)
        BY <1>6, <3>1 DEF Holds, PrintedSteps, HoldingSteps
      <3>3. ASSUME NEW w \in Workers, SaveDelete(w),
                   UnsortedKey(c, n) = UnsortedKey(job[w].chat, local[w].pdf)
            PROVE  FALSE
        <4>1. c = job[w].chat /\ n = local[w].pdf
          BY <3>3 DEF UnsortedKey
        <4>2. Holds(w, c) /\ w # v
          BY <3>1, <3>3, <4>1 DEF SaveDelete, Goto, Advance, Holds,
                                  HoldingSteps, SavingSteps
        <4> QED
          BY <1>2, <3>2, <4>1, <4>2 DEF HoldersDiffer
      <3> QED
        BY <1>3, <3>1, <3>3
    <2>3. ASSUME pc'[v] \in SavingSteps
          PROVE  local[v].name = n
      BY <1>1, <1>8, <2>3 DEF HeldStored
    <2>4. ASSUME pc'[v] \in {"save_delete", "save_put"}
          PROVE  FinalKey(c, n) \in DOMAIN bucket'
      <3>1. CASE pc[v] \in {"save_delete", "save_put"}
        BY <1>1, <1>4, <3>1 DEF HeldStored
      <3>2. CASE SaveCopy(v)
        <4>1. FinalKey(c, local[v].name) \in DOMAIN bucket'
          BY <3>2 DEF SaveCopy, CopyObject, PutObject
        <4>2. local[v].name = n
          BY <2>3, <2>4 DEF SavingSteps
        <4> QED
          BY <4>1, <4>2
      <3> QED
        BY <1>8, <2>4, <3>1, <3>2
    <2> QED
      BY <1>8, <2>1, <2>2, <2>3, <2>4
  <1>9. ASSUME NEW w \in Workers, ProcStore(w)
        PROVE  HeldStored'
    <2> DEFINE c == job[w].chat
               second == clock[c] + 1
               new == UnsortedKey(c, second)
    <2>1. /\ c \in Chats
          /\ pc'[w] = "proc_pending"
          /\ local'[w].pdf = second /\ local'[w].pages = job[w].pages
          /\ clock' = [clock EXCEPT ![c] = second]
          /\ bucket' = PutObject(bucket, new,
                                 [pdf |-> second, pages |-> job[w].pages])
          /\ job' = job
          /\ \A v \in Workers \ {w} : pc'[v] = pc[v] /\ local'[v] = local[v]
      BY <1>9, ProcStoreHolds
    <2>2. \A v \in Workers \ {w} : Stored(v)
      BY <1>8, <2>1
    <2>3. second \in 1..clock'[c] /\ second \notin 1..clock[c]
      BY <1>5, <2>1
    <2>4. /\ new \in DOMAIN bucket' /\ bucket'[new].pages = job[w].pages
          /\ \A k \in DOMAIN bucket' : k # new => k \in DOMAIN bucket
      BY <2>1 DEF PutObject
    <2>5. \A k \in DOMAIN bucket' :
              k.chat = c /\ k.name = second => bucket'[k].pages = job[w].pages
      BY <1>1, <2>3, <2>4 DEF KeysNamePdfs
    <2>6. Stored(w)
      BY <2>1, <2>3, <2>4, <2>5 DEF SavingSteps
    <2> HIDE DEF Stored
    <2> QED
      BY <1>7, <2>2, <2>6
  <1>10. ASSUME NEW w \in Workers, SaveMark(w)
         PROVE  HeldStored'
    <2> DEFINE c == job[w].chat
               s == session[c]
    <2>1. /\ c \in Chats
          /\ pc'[w] = "save_copy"
          /\ Pending(c)
          /\ local'[w].pages = s.class.pages /\ local'[w].pdf = s.pdf
          /\ local'[w].name = s.class.name
          /\ job' = job /\ bucket' = bucket /\ clock' = clock
          /\ \A v \in Workers \ {w} : pc'[v] = pc[v] /\ local'[v] = local[v]
      BY <1>10, SaveMarkHolds
    <2>2. \A v \in Workers \ {w} : Stored(v)
      BY <1>8, <2>1
    <2>3. s.pdf \in 1..clock[c] /\ s.class.name = s.pdf
          /\ PagesAre(c, s.pdf, s.class.pages)
      BY <1>1, <1>2, <2>1 DEF PdfsAreOld, PendingStored
    <2>4. Stored(w)
      BY <2>1, <2>3 DEF PagesAre
    <2> HIDE DEF Stored
    <2> QED
      BY <1>7, <2>2, <2>4
  <1>11. CASE ~ \E w \in Workers : ProcStore(w) \/ SaveMark(w)
    <2>1. ASSUME NEW v \in Workers
          PROVE  Stored(v)
      <3>1. CASE pc'[v] \in PrintedSteps
        BY <1>8, <1>11, <3>1, HoldersStay
      <3>2. CASE pc'[v] \notin PrintedSteps
        BY <3>2 DEF PrintedSteps, HoldingSteps, SavingSteps
      <3> QED
        BY <3>1, <3>2
    <2> HIDE DEF Stored
    <2> QED
      BY <1>7, <2>1
  <1> QED
    BY <1>9, <1>10, <1>11

\* A letter's metadata and what lies under its key.
LEMMA LettersStoredStep ==
    ASSUME TypeOK, HolderInv, StoredInv, [Next]_vars, ~SameSecond
    PROVE  LettersStored'
  <1>1. LettersStored /\ HeldStored
    BY DEF StoredInv
  <1>2. PdfsAreOld
    BY DEF HolderInv
  <1>3. \A c \in Chats : \A n \in 1..clock[c] : \A pages :
            PagesAre(c, n, pages) =>
                \A k \in DOMAIN bucket' :
                    k.chat = c /\ k.name = n => bucket'[k].pages = pages
    BY BucketAfter DEF PagesAre
  <1>4. \A c, name : FinalKey(c, name) \in DOMAIN bucket =>
            FinalKey(c, name) \in DOMAIN bucket'
    BY FinalKeysStay
  <1> DEFINE Stored(c, l) ==
          /\ l.name = l.pdf
          /\ FinalKey(c, l.pdf) \in DOMAIN bucket'
          /\ \A k \in DOMAIN bucket' :
                 k.chat = c /\ k.name = l.pdf => bucket'[k].pages = l.pages
  <1>5. \A c \in Chats : \A i \in DOMAIN letters[c] : Stored(c, letters[c][i])
    <2> SUFFICES ASSUME NEW c \in Chats, NEW i \in DOMAIN letters[c]
                 PROVE  Stored(c, letters[c][i])
      OBVIOUS
    <2>1. /\ letters[c][i].name = letters[c][i].pdf
          /\ FinalKey(c, letters[c][i].pdf) \in DOMAIN bucket
          /\ PagesAre(c, letters[c][i].pdf, letters[c][i].pages)
          /\ letters[c][i].pdf \in 1..clock[c]
      BY <1>1, <1>2 DEF LettersStored, PdfsAreOld
    <2> QED
      BY <1>3, <1>4, <2>1
  <1> SUFFICES ASSUME NEW c \in Chats, NEW i \in DOMAIN letters'[c]
               PROVE  Stored(c, letters'[c][i])
    BY DEF LettersStored, PagesAre, FinalKey
  <1>6. ASSUME NEW w \in Workers, SavePut(w)
        PROVE  Stored(c, letters'[c][i])
    <2> DEFINE d == job[w].chat
               l == [name |-> local[w].name, pdf |-> local[w].pdf,
                     pages |-> local[w].pages]
    <2>1. /\ d \in Chats /\ pc[w] = "save_put"
          /\ \/ i \in DOMAIN letters[c] /\ letters'[c][i] = letters[c][i]
             \/ c = d /\ letters'[c][i] = l
      BY <1>6, SavePutHolds
    <2>2. Stored(d, l)
      <3>1. /\ l.name = local[w].pdf /\ l.pdf = local[w].pdf
            /\ l.pages = local[w].pages
            /\ FinalKey(d, local[w].pdf) \in DOMAIN bucket
            /\ PagesAre(d, local[w].pdf, local[w].pages)
            /\ local[w].pdf \in 1..clock[d]
        BY <1>1, <2>1 DEF HeldStored, PrintedSteps, HoldingSteps, SavingSteps
      <3> HIDE DEF l
      <3> QED
        BY <1>3, <1>4, <2>1, <3>1
    <2> HIDE DEF Stored, l
    <2> QED
      BY <1>5, <2>1, <2>2
  <1>7. ASSUME ~ \E w \in Workers : SavePut(w)
        PROVE  Stored(c, letters'[c][i])
    <2>1. letters' = letters
      <3>1. ASSUME NEW w \in Workers,
                   ProcStore(w) \/ SaveCopy(w) \/ SaveDelete(w)
            PROVE  letters' = letters
        BY <3>1 DEF ProcStore, SaveCopy, SaveDelete
      <3> QED
        BY <1>7, <3>1, StoresStay
    <2> HIDE DEF Stored
    <2> QED
      BY <1>5, <2>1
  <1> QED
    BY <1>6, <1>7

\* What the user has been shown.
LEMMA PreviewsStoredStep ==
    ASSUME TypeOK, StoredInv, [Next]_vars, ~SameSecond
    PROVE  PreviewsStored'
  <1>1. PreviewsStored /\ HeldStored
    BY DEF StoredInv
  <1>2. \A c \in Chats : \A n \in 1..clock[c] :
            /\ n \in 1..clock'[c]
            /\ \A pages : PagesAre(c, n, pages) =>
                \A k \in DOMAIN bucket' :
                    k.chat = c /\ k.name = n => bucket'[k].pages = pages
    BY BucketAfter DEF PagesAre
  <1>3. /\ previewed \in [Chats -> SUBSET Pdf]
        /\ \A w \in Workers : AtWork(w) => job[w] \in Message
    BY OwnTyped
  <1> SUFFICES ASSUME NEW c \in Chats, NEW p \in previewed'[c]
               PROVE  /\ p.pdf \in 1..clock'[c]
                      /\ \A k \in DOMAIN bucket' :
                             k.chat = c /\ k.name = p.pdf =>
                                 bucket'[k].pages = p.pages
    BY DEF PreviewsStored, PagesAre
  <1>4. SUFFICES p.pdf \in 1..clock[c] /\ PagesAre(c, p.pdf, p.pages)
    BY <1>2
  <1>5. CASE p \in previewed[c]
    BY <1>1, <1>5 DEF PreviewsStored
  <1>6. ASSUME NEW w \in Workers, ProcPreview(w), p \notin previewed[c]
        PROVE  p.pdf \in 1..clock[c] /\ PagesAre(c, p.pdf, p.pages)
    <2>1. /\ pc[w] = "proc_preview"
          /\ previewed' = [previewed EXCEPT ![job[w].chat] =
                 @ \cup {[pdf |-> local[w].pdf, pages |-> local[w].pages]}]
      BY <1>6 DEF ProcPreview, Goto, Advance
    <2>2. /\ c = job[w].chat
          /\ p = [pdf |-> local[w].pdf, pages |-> local[w].pages]
      BY <1>3, <1>6, <2>1
    <2>3. p.pdf = local[w].pdf /\ p.pages = local[w].pages
      BY <2>2
    <2> QED
      BY <1>1, <2>1, <2>2, <2>3 DEF HeldStored, PrintedSteps
  <1>7. CASE ~ \E w \in Workers : ProcPreview(w)
    <2>1. ASSUME NEW w \in Workers, DoneMark(w) \/ DoneSend(w)
          PROVE  previewed' = previewed
      BY <2>1 DEF DoneMark, DoneSend
    <2>2. previewed' = previewed
      BY <1>7, <2>1, HistoryStays DEF historyVars
    <2> QED
      BY <1>5, <2>2
  <1> QED
    BY <1>5, <1>6, <1>7

\* Where PDFs and letters have keys of their own, no step changes a PDF that
\* somebody speaks of.
LEMMA StoredStep ==
    ASSUME TypeOK, HolderInv, StoredInv, [Next]_vars, ~SameSecond, ~SharedNames
    PROVE  StoredInv'
  BY BucketAfter, PendingStoredStep, HeldStoredStep, LettersStoredStep,
     PreviewsStoredStep DEF StoredInv

\* The bucket is empty, and nobody speaks of a PDF.
LEMMA StoredInit == Init => StoredInv
  <1> SUFFICES ASSUME Init
               PROVE  StoredInv
    OBVIOUS
  <1>1. DOMAIN <<>> = {}
    OBVIOUS
  <1>2. DOMAIN bucket = {}
    BY <1>1 DEF Init
  <1>3. \A c \in Chats : 1..clock[c] = {}
    <2>1. 1..0 = {}
      OBVIOUS
    <2>2. \A c \in Chats : clock[c] = 0
      BY DEF Init
    <2> QED
      BY <2>1, <2>2
  <1>4. KeysNamePdfs /\ PdfsKept /\ CopiesAgree
    BY <1>2, <1>3 DEF KeysNamePdfs, PdfsKept, CopiesAgree
  <1>5. PendingStored
    BY DEF Init, PendingStored, Pending, NoItem
  <1>6. HeldStored
    BY DEF Init, InvocationsInit, HeldStored, PrintedSteps, HoldingSteps,
           SavingSteps
  <1>7. LettersStored
    <2>1. \A c \in Chats : letters[c] = <<>>
      BY DEF Init
    <2>2. \A c \in Chats : DOMAIN letters[c] = {}
      BY <1>1, <2>1
    <2> QED
      BY <2>2 DEF LettersStored
  <1>8. PreviewsStored
    <2>1. \A c \in Chats : previewed[c] = {}
      BY DEF Init
    <2> QED
      BY <2>1 DEF PreviewsStored
  <1> QED
    BY <1>4, <1>5, <1>6, <1>7, <1>8 DEF StoredInv

\* Whoever speaks of a PDF means the pages it has, and one copy of it stays.
THEOREM PdfsAreStored ==
    ASSUME ~SameSecond, ~SharedNames
    PROVE  Spec => []StoredInv
  BY TypeInit, TypeStep, HolderInit, HolderStep, StoredInit, StoredStep, PTL
  DEF Spec

(***************************************************************************)
(* A session that awaits confirmation points to a stored PDF made of the   *)
(* pages it was classified by, however its deliveries are raced or repeated*)
(* and as long as keys do not collide.                                     *)
(***************************************************************************)
THEOREM PreviewIsStored ==
    ASSUME ~SameSecond, ~SharedNames
    PROVE  Spec => []PendingPdfStored
  <1>1. StoredInv => PendingPdfStored
    <2> SUFFICES ASSUME StoredInv, NEW c \in Chats, Pending(c)
                 PROVE  LET k == UnsortedKey(c, session[c].pdf) IN
                        k \in DOMAIN bucket /\ bucket[k].pages = session[c].class.pages
      BY DEF PendingPdfStored, Pending
    <2>1. /\ UnsortedKey(c, session[c].pdf) \in DOMAIN bucket
          /\ PagesAre(c, session[c].pdf, session[c].class.pages)
      BY DEF StoredInv, PendingStored
    <2>2. /\ UnsortedKey(c, session[c].pdf).chat = c
          /\ UnsortedKey(c, session[c].pdf).name = session[c].pdf
      BY DEF UnsortedKey
    <2> QED
      BY <2>1, <2>2 DEF PagesAre
  <1> QED
    BY <1>1, PdfsAreStored, PTL

(***************************************************************************)
(* Under the key of every letter lies the PDF it was saved with, whatever  *)
(* is saved, repeated or failing half-way later, as long as keys do not    *)
(* collide.                                                                *)
(***************************************************************************)
THEOREM LettersAreIntact ==
    ASSUME ~SameSecond, ~SharedNames
    PROVE  Spec => []LetterPdfIntact
  <1>1. TypeOK /\ StoredInv => LetterPdfIntact
    <2> SUFFICES ASSUME TypeOK, StoredInv, NEW c \in Chats,
                        NEW i \in DOMAIN letters[c]
                 PROVE  LET l == letters[c][i]  k == FinalKey(c, l.name) IN
                        /\ k \in DOMAIN bucket
                        /\ bucket[k] = [pdf |-> l.pdf, pages |-> l.pages]
      BY DEF LetterPdfIntact, Range
    <2> DEFINE l == letters[c][i]
               k == FinalKey(c, l.pdf)
    <2>1. l.name = l.pdf /\ k \in DOMAIN bucket /\ PagesAre(c, l.pdf, l.pages)
      BY DEF StoredInv, LettersStored
    <2>2. k.chat = c /\ k.name = l.pdf
      BY DEF FinalKey
    <2> HIDE DEF k
    <2>3. bucket[k].pages = l.pages /\ bucket[k].pdf = l.pdf
      BY <2>1, <2>2 DEF PagesAre, StoredInv, KeysNamePdfs
    <2>4. bucket[k] \in Pdf
      BY <2>1, OwnTyped
    <2>5. bucket[k] = [pdf |-> l.pdf, pages |-> l.pages]
      BY <2>3, <2>4 DEF Pdf
    <2> QED
      BY <2>1, <2>5 DEF k
  <1> QED
    BY <1>1, PdfsAreStored, TypeInit, TypeStep, PTL DEF Spec

(***************************************************************************)
(* A PDF the user has been shown stays in the bucket through every race and*)
(* every failure of Save, as long as keys do not collide.                  *)
(***************************************************************************)
THEOREM PreviewsAreKept ==
    ASSUME ~SameSecond, ~SharedNames
    PROVE  Spec => []PreviewedPdfKept
  <1>1. TypeOK /\ StoredInv => PreviewedPdfKept
    <2> SUFFICES ASSUME TypeOK, StoredInv, NEW c \in Chats,
                        NEW p \in previewed[c]
                 PROVE  \E k \in DOMAIN bucket : k.chat = c /\ bucket[k] = p
      BY DEF PreviewedPdfKept
    <2>1. p.pdf \in 1..clock[c] /\ PagesAre(c, p.pdf, p.pages)
      BY DEF StoredInv, PreviewsStored
    <2>2. PICK k \in DOMAIN bucket : k.chat = c /\ k.name = p.pdf
      BY <2>1 DEF StoredInv, PdfsKept
    <2>3. bucket[k].pdf = p.pdf /\ bucket[k].pages = p.pages
      BY <2>1, <2>2 DEF StoredInv, KeysNamePdfs, PagesAre
    <2>4. bucket[k] \in Pdf /\ p \in Pdf
      BY <2>2, OwnTyped
    <2>5. bucket[k] = p
      BY <2>3, <2>4 DEF Pdf
    <2> QED
      BY <2>2, <2>5
  <1> QED
    BY <1>1, PdfsAreStored, TypeInit, TypeStep, PTL DEF Spec

-----------------------------------------------------------------------------
(* The upload flow implements LetterLife.  Below are its variables as the  *)
(* refinement mapping in UploadFlow gives them.                            *)

Sent == [c \in Chats |->
            {PageNumbers(dispatched[c][i]) : i \in DOMAIN dispatched[c]}]

Pdfs == [c \in Chats |-> [n \in 1..clock[c] |-> PdfPages(c, n)]]

Archived == [c \in Chats |-> [i \in DOMAIN letters[c] |->
                [pdf   |-> letters[c][i].pdf,
                 pages |-> PageNumbers(letters[c][i].pages)]]]

LifeInv == TypeOK /\ PageInv /\ OwnInv /\ HolderInv /\ StoredInv

\* A function without places is the empty sequence.
LEMMA NoPlaces ==
    ASSUME NEW f \in [{} -> {}]
    PROVE  f = <<>>
  <1>1. 1..0 = {}
    OBVIOUS
  <1>2. f \in Seq({}) /\ Len(f) = 0
    BY <1>1
  <1> QED
    BY <1>2, EmptySeq

\* A function with one place more is the sequence with one element more.
LEMMA OnePlaceMore ==
    ASSUME NEW S, NEW n \in Nat, NEW f \in [1..n -> S], NEW g \in [1..(n + 1) -> S],
           \A i \in 1..n : g[i] = f[i]
    PROVE  g = Append(f, g[n + 1])
  <1> DEFINE x == g[n + 1]
  <1>1. f \in Seq(S) /\ Len(f) = n /\ g \in Seq(S) /\ Len(g) = n + 1 /\ x \in S
    OBVIOUS
  <1>2. Append(f, x) \in Seq(S) /\ Len(Append(f, x)) = n + 1
    BY <1>1
  <1>3. \A i \in 1..(n + 1) : Append(f, x)[i] = g[i]
    BY <1>1
  <1> QED
    BY <1>1, <1>2, <1>3, SeqEqual

\* A function that differs from another in one place.
LEMMA OnePlaceChanged ==
    ASSUME NEW S, NEW f, NEW g, NEW c \in S, NEW x,
           f = [d \in S |-> f[d]],
           g = [d \in S |-> g[d]],
           \A d \in S \ {c} : g[d] = f[d],
           g[c] = x
    PROVE  g = [f EXCEPT ![c] = x]
  OBVIOUS

\* Where the copies of a PDF are equal, it does not matter which one is read.
LEMMA ChosenCopy ==
    ASSUME NEW b, NEW c, NEW n, NEW pages,
           \E k \in DOMAIN b : k.chat = c /\ b[k].pdf = n,
           \A k \in DOMAIN b : k.chat = c /\ b[k].pdf = n => b[k].pages = pages
    PROVE  b[CHOOSE k \in DOMAIN b : k.chat = c /\ b[k].pdf = n].pages = pages
  <1> DEFINE k == CHOOSE key \in DOMAIN b : key.chat = c /\ b[key].pdf = n
  <1>1. k \in DOMAIN b /\ k.chat = c /\ b[k].pdf = n
    OBVIOUS
  <1> QED
    BY <1>1

\* The pages of a PDF are those of any copy, now and after the next step.
LEMMA PdfPagesAre ==
    ASSUME TypeOK, StoredInv, NEW c \in Chats, NEW n \in 1..clock[c],
           NEW pages, PagesAre(c, n, pages)
    PROVE  PdfPages(c, n) = PageNumbers(pages)
  <1>1. /\ \A k \in DOMAIN bucket : bucket[k].pdf = k.name
        /\ \E k \in DOMAIN bucket : k.chat = c /\ k.name = n
    BY DEF StoredInv, KeysNamePdfs, PdfsKept
  <1>2. bucket[CHOOSE k \in DOMAIN bucket : k.chat = c /\ bucket[k].pdf = n].pages
            = pages
    BY <1>1, ChosenCopy DEF PagesAre
  <1> QED
    BY <1>2 DEF PdfPages

\* The same of the state after a step.
LEMMA NextPdfPagesAre ==
    ASSUME KeysNamePdfs', PdfsKept', NEW c \in Chats, NEW n \in 1..clock'[c],
           NEW pages, PagesAre(c, n, pages)'
    PROVE  PdfPages(c, n)' = PageNumbers(pages)
  <1>1. /\ \A k \in DOMAIN bucket' : bucket'[k].pdf = k.name
        /\ \E k \in DOMAIN bucket' : k.chat = c /\ k.name = n
    BY DEF KeysNamePdfs, PdfsKept
  <1>2. bucket'[CHOOSE k \in DOMAIN bucket' : k.chat = c /\ bucket'[k].pdf = n].pages
            = pages
    BY <1>1, ChosenCopy DEF PagesAre
  <1> QED
    BY <1>2 DEF PdfPages, PageNumbers

\* A PDF that has been built shows the same pages ever after.
LEMMA PdfPagesStay ==
    ASSUME TypeOK, StoredInv, [Next]_vars, ~SameSecond
    PROVE  \A c \in Chats : \A n \in 1..clock[c] : PdfPages(c, n)' = PdfPages(c, n)
  <1> SUFFICES ASSUME NEW c \in Chats, NEW n \in 1..clock[c]
               PROVE  PdfPages(c, n)' = PdfPages(c, n)
    OBVIOUS
  <1>1. PICK k \in DOMAIN bucket : k.chat = c /\ k.name = n
    BY DEF StoredInv, PdfsKept
  <1>2. PICK pages : pages = bucket[k].pages
    OBVIOUS
  <1>3. PagesAre(c, n, pages)
    BY <1>1, <1>2 DEF StoredInv, CopiesAgree, PagesAre
  <1>4. /\ PagesAre(c, n, pages)' /\ n \in 1..clock'[c]
        /\ KeysNamePdfs' /\ PdfsKept'
    BY <1>3, BucketAfter
  <1> QED
    BY <1>3, <1>4, PdfPagesAre, NextPdfPagesAre

\* Initially, nothing is photographed, sent, printed or archived.
LEMMA LifeInit == Init => Life!Init
  <1> SUFFICES ASSUME Init
               PROVE  Life!Init
    OBVIOUS
  <1>1. raws = [c \in Chats |-> 0]
    BY DEF Init
  <1>2. DOMAIN <<>> = {} /\ 1..0 = {}
    OBVIOUS
  <1>3. Sent = [c \in Chats |-> {}]
    <2>1. \A c \in Chats : dispatched[c] = <<>>
      BY DEF Init
    <2> QED
      BY <1>2, <2>1 DEF Sent
  <1>4. Pdfs = [c \in Chats |-> <<>>]
    <2>1. \A c \in Chats : clock[c] = 0
      BY DEF Init
    <2> DEFINE f(c) == [n \in 1..clock[c] |-> PdfPages(c, n)]
    <2>2. \A c \in Chats : f(c) \in [{} -> {}]
      BY <1>2, <2>1
    <2>3. \A c \in Chats : f(c) = <<>>
      BY <2>2, NoPlaces
    <2> QED
      BY <2>3 DEF Pdfs
  <1>5. Archived = [c \in Chats |-> <<>>]
    <2>1. \A c \in Chats : letters[c] = <<>>
      BY DEF Init
    <2> DEFINE a(c) == [i \in DOMAIN letters[c] |->
                [pdf   |-> letters[c][i].pdf,
                 pages |-> PageNumbers(letters[c][i].pages)]]
    <2>2. \A c \in Chats : a(c) \in [{} -> {}]
      BY <1>2, <2>1
    <2>3. \A c \in Chats : a(c) = <<>>
      BY <2>2, NoPlaces
    <2> QED
      BY <2>3 DEF Archived
  <1> QED
    BY <1>1, <1>3, <1>4, <1>5 DEF Life!Init, Sent, Pdfs, Archived

\* Where what was sent, printed and archived stays the same.
LEMMA SentStays ==
    ASSUME [Next]_vars, ~ \E w \in Workers : DoneSend(w)
    PROVE  Sent' = Sent
  <1>1. ASSUME NEW w \in Workers, DoneMark(w) \/ ProcPreview(w)
        PROVE  dispatched' = dispatched
    BY <1>1 DEF DoneMark, ProcPreview
  <1>2. dispatched' = dispatched
    BY <1>1, HistoryStays DEF historyVars
  <1> QED
    BY <1>2 DEF Sent, PageNumbers

\* Only ProcStore adds a PDF.
LEMMA PdfsStay ==
    ASSUME TypeOK, StoredInv, [Next]_vars, ~SameSecond,
           ~ \E w \in Workers : ProcStore(w)
    PROVE  Pdfs' = Pdfs
  <1>1. ASSUME NEW w \in Workers, SaveCopy(w) \/ SaveDelete(w) \/ SavePut(w)
        PROVE  clock' = clock
    BY <1>1 DEF SaveCopy, SaveDelete, SavePut
  <1>2. clock' = clock
    BY <1>1, StoresStay
  <1>3. \A c \in Chats : \A n \in 1..clock[c] : PdfPages(c, n)' = PdfPages(c, n)
    BY PdfPagesStay
  <1>4. Pdfs' = [c \in Chats |-> [n \in 1..clock'[c] |-> PdfPages(c, n)']]
    BY DEF Pdfs
  <1> QED
    BY <1>2, <1>3, <1>4 DEF Pdfs

\* Only SavePut adds a letter.
LEMMA ArchivedStays ==
    ASSUME [Next]_vars, ~ \E w \in Workers : SavePut(w)
    PROVE  Archived' = Archived
  <1>1. ASSUME NEW w \in Workers, ProcStore(w) \/ SaveCopy(w) \/ SaveDelete(w)
        PROVE  letters' = letters
    BY <1>1 DEF ProcStore, SaveCopy, SaveDelete
  <1>2. letters' = letters
    BY <1>1, StoresStay
  <1> QED
    BY <1>2 DEF Archived, PageNumbers

\* Only PhotoStore adds a photo.
LEMMA RawsStay ==
    ASSUME [Next]_vars, ~ \E w \in Workers : PhotoStore(w)
    PROVE  raws' = raws
  <1> USE DEF storeVars
  <1>1. ASSUME NEW w \in Workers,
               \/ Finish(w) \/ Fail(w) \/ TessReject(w) \/ SaveCopyMissing(w)
               \/ PhotoAppend(w) \/ PhotoAck(w)
               \/ DoneEmpty(w) \/ DoneGet(w) \/ DoneMark(w) \/ DoneAlready(w)
               \/ DoneSend(w) \/ ClearSession(w) \/ TessRun(w)
        PROVE  raws' = raws
    BY <1>1 DEF Finish, Fail, TessReject, SaveCopyMissing,
                PhotoAppend, PhotoAck, DoneEmpty, DoneGet, DoneMark,
                DoneAlready, DoneSend, ClearSession, TessRun
  <1>2. ASSUME NEW w \in Workers,
               \/ ProcStore(w) \/ ProcPending(w) \/ ProcPreview(w)
               \/ SaveMark(w) \/ SaveNothing(w) \/ SaveCopy(w) \/ SaveDelete(w)
               \/ SavePut(w) \/ SaveSchedule(w) \/ SaveClear(w)
               \/ SaveClearFails(w)
        PROVE  raws' = raws
    BY <1>2 DEF ProcStore, ProcPending, ProcPreview, SaveMark, SaveNothing,
                SaveCopy, SaveDelete, SavePut, SaveSchedule, SaveClear,
                SaveClearFails
  <1>3. ASSUME NEW c \in Chats,
               \/ PostPhoto(c) \/ Expire(c) \/ Reap(c)
               \/ \E kind \in TapKinds : PostTap(c, kind)
        PROVE  raws' = raws
    BY <1>3 DEF PostPhoto, PostTap, Expire, Reap
  <1>4. ASSUME NEW w \in Workers, NEW m \in queue, Receive(w, m)
        PROVE  raws' = raws
    BY <1>4 DEF Receive
  <1>5. ASSUME UNCHANGED vars
        PROVE  raws' = raws
    BY <1>5 DEF vars
  <1> QED
    BY <1>1, <1>2, <1>3, <1>4, <1>5 DEF Next, WorkerStep

-----------------------------------------------------------------------------
(* Each step of a handler is one of LetterLife's.                          *)

\* A step of LetterLife, where its variables are named as above.
LEMMA LifeSteps ==
    ASSUME NEW c \in Chats
    PROVE  /\ (/\ raws' = [raws EXCEPT ![c] = @ + 1]
               /\ Sent' = Sent /\ Pdfs' = Pdfs /\ Archived' = Archived)
                  => Life!Photograph(c)
           /\ \A batch \in SUBSET (1..raws[c] \ UNION Sent[c]) :
                  (/\ Sent' = [Sent EXCEPT ![c] = @ \cup {batch}]
                   /\ raws' = raws /\ Pdfs' = Pdfs /\ Archived' = Archived)
                      => Life!Send(c)
           /\ \A batch \in Sent[c] \ {{}} :
                  (/\ Pdfs' = [Pdfs EXCEPT ![c] = Append(@, batch)]
                   /\ raws' = raws /\ Sent' = Sent /\ Archived' = Archived)
                      => Life!MakePdf(c)
           /\ \A n \in DOMAIN Pdfs[c] :
                  (/\ \A i \in DOMAIN Archived[c] : Archived[c][i].pdf # n
                   /\ Archived' = [Archived EXCEPT
                          ![c] = Append(@, [pdf |-> n, pages |-> Pdfs[c][n]])]
                   /\ raws' = raws /\ Sent' = Sent /\ Pdfs' = Pdfs)
                      => Life!Archive(c)
           /\ (raws' = raws /\ Sent' = Sent /\ Pdfs' = Pdfs /\ Archived' = Archived)
                  => UNCHANGED Life!vars
  <1>1. (/\ raws' = [raws EXCEPT ![c] = @ + 1]
         /\ Sent' = Sent /\ Pdfs' = Pdfs /\ Archived' = Archived)
            => Life!Photograph(c)
    BY DEF Life!Photograph, Sent, Pdfs, Archived
  <1>2. ASSUME NEW batch \in SUBSET (1..raws[c] \ UNION Sent[c]),
               Sent' = [Sent EXCEPT ![c] = @ \cup {batch}],
               raws' = raws, Pdfs' = Pdfs, Archived' = Archived
        PROVE  Life!Send(c)
    BY <1>2 DEF Life!Send, Sent, Pdfs, Archived
  <1>3. ASSUME NEW batch \in Sent[c] \ {{}},
               Pdfs' = [Pdfs EXCEPT ![c] = Append(@, batch)],
               raws' = raws, Sent' = Sent, Archived' = Archived
        PROVE  Life!MakePdf(c)
    BY <1>3 DEF Life!MakePdf, Sent, Pdfs, Archived
  <1>4. ASSUME NEW n \in DOMAIN Pdfs[c],
               \A i \in DOMAIN Archived[c] : Archived[c][i].pdf # n,
               Archived' = [Archived EXCEPT
                   ![c] = Append(@, [pdf |-> n, pages |-> Pdfs[c][n]])],
               raws' = raws, Sent' = Sent, Pdfs' = Pdfs
        PROVE  Life!Archive(c)
    BY <1>4 DEF Life!Archive, Sent, Pdfs, Archived
  <1>5. (raws' = raws /\ Sent' = Sent /\ Pdfs' = Pdfs /\ Archived' = Archived)
            => UNCHANGED Life!vars
    BY DEF Life!vars, Sent, Pdfs, Archived
  <1> QED
    BY <1>1, <1>2, <1>3, <1>4, <1>5

\* A stored photo is a photo.
LEMMA PhotoStorePhotographs ==
    ASSUME TypeOK, NEW w \in Workers, PhotoStore(w)
    PROVE  \E c \in Chats : Life!Photograph(c)
  <1> DEFINE c == job[w].chat
  <1>1. /\ pc[w] = "photo_store" /\ raws' = [raws EXCEPT ![c] = @ + 1]
        /\ UNCHANGED <<bucket, clock, letters, dispatched>>
    BY DEF PhotoStore, Goto, Advance, historyVars
  <1>2. c \in Chats
    BY <1>1, OwnTyped DEF AtWork, Message
  <1>3. Sent' = Sent /\ Pdfs' = Pdfs /\ Archived' = Archived
    BY <1>1 DEF Sent, Pdfs, Archived, PdfPages, PageNumbers
  <1> HIDE DEF c
  <1> QED
    BY <1>1, <1>2, <1>3, LifeSteps

\* What Done sends is a batch of photos that are in no batch.
LEMMA DoneSendSends ==
    ASSUME LifeInv, NEW w \in Workers, DoneSend(w)
    PROVE  \E c \in Chats : Life!Send(c)
  <1> PICK c, b, batch, n :
          /\ c = job[w].chat /\ b = local[w].pages /\ batch = PageNumbers(b)
          /\ n = Len(dispatched[c]) + 1
    OBVIOUS
  <1>1. /\ pc[w] = "done_send" /\ AtWork(w)
        /\ dispatched' = [dispatched EXCEPT ![c] = Append(@, b)]
        /\ UNCHANGED <<raws, bucket, clock, letters>>
    BY DEF DoneSend, Goto, Advance, AtWork, storeVars
  <1>2. /\ c \in Chats /\ b \in Seq(RawKey) /\ dispatched[c] \in Seq(Seq(RawKey))
        /\ dispatched \in [Chats -> Seq(Seq(RawKey))]
        /\ raws \in [Chats -> Nat] /\ sealed[c] \in SUBSET RawKey
    BY <1>1, OwnTyped DEF AtWork, Message, Local, LifeInv, TypeOK, StoresOK
  <1>3. Pdfs' = Pdfs /\ Archived' = Archived
    BY <1>1 DEF Pdfs, Archived, PdfPages, PageNumbers
  <1>4. /\ DOMAIN dispatched'[c] = DOMAIN dispatched[c] \cup {n}
        /\ dispatched'[c][n] = b
        /\ \A i \in DOMAIN dispatched[c] : dispatched'[c][i] = dispatched[c][i]
        /\ \A d \in Chats \ {c} : dispatched'[d] = dispatched[d]
    <2>1. /\ dispatched'[c] = Append(dispatched[c], b)
          /\ \A d \in Chats \ {c} : dispatched'[d] = dispatched[d]
      BY <1>1, <1>2
    <2> PICK s : s = dispatched[c]
      OBVIOUS
    <2>2. s \in Seq(Seq(RawKey))
      BY <1>2
    <2>3. /\ DOMAIN Append(s, b) = DOMAIN s \cup {Len(s) + 1}
          /\ Append(s, b)[Len(s) + 1] = b
          /\ \A i \in DOMAIN s : Append(s, b)[i] = s[i]
      BY <1>2, <2>2, BatchAppended
    <2> QED
      BY <2>1, <2>3
  <1>5. Sent' = [Sent EXCEPT ![c] = @ \cup {batch}]
    <2>1. Sent' = [d \in Chats |->
                      {PageNumbers(dispatched'[d][i]) : i \in DOMAIN dispatched'[d]}]
      BY DEF Sent, PageNumbers
    <2>2. {PageNumbers(dispatched'[c][i]) : i \in DOMAIN dispatched'[c]}
              = Sent[c] \cup {batch}
      <3>1. Sent[c] = {PageNumbers(dispatched[c][i]) : i \in DOMAIN dispatched[c]}
        BY <1>2 DEF Sent
      <3> PICK f, g : f = dispatched[c] /\ g = dispatched'[c]
        OBVIOUS
      <3>2. /\ DOMAIN g = DOMAIN f \cup {n} /\ PageNumbers(g[n]) = batch
            /\ \A i \in DOMAIN f : g[i] = f[i]
        BY <1>4
      <3>3. {PageNumbers(g[i]) : i \in DOMAIN g}
                = {PageNumbers(f[i]) : i \in DOMAIN f} \cup {batch}
        BY <3>2
      <3>4. Sent[c] = {PageNumbers(f[i]) : i \in DOMAIN f}
        BY <3>1
      <3> QED
        BY <3>3, <3>4
    <2>3. \A d \in Chats \ {c} :
              {PageNumbers(dispatched'[d][i]) : i \in DOMAIN dispatched'[d]} = Sent[d]
      BY <1>4 DEF Sent
    <2>4. Sent = [d \in Chats |-> Sent[d]]
      BY DEF Sent
    <2>5. PICK f, g : f = Sent /\ g = Sent'
      OBVIOUS
    <2>6. g[c] = f[c] \cup {batch} /\ \A d \in Chats \ {c} : g[d] = f[d]
      BY <1>2, <2>1, <2>2, <2>3, <2>5
    <2>7. f = [d \in Chats |-> f[d]] /\ g = [d \in Chats |-> g[d]]
      BY <2>1, <2>4, <2>5
    <2>8. g = [f EXCEPT ![c] = f[c] \cup {batch}]
      BY <1>2, <2>6, <2>7, OnePlaceChanged
    <2> QED
      BY <2>5, <2>8
  <1>6. /\ Range(b) \subseteq sealed[c]
        /\ Range(b) \cap Pages(dispatched[c]) = {}
        /\ Pages(dispatched[c]) \subseteq sealed[c]
    BY <1>1, <1>2 DEF LifeInv, PageInv, TakenPagesAreInOnePlace, Sending
  <1>7. \A k \in sealed[c] : k \in RawKey /\ k.chat = c /\ k.at \in 1..raws[c]
    <2>1. \A k \in sealed[c] : k \in RawKey /\ k.chat = c /\ k.at <= raws[c]
      BY <1>2 DEF LifeInv, PageInv, KnownPagesAreOld, KnownPages, OwnInv,
                  HistoryOwn
    <2> QED
      BY <1>2, <2>1 DEF RawKey
  <1>8. batch \subseteq 1..raws[c]
    BY <1>6, <1>7 DEF PageNumbers
  <1>9. ASSUME NEW at \in batch, NEW old \in Sent[c], at \in old
        PROVE  FALSE
    <2>1. PICK k \in Range(b) : k.at = at
      BY <1>9 DEF PageNumbers
    <2>2. PICK i \in DOMAIN dispatched[c] : old = PageNumbers(dispatched[c][i])
      BY <1>2, <1>9 DEF Sent
    <2>3. PICK l \in Range(dispatched[c][i]) : l.at = at
      BY <1>9, <2>2 DEF PageNumbers
    <2>4. l \in Pages(dispatched[c])
      BY <2>3 DEF Pages
    <2>5. k \in RawKey /\ l \in RawKey /\ k.chat = l.chat /\ k.at = l.at
      BY <1>6, <1>7, <2>1, <2>3, <2>4
    <2>6. k = l
      BY <2>5 DEF RawKey
    <2> QED
      BY <1>6, <2>1, <2>4, <2>6
  <1>10. batch \in SUBSET (1..raws[c] \ UNION Sent[c])
    BY <1>8, <1>9
  <1>11. raws' = raws
    BY <1>1
  <1> QED
    BY <1>2, <1>3, <1>5, <1>10, <1>11, LifeSteps

\* What is printed is a batch that was sent.
LEMMA ProcStorePrints ==
    ASSUME LifeInv, [Next]_vars, ~SameSecond, NEW w \in Workers, ProcStore(w)
    PROVE  \E c \in Chats : Life!MakePdf(c)
  <1> PICK c, b, n, batch :
          /\ c = job[w].chat /\ b = job[w].pages /\ batch = PageNumbers(b)
          /\ n = clock[c] + 1
    OBVIOUS
  <1>1. /\ c \in Chats /\ pc[w] = "proc_store"
        /\ clock' = [clock EXCEPT ![c] = n]
        /\ bucket' = PutObject(bucket, UnsortedKey(c, n), [pdf |-> n, pages |-> b])
        /\ UNCHANGED <<raws, letters, dispatched>>
    BY ProcStoreHolds DEF LifeInv
  <1>2. /\ clock \in [Chats -> Nat] /\ job[w] \in Message
        /\ dispatched \in [Chats -> Seq(Seq(RawKey))]
    BY <1>1, OwnTyped DEF LifeInv, AtWork
  <1>3. Sent' = Sent /\ Archived' = Archived
    BY <1>1 DEF Sent, Archived, PageNumbers
  <1>4. raws' = raws
    BY <1>1
  <1>5. b \in Range(dispatched[c]) /\ b # <<>>
    BY <1>1 DEF LifeInv, OwnInv, MessagesOwn, WorkersOwn, BatchOK, AtWork
  <1>6. batch \in Sent[c] \ {{}}
    <2>1. batch \in Sent[c]
      BY <1>1, <1>5 DEF Range, Sent
    <2>2. b \in Seq(RawKey)
      BY <1>2 DEF Message
    <2>3. 1 \in DOMAIN b
      BY <1>5, <2>2
    <2>4. b[1].at \in batch
      BY <2>3 DEF PageNumbers, Range
    <2> QED
      BY <2>1, <2>4
  <1>7. KeysNamePdfs' /\ PdfsKept' /\ CopiesAgree'
    BY BucketAfter DEF LifeInv
  <1>8. clock'[c] = n /\ \A d \in Chats \ {c} : clock'[d] = clock[d]
    BY <1>1, <1>2
  <1>9. PagesAre(c, n, b)'
    <2> DEFINE new == UnsortedKey(c, n)
    <2>1. new \in DOMAIN bucket' /\ bucket'[new].pages = b
      BY <1>1 DEF PutObject
    <2>2. new.chat = c /\ new.name = n
      BY DEF UnsortedKey
    <2> HIDE DEF new
    <2>3. \A k \in DOMAIN bucket' : k.chat = c /\ k.name = n =>
              bucket'[k].pages = bucket'[new].pages
      BY <1>7, <2>1, <2>2 DEF CopiesAgree, PagesAre
    <2> QED
      BY <2>1, <2>3 DEF PagesAre
  <1>10. n \in 1..clock'[c]
    BY <1>1, <1>2, <1>8
  <1>11. PdfPages(c, n)' = batch
    BY <1>1, <1>7, <1>9, <1>10, NextPdfPagesAre
  <1>12. \A d \in Chats : \A m \in 1..clock[d] : PdfPages(d, m)' = PdfPages(d, m)
    BY PdfPagesStay DEF LifeInv
  <1>13. Pdfs' = [d \in Chats |-> [m \in 1..clock'[d] |-> PdfPages(d, m)']]
    BY DEF Pdfs
  <1>14. \A d \in Chats \ {c} : Pdfs'[d] = Pdfs[d]
    BY <1>8, <1>12, <1>13 DEF Pdfs
  <1>15. Pdfs'[c] = Append(Pdfs[c], batch)
    <2>1. /\ Pdfs[c] = [m \in 1..clock[c] |-> PdfPages(c, m)]
          /\ Pdfs'[c] = [m \in 1..n |-> PdfPages(c, m)']
      BY <1>1, <1>8, <1>13 DEF Pdfs
    <2>2. clock[c] \in Nat
      BY <1>1, <1>2
    <2>3. /\ Pdfs[c] = [i \in 1..clock[c] |-> Pdfs[c][i]]
          /\ Pdfs'[c] = [i \in 1..n |-> Pdfs'[c][i]]
      BY <2>1
    <2>4. \A i \in 1..clock[c] : i \in 1..n /\ Pdfs'[c][i] = Pdfs[c][i]
      BY <1>1, <1>12, <2>1, <2>2
    <2>5. n \in 1..n
      BY <2>2
    <2>6. Pdfs'[c][n] = batch
      BY <1>11, <2>1, <2>5
    <2>7. PICK f, g, m : f = Pdfs[c] /\ g = Pdfs'[c] /\ m = clock[c]
      OBVIOUS
    <2>8. /\ m \in Nat
          /\ f = [i \in 1..m |-> f[i]]
          /\ g = [i \in 1..(m + 1) |-> g[i]]
          /\ \A i \in 1..m : g[i] = f[i]
          /\ g[m + 1] = batch
      BY <2>2, <2>3, <2>4, <2>6, <2>7
    <2>9. \A i \in 1..m : i \in 1..(m + 1)
      BY <2>8
    <2> DEFINE S == {g[i] : i \in 1..(m + 1)}
    <2>10. f \in [1..m -> S] /\ g \in [1..(m + 1) -> S]
      BY <2>8, <2>9
    <2> HIDE DEF S
    <2>11. m \in Nat /\ \A i \in 1..m : g[i] = f[i]
      BY <2>8
    <2>12. g = Append(f, g[m + 1])
      BY <2>10, <2>11, OnePlaceMore, Zenon
    <2> QED
      BY <2>7, <2>8, <2>12
  <1>16. Pdfs' = [Pdfs EXCEPT ![c] = Append(@, batch)]
    <2>1. Pdfs = [d \in Chats |-> Pdfs[d]] /\ Pdfs' = [d \in Chats |-> Pdfs'[d]]
      BY <1>13 DEF Pdfs
    <2>2. PICK f, g : f = Pdfs /\ g = Pdfs'
      OBVIOUS
    <2>3. g = [f EXCEPT ![c] = Append(f[c], batch)]
      BY <1>1, <1>14, <1>15, <2>1, <2>2, OnePlaceChanged
    <2> QED
      BY <2>2, <2>3
  <1> QED
    BY <1>1, <1>3, <1>4, <1>6, <1>16, LifeSteps

\* What is archived is a PDF that is no letter yet, with the pages it has.
LEMMA SavePutArchives ==
    ASSUME LifeInv, NEW w \in Workers, SavePut(w)
    PROVE  \E c \in Chats : Life!Archive(c)
  <1> PICK c, n, pages, l :
          /\ c = job[w].chat /\ n = local[w].pdf /\ pages = local[w].pages
          /\ l = [name |-> local[w].name, pdf |-> local[w].pdf,
                  pages |-> local[w].pages]
    OBVIOUS
  <1>1. /\ c \in Chats /\ pc[w] = "save_put"
        /\ letters' = [letters EXCEPT ![c] = Append(@, l)]
        /\ UNCHANGED <<raws, bucket, clock, dispatched>>
    BY SavePutHolds DEF LifeInv
  <1>2. /\ letters \in [Chats -> Seq(Letter)] /\ l \in Letter
        /\ l.pdf = n /\ l.pages = pages
    <2>1. local[w] \in Local /\ letters \in [Chats -> Seq(Letter)]
      BY OwnTyped DEF LifeInv
    <2> QED
      BY <2>1 DEF Local, Letter
  <1>3. Sent' = Sent /\ Pdfs' = Pdfs /\ raws' = raws
    BY <1>1 DEF Sent, Pdfs, PdfPages, PageNumbers
  <1>4. n \in 1..clock[c] /\ PagesAre(c, n, pages)
    BY <1>1 DEF LifeInv, StoredInv, HeldStored, PrintedSteps, HoldingSteps,
                SavingSteps
  <1>5. n \in DOMAIN Pdfs[c] /\ Pdfs[c][n] = PageNumbers(pages)
    <2>1. PdfPages(c, n) = PageNumbers(pages)
      BY <1>1, <1>4, PdfPagesAre DEF LifeInv
    <2> QED
      BY <1>1, <1>4, <2>1 DEF Pdfs
  <1>6. \A i \in DOMAIN Archived[c] : Archived[c][i].pdf # n
    <2>1. Holds(w, c)
      BY <1>1 DEF Holds, HoldingSteps, SavingSteps
    <2>2. \A i \in DOMAIN letters[c] : letters[c][i].pdf # n
      BY <1>1, <2>1 DEF LifeInv, HolderInv, HeldIsUnsaved
    <2> QED
      BY <1>1, <2>2 DEF Archived
  <1> DEFINE a(letter) == [pdf |-> letter.pdf, pages |-> PageNumbers(letter.pages)]
  <1>7. Archived = [d \in Chats |-> [i \in DOMAIN letters[d] |-> a(letters[d][i])]]
    BY DEF Archived
  <1>8. Archived' =
            [d \in Chats |-> [i \in DOMAIN letters'[d] |-> a(letters'[d][i])]]
    BY DEF Archived, PageNumbers
  <1>9. a(l) = [pdf |-> n, pages |-> Pdfs[c][n]]
    BY <1>2, <1>5
  <1> HIDE DEF a
  <1>10. \A d \in Chats \ {c} : letters'[d] = letters[d]
    BY <1>1, <1>2
  <1>11. /\ letters[c] \in Seq(Letter) /\ letters'[c] = Append(letters[c], l)
    BY <1>1, <1>2
  <1>12. Archived'[c] = Append(Archived[c], a(l))
    <2>1. PICK f, g, m : f = Archived[c] /\ g = Archived'[c] /\ m = Len(letters[c])
      OBVIOUS
    <2>2. /\ m \in Nat
          /\ DOMAIN letters[c] = 1..m /\ DOMAIN letters'[c] = 1..(m + 1)
          /\ letters'[c][m + 1] = l
          /\ \A i \in 1..m : i \in 1..(m + 1) /\ letters'[c][i] = letters[c][i]
      <3> PICK s : s = letters[c]
        OBVIOUS
      <3>1. s \in Seq(Letter) /\ l \in Letter
        BY <1>2, <1>11
      <3>2. /\ Len(s) \in Nat /\ DOMAIN s = 1..Len(s)
            /\ DOMAIN Append(s, l) = DOMAIN s \cup {Len(s) + 1}
            /\ Append(s, l)[Len(s) + 1] = l
            /\ \A i \in DOMAIN s : Append(s, l)[i] = s[i]
        BY <3>1, ElementsOfAppend
      <3>3. 1..(m + 1) = (1..m) \cup {m + 1}
        BY <2>1, <3>2
      <3> QED
        BY <1>11, <2>1, <3>2, <3>3
    <2>3. /\ f = [i \in 1..m |-> a(letters[c][i])]
          /\ g = [i \in 1..(m + 1) |-> a(letters'[c][i])]
      BY <1>1, <1>7, <1>8, <2>1, <2>2
    <2>4. m + 1 \in 1..(m + 1)
      BY <2>2
    <2>5. m \in Nat /\ \A i \in 1..m : g[i] = f[i]
      BY <2>2, <2>3
    <2>6. g[m + 1] = a(l)
      BY <2>2, <2>3, <2>4
    <2> DEFINE S == {g[i] : i \in 1..(m + 1)}
    <2>7. f \in [1..m -> S] /\ g \in [1..(m + 1) -> S]
      <3>1. g \in [1..(m + 1) -> S]
        BY <2>3
      <3>2. \A i \in 1..m : f[i] \in S
        BY <2>2, <2>5
      <3> QED
        BY <2>3, <3>1, <3>2
    <2> HIDE DEF S
    <2>8. g = Append(f, g[m + 1])
      BY <2>5, <2>7, OnePlaceMore, Zenon
    <2> QED
      BY <2>1, <2>6, <2>8
  <1>13. Archived' = [Archived EXCEPT ![c] = Append(@, a(l))]
    <2>1. /\ Archived = [d \in Chats |-> Archived[d]]
          /\ Archived' = [d \in Chats |-> Archived'[d]]
      BY <1>7, <1>8
    <2>2. PICK f, g : f = Archived /\ g = Archived'
      OBVIOUS
    <2>3. \A d \in Chats \ {c} : g[d] = f[d]
      BY <1>7, <1>8, <1>10, <2>2
    <2>4. g = [f EXCEPT ![c] = Append(f[c], a(l))]
      BY <1>1, <1>12, <2>1, <2>2, <2>3, OnePlaceChanged
    <2> QED
      BY <2>2, <2>4
  <1> QED
    BY <1>1, <1>3, <1>5, <1>6, <1>9, <1>13, LifeSteps

\* Every step is one of LetterLife or leaves its variables alone.
LEMMA LifeStep ==
    ASSUME LifeInv, [Next]_vars, ~SameSecond, ~SharedNames
    PROVE  [Life!Next]_(Life!vars)
  <1>1. TypeOK /\ StoredInv
    BY DEF LifeInv
  <1>2. ASSUME NEW w \in Workers, PhotoStore(w)
        PROVE  Life!Next
    BY <1>1, <1>2, PhotoStorePhotographs DEF Life!Next
  <1>3. ASSUME NEW w \in Workers, DoneSend(w)
        PROVE  Life!Next
    BY <1>3, DoneSendSends DEF Life!Next
  <1>4. ASSUME NEW w \in Workers, ProcStore(w)
        PROVE  Life!Next
    BY <1>4, ProcStorePrints DEF Life!Next
  <1>5. ASSUME NEW w \in Workers, SavePut(w)
        PROVE  Life!Next
    BY <1>5, SavePutArchives DEF Life!Next
  <1>6. ASSUME ~ \E w \in Workers : \/ PhotoStore(w) \/ DoneSend(w)
                                    \/ ProcStore(w) \/ SavePut(w)
        PROVE  UNCHANGED Life!vars
    <2>1. /\ raws' = raws /\ Sent' = Sent
          /\ Pdfs' = Pdfs /\ Archived' = Archived
      BY <1>1, <1>6, RawsStay, SentStays, PdfsStay, ArchivedStays
    <2> QED
      BY <2>1 DEF Life!vars, Sent, Pdfs, Archived
  <1> QED
    BY <1>2, <1>3, <1>4, <1>5, <1>6

(***************************************************************************)
(* The upload flow implements LetterLife: whatever is raced, delivered     *)
(* again or failing half-way, pages are sent once, PDFs are made of whole  *)
(* batches and never change, and a PDF becomes one letter, made of its     *)
(* pages, as long as keys do not collide.                                  *)
(***************************************************************************)
THEOREM FlowImplementsLife ==
    ASSUME ~SameSecond, ~SharedNames
    PROVE  Spec => ImplementsLetterLife
  <1>1. Spec => []LifeInv
    <2>1. TypeOK /\ PageInv /\ OwnInv /\ HolderInv /\ StoredInv => LifeInv
      BY DEF LifeInv
    <2> QED
      BY <2>1, TypeCorrect, PagesInOnePlace, PagesAreOwn, PdfsHaveOneHolder,
         PdfsAreStored, PTL
  <1>2. LifeInv /\ [Next]_vars => [Life!Next]_(Life!vars)
    BY LifeStep
  <1> QED
    BY <1>1, <1>2, LifeInit, PTL DEF Spec, ImplementsLetterLife, Life!Spec
=============================================================================
