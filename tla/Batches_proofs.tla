--------------------------- MODULE Batches_proofs ---------------------------
(***************************************************************************)
(* Theorems about UploadFlow on what is under way: no batch is lost between*)
(* Done and the preview, what comes of a batch is whole, a Save finds the  *)
(* PDF it moves, and a session that is being processed or saved is with    *)
(* somebody who will move it on.                                           *)
(***************************************************************************)
EXTENDS LetterLife_proofs

-----------------------------------------------------------------------------
(* The batch a worker is at: BatchJobs is inductive.                       *)

PreviewSteps == {"proc_pending", "proc_preview"}

(***************************************************************************)
(* A worker at a step of handleProcessedImages works on a processed batch, *)
(* and the pages of the PDF it has built are those of the batch.           *)
(***************************************************************************)
BatchJobs ==
    \A w \in Workers : pc[w] \in PreviewSteps =>
        job[w].kind = "processed" /\ local[w].pages = job[w].pages

\* A worker gets to the preview of the batch whose PDF it has built.
LEMMA BatchJobsStep ==
    ASSUME TypeOK, OwnInv, BatchJobs, [Next]_vars
    PROVE  BatchJobs'
  <1>1. /\ pc \in [Workers -> Steps]
        /\ local \in [Workers -> Local]
    BY OwnTyped
  <1>2. ASSUME NEW w \in Workers, ProcStore(w)
        PROVE  BatchJobs'
    <2>1. /\ pc[w] = "proc_store" /\ job' = job
          /\ pc' = [pc EXCEPT ![w] = "proc_pending"]
          /\ \E second : local' = [local EXCEPT ![w].pages = job[w].pages,
                                                ![w].pdf = second]
      BY <1>2 DEF ProcStore, Goto, Advance
    <2>2. local'[w].pages = job[w].pages
      BY <1>1, <2>1 DEF Local
    <2>3. job[w].kind = "processed"
      BY <2>1 DEF OwnInv, WorkersOwn
    <2>4. \A v \in Workers \ {w} : pc'[v] = pc[v] /\ local'[v] = local[v]
      BY <1>1, <2>1
    <2> QED
      BY <2>1, <2>2, <2>3, <2>4 DEF BatchJobs
  <1>3. ASSUME NEW w \in Workers, SaveMark(w)
        PROVE  BatchJobs'
    <2>1. /\ job' = job /\ pc'[w] = "save_copy"
          /\ \A v \in Workers \ {w} : pc'[v] = pc[v] /\ local'[v] = local[v]
      BY <1>3, SaveMarkHolds
    <2> QED
      BY <2>1 DEF BatchJobs, PreviewSteps
  <1>4. CASE ~ \E w \in Workers : ProcStore(w) \/ SaveMark(w)
    <2>1. \A v \in Workers : pc'[v] \in PreviewSteps =>
              pc[v] \in PreviewSteps /\ job'[v] = job[v] /\ local'[v] = local[v]
      BY <1>4, HoldersStay DEF PreviewSteps, PrintedSteps, HoldingSteps
    <2> QED
      BY <2>1 DEF BatchJobs
  <1> QED
    BY <1>2, <1>3, <1>4

\* What the theorems below rest on.
FlowInv == TypeOK /\ PageInv /\ OwnInv /\ BatchJobs

\* It is an invariant, whatever keys collide.
LEMMA FlowIsKnown == Spec => []FlowInv
  <1>1. Init => BatchJobs
    BY DEF Init, InvocationsInit, BatchJobs, PreviewSteps
  <1>2. TypeOK /\ OwnInv /\ BatchJobs /\ [Next]_vars => BatchJobs'
    BY BatchJobsStep
  <1>3. TypeOK /\ PageInv /\ OwnInv /\ BatchJobs => FlowInv
    BY DEF FlowInv
  <1> QED
    BY <1>1, <1>2, <1>3, TypeCorrect, PagesInOnePlace, PagesAreOwn, PTL DEF Spec

-----------------------------------------------------------------------------
(* No batch is lost.                                                       *)

Shown(c, i) == \E p \in previewed[c] : p.pages = dispatched[c][i]

Kept(c, i) == OnItsWay(c, i) \/ Shown(c, i)

\* A batch that has been sent stays what it is, and what was shown is shown.
LEMMA BatchesStay ==
    ASSUME TypeOK, [Next]_vars, NEW c \in Chats, NEW i \in DOMAIN dispatched[c]
    PROVE  /\ i \in DOMAIN dispatched'[c]
           /\ dispatched'[c][i] = dispatched[c][i]
           /\ Shown(c, i) => Shown(c, i)'
  <1>1. /\ pc \in [Workers -> Steps]
        /\ local \in [Workers -> Local]
        /\ dispatched \in [Chats -> Seq(Seq(RawKey))]
        /\ previewed \in [Chats -> SUBSET Pdf]
        /\ \A w \in Workers : AtWork(w) => job[w] \in Message
    BY OwnTyped
  <1>2. ASSUME NEW w \in Workers, DoneSend(w)
        PROVE  /\ i \in DOMAIN dispatched'[c]
               /\ dispatched'[c][i] = dispatched[c][i]
               /\ previewed' = previewed
    <2> PICK d, pages : d = job[w].chat /\ pages = local[w].pages
      OBVIOUS
    <2>1. /\ dispatched' = [dispatched EXCEPT ![d] = Append(@, pages)]
          /\ previewed' = previewed /\ pages \in Seq(RawKey)
      BY <1>1, <1>2 DEF DoneSend, Local
    <2>2. CASE c = d
      <3>1. dispatched'[c] = Append(dispatched[c], pages)
        BY <1>1, <2>1, <2>2
      <3> QED
        BY <1>1, <2>1, <3>1, BatchAppended
    <2>3. CASE c # d
      BY <1>1, <2>1, <2>3
    <2> QED
      BY <2>1, <2>2, <2>3
  <1>3. ASSUME NEW w \in Workers, DoneMark(w) \/ ProcPreview(w)
        PROVE  dispatched' = dispatched /\ previewed[c] \subseteq previewed'[c]
    BY <1>1, <1>3 DEF DoneMark, ProcPreview
  <1>4. CASE ~ \E w \in Workers : DoneMark(w) \/ DoneSend(w) \/ ProcPreview(w)
    BY <1>4, HistoryStays DEF historyVars, Shown
  <1> QED
    BY <1>2, <1>3, <1>4 DEF Shown

(***************************************************************************)
(* A step of one worker that takes no message out of the queues keeps every*)
(* batch under way, if it keeps the batch that this worker carries.        *)
(***************************************************************************)
LEMMA OthersCarry ==
    ASSUME NEW c \in Chats, NEW i \in DOMAIN dispatched[c], OnItsWay(c, i),
           NEW w \in Workers,
           dispatched'[c][i] = dispatched[c][i],
           queue \cup dead \subseteq queue' \cup dead',
           \A v \in Workers \ {w} : pc'[v] = pc[v] /\ job'[v] = job[v],
           pc[w] \in BatchSteps /\ Carries(job[w], c, i) => Kept(c, i)'
    PROVE  Kept(c, i)'
  <1>1. ASSUME NEW m \in queue \cup dead, Carries(m, c, i)
        PROVE  OnItsWay(c, i)'
    <2>1. Carries(m, c, i)'
      BY <1>1 DEF Carries
    <2> QED
      BY <2>1 DEF OnItsWay
  <1>2. ASSUME NEW v \in Workers \ {w}, pc[v] \in BatchSteps,
               Carries(job[v], c, i)
        PROVE  OnItsWay(c, i)'
    <2>1. Carries(job[v], c, i)'
      BY <1>2 DEF Carries
    <2> QED
      BY <1>2, <2>1 DEF OnItsWay
  <1> QED
    BY <1>1, <1>2 DEF OnItsWay, Kept

\* An invocation that ends badly gives its message back, to a queue or to the
\* dead-letter queue.
LEMMA GiveBackCarries ==
    ASSUME TypeOK, NEW w \in Workers, pc[w] # "idle", GiveBack(w),
           dispatched' = dispatched,
           NEW c \in Chats, NEW i \in DOMAIN dispatched[c], OnItsWay(c, i)
    PROVE  Kept(c, i)'
  <1>1. /\ queue \cup dead \cup {job[w]} \subseteq queue' \cup dead'
        /\ Rest(w)
    BY DEF GiveBack, Return
  <1>2. \A v \in Workers \ {w} : pc'[v] = pc[v] /\ job'[v] = job[v]
    BY <1>1, OwnTyped DEF Rest
  <1>3. ASSUME Carries(job[w], c, i)
        PROVE  Kept(c, i)'
    <2>1. job[w] \in queue' \cup dead'
      BY <1>1
    <2>2. \A m : Carries(m, c, i) => Carries(m, c, i)'
      BY DEF Carries
    <2>3. PICK m \in queue' \cup dead' : Carries(m, c, i)'
      BY <1>3, <2>1, <2>2
    <2> QED
      BY <2>3 DEF Kept, OnItsWay
  <1> QED
    BY <1>1, <1>2, <1>3, OthersCarry

\* A delivery hands the batch of the message to the worker.
LEMMA ReceiveCarries ==
    ASSUME TypeOK, NEW w \in Workers, NEW m \in queue, Receive(w, m),
           NEW c \in Chats, NEW i \in DOMAIN dispatched[c], OnItsWay(c, i)
    PROVE  Kept(c, i)'
  <1>1. /\ pc \in [Workers -> Steps]
        /\ job \in [Workers -> Message \cup {NoMessage}]
        /\ queue \subseteq Message
    BY OwnTyped
  <1>2. /\ pc[w] = "idle" /\ queue' = queue \ {m} /\ dead' = dead
        /\ pc' = [pc EXCEPT ![w] = Entry[m.kind]]
        /\ job' = [job EXCEPT ![w] = [m EXCEPT !.receives = @ + 1]]
        /\ dispatched' = dispatched
    BY DEF Receive, Deliver, historyVars
  <1>3. \A x : Carries(x, c, i) => Carries(x, c, i)'
    BY <1>2 DEF Carries
  <1>4. CASE Carries(m, c, i)
    <2>1. /\ pc'[w] \in BatchSteps
      BY <1>1, <1>2, <1>4 DEF Carries, BatchMessages, Entry, BatchSteps
    <2>2. Carries(job'[w], c, i)
      <3>1. m \in Message
        BY <1>1
      <3>2. Carries([m EXCEPT !.receives = @ + 1], c, i)
        BY <1>4, <3>1 DEF Carries, Message
      <3> QED
        BY <1>1, <1>2, <3>2
    <2>3. Carries(job[w], c, i)'
      BY <1>2, <2>2 DEF Carries
    <2> QED
      BY <2>1, <2>3 DEF Kept, OnItsWay
  <1>5. CASE \E x \in (queue \cup dead) \ {m} : Carries(x, c, i)
    <2>1. PICK x \in (queue \cup dead) \ {m} : Carries(x, c, i)
      BY <1>5
    <2>2. x \in queue' \cup dead' /\ Carries(x, c, i)'
      BY <1>2, <1>3, <2>1
    <2> QED
      BY <2>2 DEF Kept, OnItsWay
  <1>6. CASE \E v \in Workers : pc[v] \in BatchSteps /\ Carries(job[v], c, i)
    <2>1. PICK v \in Workers : pc[v] \in BatchSteps /\ Carries(job[v], c, i)
      BY <1>6
    <2>2. v # w
      BY <1>2, <2>1 DEF BatchSteps
    <2>3. pc'[v] = pc[v] /\ job'[v] = job[v]
      BY <1>1, <1>2, <2>2
    <2>4. Carries(job[v], c, i)'
      BY <1>2, <2>1, <2>3 DEF Carries
    <2> QED
      BY <2>1, <2>3, <2>4 DEF Kept, OnItsWay
  <1> QED
    BY <1>4, <1>5, <1>6 DEF OnItsWay

(***************************************************************************)
(* Tesseract passes the batch on, handleProcessedImages works on it until  *)
(* it shows it, and no other step of a handler has a batch in hand.        *)
(***************************************************************************)
LEMMA HandlersCarry ==
    ASSUME FlowInv, [Next]_vars, NEW w \in Workers, NEW from \in Steps,
           NEW to \in Steps, Goto(w, from, to),
           queue \subseteq queue', dead' = dead,
           from \in BatchSteps => to \in BatchSteps \/ TessRun(w) \/ ProcPreview(w),
           NEW c \in Chats, NEW i \in DOMAIN dispatched[c], OnItsWay(c, i)
    PROVE  Kept(c, i)'
  <1>1. /\ pc \in [Workers -> Steps] /\ local \in [Workers -> Local]
        /\ previewed \in [Chats -> SUBSET Pdf]
    BY OwnTyped DEF FlowInv
  <1>2. /\ pc[w] = from /\ pc'[w] = to /\ job' = job
        /\ \A v \in Workers \ {w} : pc'[v] = pc[v] /\ job'[v] = job[v]
    BY <1>1 DEF Goto, Advance
  <1>3. dispatched'[c][i] = dispatched[c][i]
    BY BatchesStay DEF FlowInv
  <1>4. ASSUME from \in BatchSteps, Carries(job[w], c, i)
        PROVE  Kept(c, i)'
    <2>1. CASE to \in BatchSteps
      <3>1. Carries(job[w], c, i)'
        BY <1>2, <1>3, <1>4 DEF Carries
      <3> QED
        BY <1>2, <2>1, <3>1 DEF Kept, OnItsWay
    <2>2. CASE TessRun(w)
      <3> PICK m : m = [kind |-> "processed", chat |-> job[w].chat,
                        id |-> job[w].id, run |-> job[w].receives,
                        pages |-> job[w].pages, receives |-> 0]
        OBVIOUS
      <3>1. /\ m \in queue'
            /\ m.kind = "processed" /\ m.chat = job[w].chat
            /\ m.id = job[w].id /\ m.pages = job[w].pages
        BY <2>2 DEF TessRun
      <3>2. Carries(m, c, i)'
        BY <1>3, <1>4, <3>1 DEF Carries, BatchMessages
      <3> QED
        BY <3>1, <3>2 DEF Kept, OnItsWay
    <2>3. CASE ProcPreview(w)
      <3> PICK p : p = [pdf |-> local[w].pdf, pages |-> local[w].pages]
        OBVIOUS
      <3>1. /\ pc[w] = "proc_preview"
            /\ previewed' = [previewed EXCEPT ![job[w].chat] = @ \cup {p}]
        BY <2>3 DEF ProcPreview, Goto, Advance
      <3>2. local[w].pages = job[w].pages
        BY <3>1 DEF FlowInv, BatchJobs, PreviewSteps
      <3>3. job[w].chat = c /\ job[w].pages = dispatched[c][i]
        BY <1>4 DEF Carries
      <3>4. p \in previewed'[c] /\ p.pages = dispatched[c][i]
        BY <1>1, <3>1, <3>2, <3>3
      <3> QED
        BY <1>3, <3>4 DEF Kept, Shown
    <2> QED
      BY <1>4, <2>1, <2>2, <2>3
  <1> QED
    BY <1>2, <1>3, <1>4, OthersCarry

\* Every step keeps every batch that is under way or has been shown.
LEMMA BatchKept ==
    ASSUME FlowInv, [Next]_vars, NEW c \in Chats, NEW i \in DOMAIN dispatched[c],
           Kept(c, i)
    PROVE  Kept(c, i)'
  <1> USE DEF historyVars, userVars
  <1>0. TypeOK /\ dispatched'[c][i] = dispatched[c][i]
    BY BatchesStay DEF FlowInv
  <1>1. CASE Shown(c, i)
    BY <1>0, <1>1, BatchesStay DEF Kept
  <1> SUFFICES ASSUME OnItsWay(c, i)
               PROVE  Kept(c, i)'
    BY <1>1 DEF Kept
  <1>2. ASSUME NEW w \in Workers, Fail(w) \/ TessReject(w) \/ SaveCopyMissing(w)
        PROVE  Kept(c, i)'
    <2>1. pc[w] # "idle" /\ GiveBack(w) /\ dispatched' = dispatched
      BY <1>2 DEF Fail, TessReject, SaveCopyMissing
    <2> QED
      BY <1>0, <2>1, GiveBackCarries
  <1>3. ASSUME NEW w \in Workers, Finish(w) \/ SaveClearFails(w)
        PROVE  Kept(c, i)'
    <2>1. /\ pc[w] \in {"finish", "save_clear"} /\ queue' = queue /\ dead' = dead
          /\ \A v \in Workers \ {w} : pc'[v] = pc[v] /\ job'[v] = job[v]
      BY <1>0, <1>3, OwnTyped DEF Finish, SaveClearFails, Rest
    <2>2. pc[w] \notin BatchSteps
      BY <2>1 DEF BatchSteps
    <2> QED
      BY <1>0, <2>1, <2>2, OthersCarry
  <1>4. ASSUME NEW w \in Workers, NEW from \in Steps \ BatchSteps, NEW to \in Steps,
               Goto(w, from, to), queue \subseteq queue', dead' = dead
        PROVE  Kept(c, i)'
    BY <1>4, HandlersCarry
  <1>5. ASSUME NEW w \in Workers,
               \/ PhotoStore(w) \/ PhotoAppend(w) \/ PhotoAck(w)
               \/ DoneEmpty(w) \/ DoneGet(w) \/ DoneMark(w) \/ DoneAlready(w)
               \/ DoneSend(w) \/ ClearSession(w)
        PROVE  Kept(c, i)'
    <2>1. \E from \in Steps \ BatchSteps, to \in Steps : Goto(w, from, to)
      BY <1>5 DEF PhotoStore, PhotoAppend, PhotoAck, DoneEmpty, DoneGet,
                  DoneMark, DoneAlready, DoneSend, ClearSession, Steps, BatchSteps
    <2>2. queue \subseteq queue' /\ dead' = dead
      BY <1>5 DEF PhotoStore, PhotoAppend, PhotoAck, DoneEmpty, DoneGet,
                  DoneMark, DoneAlready, DoneSend, ClearSession
    <2> QED
      BY <1>4, <2>1, <2>2
  <1>6. ASSUME NEW w \in Workers,
               \/ SaveMark(w) \/ SaveNothing(w) \/ SaveCopy(w) \/ SaveDelete(w)
               \/ SavePut(w) \/ SaveSchedule(w) \/ SaveClear(w)
        PROVE  Kept(c, i)'
    <2>1. \E from \in Steps \ BatchSteps, to \in Steps : Goto(w, from, to)
      BY <1>6 DEF SaveMark, SaveNothing, SaveCopy, SaveDelete, SavePut,
                  SaveSchedule, SaveClear, Steps, BatchSteps
    <2>2. queue \subseteq queue' /\ dead' = dead
      BY <1>6 DEF SaveMark, SaveNothing, SaveCopy, SaveDelete, SavePut,
                  SaveSchedule, SaveClear
    <2> QED
      BY <1>4, <2>1, <2>2
  <1>7. ASSUME NEW w \in Workers,
               TessRun(w) \/ ProcStore(w) \/ ProcPending(w) \/ ProcPreview(w)
        PROVE  Kept(c, i)'
    <2>1. \E from \in Steps, to \in Steps :
              /\ Goto(w, from, to)
              /\ to \in BatchSteps \/ TessRun(w) \/ ProcPreview(w)
      BY <1>7 DEF TessRun, ProcStore, ProcPending, ProcPreview, Steps, BatchSteps
    <2>2. queue \subseteq queue' /\ dead' = dead
      BY <1>7 DEF TessRun, ProcStore, ProcPending, ProcPreview
    <2> QED
      BY <2>1, <2>2, HandlersCarry
  <1>8. ASSUME NEW w \in Workers, NEW m \in queue, Receive(w, m)
        PROVE  Kept(c, i)'
    BY <1>0, <1>8, ReceiveCarries
  <1>9. ASSUME queue \subseteq queue', UNCHANGED <<dead, pc, job>>
        PROVE  Kept(c, i)'
    <2>1. \A m : Carries(m, c, i) => Carries(m, c, i)'
      BY <1>0 DEF Carries
    <2>2. \A v \in Workers : Carries(job[v], c, i) => Carries(job[v], c, i)'
      BY <1>0, <1>9 DEF Carries
    <2> QED
      BY <1>9, <2>1, <2>2 DEF OnItsWay, Kept
  <1>10. ASSUME NEW d \in Chats,
                \/ PostPhoto(d) \/ Expire(d) \/ Reap(d)
                \/ \E kind \in TapKinds : PostTap(d, kind)
         PROVE  Kept(c, i)'
    BY <1>9, <1>10 DEF PostPhoto, PostTap, Post, Expire, Reap
  <1>11. ASSUME UNCHANGED vars
         PROVE  Kept(c, i)'
    BY <1>9, <1>11 DEF vars
  <1> QED
    BY <1>2, <1>3, <1>5, <1>6, <1>7, <1>8, <1>10, <1>11 DEF Next, WorkerStep

\* A batch is new when handleDone sends it: then it is in its message.
LEMMA NewBatchKept ==
    ASSUME FlowInv, [Next]_vars, NEW c \in Chats, NEW i \in DOMAIN dispatched'[c],
           i \notin DOMAIN dispatched[c]
    PROVE  Kept(c, i)'
  <1>1. /\ local \in [Workers -> Local]
        /\ dispatched \in [Chats -> Seq(Seq(RawKey))]
        /\ \A w \in Workers : AtWork(w) => job[w] \in Message
    BY OwnTyped DEF FlowInv
  <1>2. PICK w \in Workers : DoneSend(w)
    <2>1. ASSUME NEW w \in Workers, DoneMark(w) \/ ProcPreview(w)
          PROVE  dispatched' = dispatched
      BY <2>1 DEF DoneMark, ProcPreview
    <2> QED
      BY <2>1, HistoryStays DEF historyVars
  <1> PICK d, pages : d = job[w].chat /\ pages = local[w].pages
    OBVIOUS
  <1> PICK m : m = [kind |-> "images", chat |-> d, id |-> Len(dispatched[d]) + 1,
                    run |-> 0, pages |-> pages, receives |-> 0]
    OBVIOUS
  <1>3. /\ queue' = queue \cup {m}
        /\ dispatched' = [dispatched EXCEPT ![d] = Append(@, pages)]
        /\ pages \in Seq(RawKey)
    BY <1>1, <1>2 DEF DoneSend, Local
  <1>4. c = d /\ dispatched'[c] = Append(dispatched[c], pages)
    BY <1>1, <1>3
  <1>5. /\ dispatched[c] \in Seq(Seq(RawKey))
        /\ i = Len(dispatched[c]) + 1 /\ dispatched'[c][i] = pages
    BY <1>1, <1>3, <1>4, BatchAppended
  <1>6. Carries(m, c, i)'
    BY <1>4, <1>5 DEF Carries, BatchMessages
  <1> QED
    BY <1>3, <1>6 DEF Kept, OnItsWay

(***************************************************************************)
(* A batch that Done has sent never disappears between the queues and the  *)
(* handlers, whatever fails, is delivered again or overtakes it: until it  *)
(* is shown, a message or a worker has it, if only in the dead-letter queue.*)
(***************************************************************************)
THEOREM BatchesAreKept == Spec => []NoBatchLost
  <1>1. NoBatchLost <=> \A c \in Chats : \A i \in DOMAIN dispatched[c] : Kept(c, i)
    BY DEF NoBatchLost, Kept, Shown
  <1>2. Init => NoBatchLost
    <2> SUFFICES ASSUME Init, NEW c \in Chats
                 PROVE  DOMAIN dispatched[c] = {}
      BY DEF NoBatchLost
    <2> QED
      BY DEF Init
  <1>3. FlowInv /\ NoBatchLost /\ [Next]_vars => NoBatchLost'
    <2> SUFFICES ASSUME FlowInv, NoBatchLost, [Next]_vars,
                        NEW c \in Chats, NEW i \in DOMAIN dispatched'[c]
                 PROVE  Kept(c, i)'
      BY DEF NoBatchLost, Kept, Shown
    <2>1. CASE i \in DOMAIN dispatched[c]
      BY <1>1, <2>1, BatchKept
    <2>2. CASE i \notin DOMAIN dispatched[c]
      BY <2>2, NewBatchKept
    <2> QED
      BY <2>1, <2>2
  <1> QED
    BY <1>2, <1>3, FlowIsKnown, PTL DEF Spec

-----------------------------------------------------------------------------
(* Letters are whole: WholeInv is inductive.                               *)

\* A batch of a chat, as Done has sent it.
IsBatch(c, pages) == pages \in Range(dispatched[c])

DocumentsWhole == \A k \in DOMAIN bucket : IsBatch(k.chat, bucket[k].pages)

LettersWhole ==
    \A c \in Chats : \A i \in DOMAIN letters[c] : IsBatch(c, letters[c][i].pages)

HeldWhole ==
    \A w \in Workers : pc[w] \in PrintedSteps => IsBatch(job[w].chat, local[w].pages)

PendingWhole ==
    \A c \in Chats : Pending(c) => IsBatch(c, session[c].class.pages)

WholeInv == DocumentsWhole /\ LettersWhole /\ HeldWhole /\ PendingWhole

\* What is a batch stays one.
LEMMA BatchesGrow ==
    ASSUME TypeOK, [Next]_vars, NEW c \in Chats
    PROVE  Range(dispatched[c]) \subseteq Range(dispatched'[c])
  <1> SUFFICES ASSUME NEW i \in DOMAIN dispatched[c]
               PROVE  dispatched[c][i] \in Range(dispatched'[c])
    BY DEF Range
  <1>1. i \in DOMAIN dispatched'[c] /\ dispatched'[c][i] = dispatched[c][i]
    BY BatchesStay
  <1> QED
    BY <1>1 DEF Range

\* What a processed message carries is a batch.
LEMMA ProcessedIsBatch ==
    ASSUME FlowInv, NEW w \in Workers, pc[w] = "proc_store"
    PROVE  job[w].chat \in Chats /\ IsBatch(job[w].chat, job[w].pages)
  <1>1. AtWork(w) /\ job[w].kind = "processed"
    BY DEF AtWork, FlowInv, OwnInv, WorkersOwn
  <1>2. BatchOK(job[w])
    BY <1>1 DEF FlowInv, OwnInv, MessagesOwn
  <1>3. job[w].chat \in Chats
    BY <1>1, OwnTyped DEF FlowInv, Message
  <1> QED
    BY <1>1, <1>2, <1>3 DEF BatchOK, IsBatch

\* The pages in a worker's hands are those of the PDF it built or took over.
LEMMA HeldWholeStep ==
    ASSUME FlowInv, WholeInv, [Next]_vars
    PROVE  HeldWhole'
  <1>0. TypeOK
    BY DEF FlowInv
  <1>1. /\ pc \in [Workers -> Steps]
        /\ local \in [Workers -> Local]
        /\ \A w \in Workers : AtWork(w) => job[w] \in Message
    BY <1>0, OwnTyped
  <1>2. ASSUME NEW v \in Workers, pc[v] \in PrintedSteps
        PROVE  IsBatch(job[v].chat, local[v].pages) /\ job[v].chat \in Chats
    <2>1. AtWork(v)
      BY <1>2 DEF AtWork, PrintedSteps, HoldingSteps, SavingSteps
    <2> QED
      BY <1>1, <1>2, <2>1 DEF WholeInv, HeldWhole, Message
  <1>3. ASSUME NEW w \in Workers, job' = job, job[w].chat \in Chats,
               \A v \in Workers \ {w} : pc'[v] = pc[v] /\ local'[v] = local[v],
               IsBatch(job[w].chat, local'[w].pages)
        PROVE  HeldWhole'
    <2> SUFFICES ASSUME NEW v \in Workers, pc'[v] \in PrintedSteps
                 PROVE  local'[v].pages \in Range(dispatched'[job'[v].chat])
      BY DEF HeldWhole, IsBatch
    <2>1. /\ job[v].chat \in Chats
          /\ local'[v].pages \in Range(dispatched[job[v].chat])
      BY <1>2, <1>3 DEF IsBatch
    <2> QED
      BY <1>0, <1>3, <2>1, BatchesGrow
  <1>4. ASSUME NEW w \in Workers, ProcStore(w)
        PROVE  HeldWhole'
    <2>1. /\ pc[w] = "proc_store" /\ job' = job
          /\ pc' = [pc EXCEPT ![w] = "proc_pending"]
          /\ \E second : local' = [local EXCEPT ![w].pages = job[w].pages,
                                                ![w].pdf = second]
      BY <1>4 DEF ProcStore, Goto, Advance
    <2>2. local'[w].pages = job[w].pages
      BY <1>1, <2>1 DEF Local
    <2>3. \A v \in Workers \ {w} : pc'[v] = pc[v] /\ local'[v] = local[v]
      BY <1>1, <2>1
    <2> QED
      BY <1>3, <2>1, <2>2, <2>3, ProcessedIsBatch
  <1>5. ASSUME NEW w \in Workers, SaveMark(w)
        PROVE  HeldWhole'
    <2> PICK c : c = job[w].chat
      OBVIOUS
    <2>1. /\ c \in Chats /\ Pending(c) /\ job' = job
          /\ local'[w].pages = session[c].class.pages
          /\ \A v \in Workers \ {w} : pc'[v] = pc[v] /\ local'[v] = local[v]
      BY <1>0, <1>5, SaveMarkHolds
    <2>2. IsBatch(c, local'[w].pages)
      BY <2>1 DEF WholeInv, PendingWhole
    <2> QED
      BY <1>3, <2>1, <2>2
  <1>6. CASE ~ \E w \in Workers : ProcStore(w) \/ SaveMark(w)
    <2> SUFFICES ASSUME NEW v \in Workers, pc'[v] \in PrintedSteps
                 PROVE  local'[v].pages \in Range(dispatched'[job'[v].chat])
      BY DEF HeldWhole, IsBatch
    <2>1. pc[v] \in PrintedSteps /\ job'[v] = job[v] /\ local'[v] = local[v]
      BY <1>0, <1>6, HoldersStay
    <2>2. /\ job[v].chat \in Chats
          /\ local[v].pages \in Range(dispatched[job[v].chat])
      BY <1>2, <2>1 DEF IsBatch
    <2> QED
      BY <1>0, <2>1, <2>2, BatchesGrow
  <1> QED
    BY <1>4, <1>5, <1>6

\* An object is stored for a batch, or is a copy of one of the same chat's.
LEMMA DocumentsWholeStep ==
    ASSUME FlowInv, WholeInv, [Next]_vars
    PROVE  DocumentsWhole'
  <1>0. TypeOK
    BY DEF FlowInv
  <1>1. /\ DOMAIN bucket \subseteq ObjectKey
        /\ \A w \in Workers : AtWork(w) => job[w] \in Message
    BY <1>0, OwnTyped
  <1>2. \A k \in DOMAIN bucket :
            bucket[k].pages \in Range(dispatched'[k.chat])
    <2> SUFFICES ASSUME NEW k \in DOMAIN bucket
                 PROVE  bucket[k].pages \in Range(dispatched'[k.chat])
      OBVIOUS
    <2>1. k.chat \in Chats /\ bucket[k].pages \in Range(dispatched[k.chat])
      BY <1>1 DEF ObjectKey, WholeInv, DocumentsWhole, IsBatch
    <2> QED
      BY <1>0, <2>1, BatchesGrow
  <1>3. ASSUME NEW key, NEW content, bucket' = PutObject(bucket, key, content),
               content.pages \in Range(dispatched'[key.chat])
        PROVE  DocumentsWhole'
    BY <1>2, <1>3 DEF DocumentsWhole, IsBatch, PutObject
  <1>4. ASSUME NEW w \in Workers, ProcStore(w)
        PROVE  DocumentsWhole'
    <2>1. PICK second :
              bucket' = PutObject(bucket, UnsortedKey(job[w].chat, second),
                                  [pdf |-> second, pages |-> job[w].pages])
      BY <1>4 DEF ProcStore
    <2>2. job[w].pages \in Range(dispatched'[job[w].chat])
      <3>1. /\ job[w].chat \in Chats
            /\ job[w].pages \in Range(dispatched[job[w].chat])
        BY <1>4, ProcessedIsBatch DEF ProcStore, Goto, Advance, IsBatch
      <3> QED
        BY <1>0, <3>1, BatchesGrow
    <2> PICK key, content : /\ key = UnsortedKey(job[w].chat, second)
                            /\ content = [pdf |-> second, pages |-> job[w].pages]
      OBVIOUS
    <2>3. key.chat = job[w].chat /\ content.pages = job[w].pages
      BY DEF UnsortedKey
    <2> QED
      BY <1>3, <2>1, <2>2, <2>3
  <1>5. ASSUME NEW w \in Workers, SaveCopy(w)
        PROVE  DocumentsWhole'
    <2> PICK from, to : /\ from = UnsortedKey(job[w].chat, local[w].pdf)
                        /\ to = FinalKey(job[w].chat, local[w].name)
      OBVIOUS
    <2>1. from \in DOMAIN bucket /\ bucket' = PutObject(bucket, to, bucket[from])
      BY <1>5 DEF SaveCopy, CanCopy, CopyObject
    <2>2. from.chat = to.chat
      BY DEF UnsortedKey, FinalKey
    <2> QED
      BY <1>2, <1>3, <2>1, <2>2
  <1>6. ASSUME NEW w \in Workers, SaveDelete(w) \/ SavePut(w)
        PROVE  DocumentsWhole'
    <2>1. \A k \in DOMAIN bucket' : k \in DOMAIN bucket /\ bucket'[k] = bucket[k]
      BY <1>6 DEF SaveDelete, SavePut, DeleteObject
    <2> QED
      BY <1>2, <2>1 DEF DocumentsWhole, IsBatch
  <1>7. CASE ~ \E w \in Workers : \/ ProcStore(w) \/ SaveCopy(w)
                                  \/ SaveDelete(w) \/ SavePut(w)
    <2>1. bucket' = bucket
      BY <1>7, StoresStay
    <2> QED
      BY <1>2, <2>1 DEF DocumentsWhole, IsBatch
  <1> QED
    BY <1>4, <1>5, <1>6, <1>7

\* A letter is stored with the pages of the PDF that was saved.
LEMMA LettersWholeStep ==
    ASSUME FlowInv, WholeInv, [Next]_vars
    PROVE  LettersWhole'
  <1>0. TypeOK
    BY DEF FlowInv
  <1> SUFFICES ASSUME NEW c \in Chats, NEW i \in DOMAIN letters'[c]
               PROVE  letters'[c][i].pages \in Range(dispatched'[c])
    BY DEF LettersWhole, IsBatch
  <1>1. Range(dispatched[c]) \subseteq Range(dispatched'[c])
    BY <1>0, BatchesGrow
  <1>2. \A j \in DOMAIN letters[c] : letters[c][j].pages \in Range(dispatched[c])
    BY DEF WholeInv, LettersWhole, IsBatch
  <1>3. ASSUME NEW w \in Workers, SavePut(w)
        PROVE  letters'[c][i].pages \in Range(dispatched'[c])
    <2> PICK l : l = [name |-> local[w].name, pdf |-> local[w].pdf,
                      pages |-> local[w].pages]
      OBVIOUS
    <2>1. /\ pc[w] = "save_put"
          /\ \/ i \in DOMAIN letters[c] /\ letters'[c][i] = letters[c][i]
             \/ c = job[w].chat /\ letters'[c][i] = l
      BY <1>0, <1>3, SavePutHolds
    <2>2. local[w].pages \in Range(dispatched[job[w].chat])
      BY <2>1 DEF WholeInv, HeldWhole, IsBatch, PrintedSteps, HoldingSteps,
                  SavingSteps
    <2> QED
      BY <1>1, <1>2, <2>1, <2>2
  <1>4. ASSUME NEW w \in Workers, ProcStore(w) \/ SaveCopy(w) \/ SaveDelete(w)
        PROVE  letters' = letters
    BY <1>4 DEF ProcStore, SaveCopy, SaveDelete
  <1> QED
    BY <1>1, <1>2, <1>3, <1>4, StoresStay

\* A session awaits confirmation with the pages of the PDF it was given.
LEMMA PendingWholeStep ==
    ASSUME FlowInv, WholeInv, [Next]_vars
    PROVE  PendingWhole'
  <1>0. TypeOK
    BY DEF FlowInv
  <1> SUFFICES ASSUME NEW c \in Chats, Pending(c)'
               PROVE  session'[c].class.pages \in Range(dispatched'[c])
    BY DEF PendingWhole, IsBatch
  <1>1. Range(dispatched[c]) \subseteq Range(dispatched'[c])
    BY <1>0, BatchesGrow
  <1>2. Pending(c) => session[c].class.pages \in Range(dispatched[c])
    BY DEF WholeInv, PendingWhole, IsBatch
  <1>3. ASSUME NEW w \in Workers, ProcPending(w)
        PROVE  session'[c].class.pages \in Range(dispatched'[c])
    <2> PICK d : d = job[w].chat
      OBVIOUS
    <2>1. /\ pc[w] = "proc_pending"
          /\ session'[d].class.pages = local[w].pages
          /\ \A e \in Chats \ {d} : session'[e] = session[e]
      BY <1>0, <1>3, ProcPendingHolds
    <2>2. local[w].pages \in Range(dispatched[d])
      BY <2>1 DEF WholeInv, HeldWhole, IsBatch, PrintedSteps, HoldingSteps
    <2> QED
      BY <1>1, <1>2, <2>1, <2>2 DEF Pending
  <1>4. CASE ~ \E w \in Workers : ProcPending(w)
    <2>1. Pending(c) /\ session'[c].class = session[c].class
      BY <1>0, <1>4, PendingStays
    <2> QED
      BY <1>1, <1>2, <2>1
  <1> QED
    BY <1>3, <1>4

(***************************************************************************)
(* Every PDF and every letter is one batch of its chat, all of it, and two *)
(* letters with a page in common are of the same batch: also when keys and *)
(* names collide, sessions expire and deliveries are repeated.             *)
(***************************************************************************)
THEOREM LettersAreWhole == Spec => []WholeLetters
  <1>1. Init => WholeInv
    BY DEF Init, InvocationsInit, WholeInv, DocumentsWhole, LettersWhole,
           HeldWhole, PendingWhole, Pending, NoItem, PrintedSteps, HoldingSteps,
           SavingSteps
  <1>2. FlowInv /\ WholeInv /\ [Next]_vars => WholeInv'
    BY HeldWholeStep, DocumentsWholeStep, LettersWholeStep, PendingWholeStep
    DEF WholeInv
  <1>3. FlowInv /\ WholeInv => WholeLetters
    <2> SUFFICES ASSUME FlowInv, WholeInv, NEW c \in Chats
                 PROVE  LET batches == Range(dispatched[c]) IN
                        /\ \A k \in DOMAIN bucket : k.chat = c =>
                               bucket[k].pages \in batches
                        /\ \A l \in Range(letters[c]) : l.pages \in batches
                        /\ \A k, l \in Range(letters[c]) :
                               Range(k.pages) \cap Range(l.pages) # {} =>
                                   k.pages = l.pages
      BY DEF WholeLetters
    <2>1. \A k \in DOMAIN bucket : k.chat = c => bucket[k].pages \in Range(dispatched[c])
      BY DEF WholeInv, DocumentsWhole, IsBatch
    <2>2. \A l \in Range(letters[c]) : l.pages \in Range(dispatched[c])
      BY DEF WholeInv, LettersWhole, IsBatch, Range
    <2>3. ASSUME NEW a \in Range(dispatched[c]), NEW b \in Range(dispatched[c]),
                 Range(a) \cap Range(b) # {}
          PROVE  a = b
      <3>1. PICK i, j \in DOMAIN dispatched[c] :
                a = dispatched[c][i] /\ b = dispatched[c][j]
        BY DEF Range
      <3> QED
        BY <2>3, <3>1 DEF FlowInv, PageInv, NoDoubleDispatch
    <2> QED
      BY <2>1, <2>2, <2>3
  <1> QED
    BY <1>1, <1>2, <1>3, FlowIsKnown, PTL DEF Spec

-----------------------------------------------------------------------------
(* A Save finds its PDF: PreviewsThere is inductive where PDFs have keys of *)
(* their own, whatever names the LLM chooses.                               *)

MovingSteps == {"proc_pending", "save_copy"}

(***************************************************************************)
(* The PDF that a session or a worker is going to need under its first key *)
(* is there.                                                               *)
(***************************************************************************)
PreviewsThere ==
    /\ \A c \in Chats : Pending(c) =>
           UnsortedKey(c, session[c].pdf) \in DOMAIN bucket
    /\ \A w \in Workers : pc[w] \in MovingSteps =>
           UnsortedKey(job[w].chat, local[w].pdf) \in DOMAIN bucket

\* A preview goes only with the Save that holds it.
LEMMA PreviewsStay ==
    ASSUME [Next]_vars, NEW k \in DOMAIN bucket
    PROVE  \/ k \in DOMAIN bucket'
           \/ \E w \in Workers : /\ SaveDelete(w)
                                 /\ k = UnsortedKey(job[w].chat, local[w].pdf)
  <1>1. ASSUME NEW w \in Workers, ProcStore(w) \/ SaveCopy(w)
        PROVE  k \in DOMAIN bucket'
    BY <1>1 DEF ProcStore, SaveCopy, CopyObject, PutObject
  <1>2. ASSUME NEW w \in Workers, SaveDelete(w)
        PROVE  \/ k \in DOMAIN bucket'
               \/ k = UnsortedKey(job[w].chat, local[w].pdf)
    <2>1. DOMAIN bucket' = DOMAIN bucket \ {UnsortedKey(job[w].chat, local[w].pdf)}
      BY <1>2 DEF SaveDelete, DeleteObject
    <2> QED
      BY <2>1
  <1>3. ASSUME NEW w \in Workers, SavePut(w)
        PROVE  bucket' = bucket
    BY <1>3 DEF SavePut
  <1> QED
    BY <1>1, <1>2, <1>3, StoresStay

\* Nobody moves the PDF that somebody else holds or that awaits confirmation.
LEMMA NobodyMovesIt ==
    ASSUME TypeOK, HolderInv, [Next]_vars, NEW c \in Chats, NEW n,
           UnsortedKey(c, n) \in DOMAIN bucket,
           \/ Pending(c) /\ session[c].pdf = n
           \/ \E v \in Workers : /\ Holds(v, c) /\ local[v].pdf = n
                                 /\ ~SaveDelete(v)
    PROVE  UnsortedKey(c, n) \in DOMAIN bucket'
  <1> SUFFICES ASSUME NEW w \in Workers, SaveDelete(w),
                      UnsortedKey(c, n) = UnsortedKey(job[w].chat, local[w].pdf)
               PROVE  FALSE
    BY PreviewsStay
  <1>1. job[w].chat = c /\ local[w].pdf = n
    BY DEF UnsortedKey
  <1>2. Holds(w, c)
    BY <1>1 DEF SaveDelete, Goto, Advance, Holds, HoldingSteps, SavingSteps
  <1> QED
    BY <1>1, <1>2 DEF HolderInv, HoldersDiffer, PendingIsFree

\* Whoever gets a PDF finds it there, and it stays until it is moved.
LEMMA PreviewsThereStep ==
    ASSUME TypeOK, HolderInv, PreviewsThere, [Next]_vars, ~SameSecond
    PROVE  PreviewsThere'
  <1>1. \A w \in Workers : pc[w] \in MovingSteps =>
            /\ job[w].chat \in Chats
            /\ Holds(w, job[w].chat)
            /\ UnsortedKey(job[w].chat, local[w].pdf) \in DOMAIN bucket
            /\ ~SaveDelete(w)
    BY OwnTyped DEF MovingSteps, AtWork, Message, Holds, HoldingSteps,
                    SavingSteps, PreviewsThere, SaveDelete, Goto, Advance
  <1>2. ASSUME NEW v \in Workers, pc[v] \in MovingSteps,
               job'[v] = job[v], local'[v] = local[v]
        PROVE  UnsortedKey(job'[v].chat, local'[v].pdf) \in DOMAIN bucket'
    BY <1>1, <1>2, NobodyMovesIt
  <1>3. ASSUME NEW c \in Chats, Pending(c)
        PROVE  UnsortedKey(c, session[c].pdf) \in DOMAIN bucket'
    BY <1>3, NobodyMovesIt DEF PreviewsThere
  <1>4. ASSUME NEW c \in Chats, Pending(c)'
        PROVE  UnsortedKey(c, session'[c].pdf) \in DOMAIN bucket'
    <2>1. CASE \E w \in Workers : ProcPending(w)
      <3> PICK w \in Workers : ProcPending(w)
        BY <2>1
      <3>1. /\ pc[w] = "proc_pending" /\ bucket' = bucket
            /\ session'[job[w].chat].pdf = local[w].pdf
            /\ \A d \in Chats \ {job[w].chat} : session'[d] = session[d]
        BY ProcPendingHolds
      <3>2. UnsortedKey(job[w].chat, local[w].pdf) \in DOMAIN bucket
        BY <1>1, <3>1 DEF MovingSteps
      <3> QED
        BY <1>3, <1>4, <3>1, <3>2 DEF Pending
    <2>2. CASE ~ \E w \in Workers : ProcPending(w)
      BY <1>3, <1>4, <2>2, PendingStays
    <2> QED
      BY <2>1, <2>2
  <1>5. ASSUME NEW w \in Workers, job' = job,
               \A v \in Workers \ {w} : pc'[v] = pc[v] /\ local'[v] = local[v],
               UnsortedKey(job[w].chat, local'[w].pdf) \in DOMAIN bucket'
        PROVE  \A v \in Workers : pc'[v] \in MovingSteps =>
                   UnsortedKey(job'[v].chat, local'[v].pdf) \in DOMAIN bucket'
    BY <1>2, <1>5
  <1>6. \A v \in Workers : pc'[v] \in MovingSteps =>
            UnsortedKey(job'[v].chat, local'[v].pdf) \in DOMAIN bucket'
    <2>1. ASSUME NEW w \in Workers, ProcStore(w)
          PROVE  /\ job' = job
                 /\ \A v \in Workers \ {w} : pc'[v] = pc[v] /\ local'[v] = local[v]
                 /\ UnsortedKey(job[w].chat, local'[w].pdf) \in DOMAIN bucket'
      BY <2>1, ProcStoreHolds DEF PutObject
    <2>2. ASSUME NEW w \in Workers, SaveMark(w)
          PROVE  /\ job' = job
                 /\ \A v \in Workers \ {w} : pc'[v] = pc[v] /\ local'[v] = local[v]
                 /\ UnsortedKey(job[w].chat, local'[w].pdf) \in DOMAIN bucket'
      BY <1>3, <2>2, SaveMarkHolds
    <2>3. CASE ~ \E w \in Workers : ProcStore(w) \/ SaveMark(w)
      <3>1. ASSUME NEW v \in Workers, pc'[v] \in MovingSteps
            PROVE  pc[v] \in MovingSteps /\ job'[v] = job[v] /\ local'[v] = local[v]
        <4>1. /\ pc'[v] \in PrintedSteps
          BY <3>1 DEF MovingSteps, PrintedSteps, HoldingSteps, SavingSteps
        <4>2. job'[v] = job[v] /\ local'[v] = local[v]
          BY <2>3, <4>1, HoldersStay
        <4>3. CASE pc'[v] = "proc_pending"
          BY <2>3, <4>2, <4>3, HoldersStay DEF MovingSteps
        <4>4. CASE pc'[v] = "save_copy"
          BY <2>3, <4>2, <4>4, HoldersStay DEF MovingSteps
        <4> QED
          BY <3>1, <4>3, <4>4 DEF MovingSteps
      <3> QED
        BY <1>2, <3>1
    <2> QED
      BY <1>5, <2>1, <2>2, <2>3
  <1> QED
    BY <1>4, <1>6 DEF PreviewsThere, Pending, UnsortedKey, MovingSteps

(***************************************************************************)
(* However many previews follow one another, are saved or delivered again, *)
(* the Save that MarkSaving lets through has a PDF to move: handleConfirm- *)
(* Save fails on a missing PDF only if two PDFs are built in one second.   *)
(***************************************************************************)
THEOREM SavesFindPdfs == ASSUME ~SameSecond PROVE Spec => []SaveFindsItsPdf
  <1>1. Init => PreviewsThere
    BY DEF Init, InvocationsInit, PreviewsThere, Pending, NoItem, MovingSteps
  <1>2. TypeOK /\ HolderInv /\ PreviewsThere /\ [Next]_vars => PreviewsThere'
    BY PreviewsThereStep
  <1>3. PreviewsThere => SaveFindsItsPdf
    BY DEF PreviewsThere, SaveFindsItsPdf, MovingSteps, CanCopy
  <1> QED
    BY <1>1, <1>2, <1>3, TypeCorrect, PdfsHaveOneHolder, PTL DEF Spec

-----------------------------------------------------------------------------
(* Whoever is busy is moving: BusyIsMoving is inductive, given that a Save *)
(* finds its PDF.                                                          *)

\* A status comes from the call that sets it, and goes with the next one.
LEMMA StatusMoves ==
    ASSUME TypeOK, [Next]_vars, NEW c \in Chats
    PROVE  /\ session'[c].status = "awaiting_processing" =>
                  \/ session[c].status = "awaiting_processing"
                  \/ \E w \in Workers : DoneMark(w) /\ job[w].chat = c
           /\ session'[c].status = "saving" =>
                  \/ session[c].status = "saving"
                  \/ \E w \in Workers : SaveMark(w) /\ job[w].chat = c
           /\ \A w \in Workers : ProcPending(w) /\ job[w].chat = c =>
                  session'[c].status = "pending_confirmation"
           /\ \A w \in Workers : SaveClear(w) /\ job[w].chat = c =>
                  session'[c].status = "none"
  <1>0. session \in [Chats -> Item]
    BY OwnTyped
  <1>1. \A s \in Item : /\ MarkAwaitingProcessing(s).status = "awaiting_processing"
                        /\ MarkSaving(s).status = "saving"
                        /\ Lapse(s).status = s.status
                        /\ \A k : AppendRawKey(s, k).status = s.status
                        /\ \A n, cl : SetPendingConfirmation(s, n, cl).status
                                          = "pending_confirmation"
    BY DEF MarkAwaitingProcessing, MarkSaving, Lapse, AppendRawKey,
           SetPendingConfirmation, Item
  <1>2. ASSUME NEW w \in Workers, ProcPending(w), job[w].chat = c
        PROVE  session'[c].status = "pending_confirmation"
    <2>1. PICK n, cl : session' = [session EXCEPT
                           ![c] = SetPendingConfirmation(@, n, cl)]
      BY <1>2 DEF ProcPending
    <2> QED
      BY <1>0, <1>1, <2>1
  <1>3. ASSUME NEW w \in Workers, SaveClear(w), job[w].chat = c
        PROVE  session'[c].status = "none"
    BY <1>0, <1>3 DEF SaveClear, Clear, NoItem
  <1> DEFINE Goal ==
       /\ session'[c].status = "awaiting_processing" =>
              \/ session[c].status = "awaiting_processing"
              \/ \E w \in Workers : DoneMark(w) /\ job[w].chat = c
       /\ session'[c].status = "saving" =>
              \/ session[c].status = "saving"
              \/ \E w \in Workers : SaveMark(w) /\ job[w].chat = c
  <1>4. ASSUME \/ session'[c].status = session[c].status
               \/ session'[c].status \in {"none", "pending_confirmation"}
        PROVE  Goal
    BY <1>4
  <1>5. ASSUME NEW w \in Workers, DoneMark(w) \/ SaveMark(w)
        PROVE  Goal
    <2>1. CASE job[w].chat = c
      <3>1. /\ DoneMark(w) => session'[c] = MarkAwaitingProcessing(session[c])
            /\ SaveMark(w) => session'[c] = MarkSaving(session[c])
        BY <1>0, <2>1 DEF DoneMark, SaveMark
      <3> QED
        BY <1>0, <1>1, <1>5, <2>1, <3>1
    <2>2. CASE job[w].chat # c
      <3>1. session'[c] = session[c]
        BY <1>0, <1>5, <2>2 DEF DoneMark, SaveMark
      <3> QED
        BY <3>1
    <2> QED
      BY <2>1, <2>2
  <1>6. ASSUME NEW w \in Workers,
               ClearSession(w) \/ SaveClear(w) \/ ProcPending(w) \/ PhotoAppend(w)
        PROVE  Goal
    <2>1. CASE job[w].chat # c
      <3>1. session'[c] = session[c]
        BY <1>0, <1>6, <2>1 DEF ClearSession, SaveClear, ProcPending, PhotoAppend
      <3> QED
        BY <1>4, <3>1
    <2>2. CASE job[w].chat = c
      <3>1. ASSUME ClearSession(w)
            PROVE  session'[c].status = "none"
        BY <1>0, <2>2, <3>1 DEF ClearSession, Clear, NoItem
      <3>2. ASSUME PhotoAppend(w)
            PROVE  session'[c].status = session[c].status
        BY <1>0, <1>1, <2>2, <3>2 DEF PhotoAppend
      <3> QED
        BY <1>2, <1>3, <1>4, <1>6, <2>2, <3>1, <3>2
    <2> QED
      BY <2>1, <2>2
  <1>7. ASSUME NEW d \in Chats, Expire(d) \/ Reap(d)
        PROVE  Goal
    <2>1. CASE d # c
      <3>1. session'[c] = session[c]
        BY <1>0, <1>7, <2>1 DEF Expire, Reap
      <3> QED
        BY <1>4, <3>1
    <2>2. CASE d = c
      <3>1. ASSUME Expire(d)
            PROVE  session'[c].status = session[c].status
        BY <1>0, <1>1, <2>2, <3>1 DEF Expire
      <3>2. ASSUME Reap(d)
            PROVE  session'[c].status = "none"
        BY <1>0, <2>2, <3>2 DEF Reap, Clear, NoItem
      <3> QED
        BY <1>4, <1>7, <3>1, <3>2
    <2> QED
      BY <2>1, <2>2
  <1>8. ASSUME UNCHANGED session
        PROVE  Goal
    BY <1>4, <1>8
  <1>9. ASSUME NEW w \in Workers,
               \/ Finish(w) \/ Fail(w) \/ TessReject(w) \/ SaveCopyMissing(w)
               \/ PhotoStore(w) \/ PhotoAck(w)
               \/ DoneEmpty(w) \/ DoneGet(w) \/ DoneAlready(w)
               \/ DoneSend(w) \/ TessRun(w)
        PROVE  UNCHANGED session
    BY <1>9 DEF Finish, Fail, TessReject, SaveCopyMissing, PhotoStore,
                PhotoAck, DoneEmpty, DoneGet, DoneAlready, DoneSend, TessRun
  <1>10. ASSUME NEW w \in Workers,
                \/ ProcStore(w) \/ ProcPreview(w) \/ SaveNothing(w)
                \/ SaveCopy(w) \/ SaveDelete(w) \/ SavePut(w)
                \/ SaveSchedule(w) \/ SaveClearFails(w)
         PROVE  UNCHANGED session
    BY <1>10 DEF ProcStore, ProcPreview, SaveNothing, SaveCopy,
                 SaveDelete, SavePut, SaveSchedule, SaveClearFails
  <1>11. ASSUME NEW d \in Chats,
                PostPhoto(d) \/ \E kind \in TapKinds : PostTap(d, kind)
         PROVE  UNCHANGED session
    BY <1>11 DEF PostPhoto, PostTap
  <1>12. ASSUME NEW w \in Workers, NEW m \in queue, Receive(w, m)
         PROVE  UNCHANGED session
    BY <1>12 DEF Receive
  <1>13. ASSUME UNCHANGED vars
         PROVE  UNCHANGED session
    BY <1>13 DEF vars
  <1> HIDE DEF Goal
  <1>14. Goal
    BY <1>5, <1>6, <1>7, <1>8, <1>9, <1>10, <1>11, <1>12, <1>13
    DEF Next, WorkerStep
  <1> QED
    BY <1>2, <1>3, <1>14 DEF Goal

(***************************************************************************)
(* A worker in the middle of processing or of Save goes on to the next step*)
(* there, fails, or takes the last one: it sends the batch on, has the     *)
(* session await confirmation, or clears it.                               *)
(***************************************************************************)
LEMMA WorkersMoveOn ==
    ASSUME TypeOK, [Next]_vars, NEW steps \in {BeforePending, BeforeClear},
           NEW v \in Workers, pc[v] \in steps
    PROVE  \/ pc'[v] \in steps /\ job'[v] = job[v]
           \/ Fail(v) \/ SaveCopyMissing(v) \/ SaveClearFails(v)
           \/ TessReject(v) \/ TessRun(v) \/ DoneSend(v)
           \/ ProcPending(v) \/ SaveClear(v)
  <1> DEFINE Goal ==
           \/ pc'[v] \in steps /\ job'[v] = job[v]
           \/ Fail(v) \/ SaveCopyMissing(v) \/ SaveClearFails(v)
           \/ TessReject(v) \/ TessRun(v) \/ DoneSend(v)
           \/ ProcPending(v) \/ SaveClear(v)
  <1>0. pc \in [Workers -> Steps] /\ job \in [Workers -> Message \cup {NoMessage}]
    BY OwnTyped
  <1>1. pc[v] \notin {"idle", "finish"}
    BY DEF BeforePending, BeforeClear
  <1>2. ASSUME NEW w \in Workers, NEW from, NEW to,
               Goto(w, from, to), from \in steps => to \in steps
        PROVE  Goal
    BY <1>0, <1>2 DEF Goto, Advance
  <1>3. ASSUME NEW w \in Workers,
               \/ Fail(w) \/ TessReject(w) \/ SaveCopyMissing(w) \/ Finish(w)
        PROVE  Goal
    <2>1. Rest(w) /\ (Finish(w) => pc[w] = "finish")
      BY <1>3 DEF Fail, TessReject, SaveCopyMissing, Finish, GiveBack, Return
    <2> QED
      BY <1>0, <1>1, <1>3, <2>1 DEF Rest
  <1>4. ASSUME NEW w \in Workers, SaveClearFails(w)
        PROVE  Goal
    BY <1>0, <1>4 DEF SaveClearFails
  <1>5. ASSUME NEW w \in Workers,
               DoneSend(w) \/ TessRun(w) \/ ProcPending(w) \/ SaveClear(w)
        PROVE  Goal
    <2>1. \E from, to : Goto(w, from, to)
      BY <1>5 DEF DoneSend, TessRun, ProcPending, SaveClear
    <2> QED
      BY <1>0, <1>5, <2>1 DEF Goto, Advance
  <1>6. ASSUME NEW w \in Workers,
               \/ PhotoStore(w) \/ PhotoAppend(w) \/ PhotoAck(w) \/ DoneEmpty(w)
               \/ DoneGet(w) \/ DoneMark(w) \/ DoneAlready(w) \/ ClearSession(w)
               \/ ProcPreview(w) \/ SaveMark(w) \/ SaveNothing(w)
        PROVE  Goal
    <2>1. \E from \in {"photo_store", "photo_append", "photo_ack", "done_get",
                       "done_mark", "clear", "proc_preview", "save_mark"} :
              \E to : Goto(w, from, to)
      BY <1>6 DEF PhotoStore, PhotoAppend, PhotoAck, DoneEmpty, DoneGet,
                  DoneMark, DoneAlready, ClearSession, ProcPreview, SaveMark,
                  SaveNothing
    <2> QED
      BY <1>2, <2>1 DEF BeforePending, BeforeClear
  <1>7. ASSUME NEW w \in Workers,
               \/ ProcStore(w) \/ SaveCopy(w) \/ SaveDelete(w) \/ SavePut(w)
               \/ SaveSchedule(w)
        PROVE  Goal
    <2>1. \/ Goto(w, "proc_store", "proc_pending")
          \/ Goto(w, "save_copy", "save_delete")
          \/ Goto(w, "save_delete", "save_put")
          \/ Goto(w, "save_put", "save_schedule")
          \/ Goto(w, "save_schedule", "save_clear")
      BY <1>7 DEF ProcStore, SaveCopy, SaveDelete, SavePut, SaveSchedule
    <2> QED
      BY <1>2, <2>1 DEF BeforePending, BeforeClear
  <1>8. ASSUME NEW w \in Workers, NEW m \in queue, Receive(w, m)
        PROVE  Goal
    BY <1>0, <1>1, <1>8 DEF Receive, Deliver
  <1>9. ASSUME UNCHANGED <<pc, job>>
        PROVE  Goal
    BY <1>9
  <1>10. ASSUME NEW d \in Chats,
                \/ PostPhoto(d) \/ Expire(d) \/ Reap(d)
                \/ \E kind \in TapKinds : PostTap(d, kind)
         PROVE  Goal
    BY <1>9, <1>10 DEF PostPhoto, PostTap, Expire, Reap
  <1>11. ASSUME UNCHANGED vars
         PROVE  Goal
    BY <1>9, <1>11 DEF vars
  <1> HIDE DEF Goal
  <1>12. Goal
    BY <1>3, <1>4, <1>5, <1>6, <1>7, <1>8, <1>10, <1>11 DEF Next, WorkerStep
  <1> QED
    BY <1>12 DEF Goal

\* A message stays in its queue or dead-letter queue until it is delivered.
LEMMA MessagesWait ==
    ASSUME [Next]_vars, NEW m \in queue \cup dead
    PROVE  m \in queue' \cup dead' \/ \E w \in Workers : m \in queue /\ Receive(w, m)
  <1>1. ASSUME NEW w \in Workers, NEW n \in queue, Receive(w, n)
        PROVE  m \in queue' \cup dead' \/ (m \in queue /\ Receive(w, m))
    BY <1>1 DEF Receive, Deliver
  <1>2. ASSUME NEW w \in Workers,
               Fail(w) \/ TessReject(w) \/ SaveCopyMissing(w)
        PROVE  m \in queue' \cup dead'
    BY <1>2 DEF Fail, TessReject, SaveCopyMissing, GiveBack, Return
  <1>3. ASSUME NEW w \in Workers,
               \/ Finish(w) \/ SaveClearFails(w)
               \/ PhotoStore(w) \/ PhotoAppend(w) \/ PhotoAck(w)
               \/ DoneEmpty(w) \/ DoneGet(w) \/ DoneMark(w) \/ DoneAlready(w)
               \/ DoneSend(w) \/ ClearSession(w) \/ TessRun(w)
        PROVE  m \in queue' \cup dead'
    BY <1>3 DEF Finish, SaveClearFails, PhotoStore, PhotoAppend, PhotoAck,
                DoneEmpty, DoneGet, DoneMark, DoneAlready, DoneSend,
                ClearSession, TessRun
  <1>4. ASSUME NEW w \in Workers,
               \/ ProcStore(w) \/ ProcPending(w) \/ ProcPreview(w)
               \/ SaveMark(w) \/ SaveNothing(w) \/ SaveCopy(w) \/ SaveDelete(w)
               \/ SavePut(w) \/ SaveSchedule(w) \/ SaveClear(w)
        PROVE  m \in queue' \cup dead'
    BY <1>4 DEF ProcStore, ProcPending, ProcPreview, SaveMark, SaveNothing,
                SaveCopy, SaveDelete, SavePut, SaveSchedule, SaveClear
  <1>5. ASSUME NEW d \in Chats,
               \/ PostPhoto(d) \/ Expire(d) \/ Reap(d)
               \/ \E kind \in TapKinds : PostTap(d, kind)
        PROVE  m \in queue' \cup dead'
    BY <1>5 DEF PostPhoto, PostTap, Post, Expire, Reap
  <1>6. ASSUME UNCHANGED vars
        PROVE  m \in queue' \cup dead'
    BY <1>6 DEF vars
  <1> QED
    BY <1>1, <1>2, <1>3, <1>4, <1>5, <1>6 DEF Next, WorkerStep

\* Nothing has failed before, if nothing has failed by now.
LEMMA NothingFailed ==
    ASSUME TypeOK, [Next]_vars, failures' = 0
    PROVE  /\ failures = 0
           /\ \A w \in Workers : ~Fail(w) /\ ~SaveClearFails(w)
  <1>1. failures \in Nat
    BY InvocationsAssumption DEF TypeOK, MessagesOK
  <1>2. ASSUME NEW w \in Workers, DoneMark(w) \/ DoneSend(w)
        PROVE  failures = 0
    BY <1>2 DEF DoneMark, DoneSend, Goto, Advance
  <1>3. failures = 0
    BY <1>2, OthersLeaveSenders
  <1> QED
    BY <1>1, <1>3 DEF Fail, SaveClearFails

\* A batch goes from message to worker to message until its PDF is pending.
LEMMA ProcessingMoves ==
    ASSUME FlowInv, [Next]_vars, failures' = 0, NEW c \in Chats,
           InProcessing(c),
           session'[c].status = "awaiting_processing"
    PROVE  InProcessing(c)'
  <1>0. TypeOK
    BY DEF FlowInv
  <1>1. ASSUME NEW m \in queue \cup dead, m.kind \in BatchMessages, m.chat = c
        PROVE  InProcessing(c)'
    <2>1. CASE m \in queue' \cup dead'
      BY <1>1, <2>1 DEF InProcessing
    <2>2. CASE m \in queue /\ \E w \in Workers : Receive(w, m)
      <3> PICK w \in Workers : Receive(w, m)
        BY <2>2
      <3>1. /\ pc \in [Workers -> Steps]
            /\ job \in [Workers -> Message \cup {NoMessage}]
            /\ m \in Message
        BY <1>0, <2>2, OwnTyped
      <3>2. /\ pc' = [pc EXCEPT ![w] = Entry[m.kind]]
            /\ job' = [job EXCEPT ![w] = [m EXCEPT !.receives = @ + 1]]
        BY DEF Receive, Deliver
      <3>3. Entry[m.kind] \in BeforePending
        BY <1>1 DEF BatchMessages, Entry, BeforePending
      <3>4. [m EXCEPT !.receives = @ + 1].chat = c
        BY <1>1, <3>1 DEF Message
      <3>5. pc'[w] \in BeforePending /\ job'[w].chat = c
        BY <3>1, <3>2, <3>3, <3>4
      <3> QED
        BY <3>5 DEF InProcessing, At
    <2> QED
      BY <1>0, <2>1, <2>2, MessagesWait
  <1>2. ASSUME NEW v \in Workers, At(v, c, BeforePending)
        PROVE  InProcessing(c)'
    <2>1. /\ AtWork(v) /\ pc[v] \in BeforePending /\ job[v].chat = c
      BY <1>2 DEF AtWork, At, BeforePending
    <2>2. CASE pc'[v] \in BeforePending /\ job'[v] = job[v]
      BY <2>1, <2>2 DEF InProcessing, At
    <2>3. CASE TessReject(v)
      <3>1. /\ job[v] \in queue' \cup dead'
            /\ job[v].kind = "images"
        BY <2>3 DEF TessReject, GiveBack, Return, FlowInv, OwnInv, WorkersOwn
      <3> QED
        BY <2>1, <3>1 DEF InProcessing, BatchMessages
    <2>4. CASE DoneSend(v) \/ TessRun(v)
      <3>1. \E kind \in BatchMessages : \E id, run, pages :
                [kind |-> kind, chat |-> c, id |-> id, run |-> run,
                 pages |-> pages, receives |-> 0] \in queue'
        BY <2>1, <2>4 DEF DoneSend, TessRun, BatchMessages
      <3>2. \E m \in queue' : m.kind \in BatchMessages /\ m.chat = c
        BY <3>1
      <3> QED
        BY <3>2 DEF InProcessing
    <2>5. ~Fail(v) /\ ~SaveClearFails(v)
      BY <1>0, NothingFailed
    <2>6. ~ProcPending(v)
      BY <1>0, <2>1, StatusMoves
    <2>7. ~SaveCopyMissing(v) /\ ~SaveClear(v)
      BY <2>1 DEF BeforePending, SaveCopyMissing, SaveClear, Goto, Advance
    <2> QED
      BY <1>0, <2>1, <2>2, <2>3, <2>4, <2>5, <2>6, <2>7, WorkersMoveOn
  <1> QED
    BY <1>1, <1>2 DEF InProcessing

\* The worker that saves goes on until it has cleared the session.
LEMMA SavingMoves ==
    ASSUME FlowInv, SaveFindsItsPdf, [Next]_vars, failures' = 0, NEW c \in Chats,
           NEW v \in Workers, At(v, c, BeforeClear),
           session'[c].status = "saving"
    PROVE  At(v, c, BeforeClear)'
  <1>0. TypeOK
    BY DEF FlowInv
  <1>1. pc[v] \in BeforeClear /\ job[v].chat = c
    BY DEF At
  <1>2. ~Fail(v) /\ ~SaveClearFails(v)
    BY <1>0, NothingFailed
  <1>3. ~SaveCopyMissing(v)
    BY DEF SaveCopyMissing, SaveFindsItsPdf
  <1>4. ~SaveClear(v)
    BY <1>0, <1>1, StatusMoves
  <1>5. ~TessReject(v) /\ ~TessRun(v) /\ ~DoneSend(v) /\ ~ProcPending(v)
    BY <1>1 DEF BeforeClear, TessReject, TessRun, DoneSend, ProcPending, Goto,
                Advance
  <1> QED
    BY <1>0, <1>1, <1>2, <1>3, <1>4, <1>5, WorkersMoveOn DEF At

\* Done and Save themselves are the first that move a session on.
LEMMA BusyStep ==
    ASSUME FlowInv, SaveFindsItsPdf, BusyIsMoving, [Next]_vars
    PROVE  BusyIsMoving'
  <1> SUFFICES ASSUME failures' = 0, NEW c \in Chats
               PROVE  /\ session'[c].status = "awaiting_processing" =>
                             InProcessing(c)'
                      /\ session'[c].status = "saving" =>
                             \E w \in Workers : At(w, c, BeforeClear)'
    BY DEF BusyIsMoving
  <1>0. /\ TypeOK /\ failures = 0
        /\ pc \in [Workers -> Steps]
    BY NothingFailed, OwnTyped DEF FlowInv
  <1>1. ASSUME session'[c].status = "awaiting_processing"
        PROVE  InProcessing(c)'
    <2>1. CASE session[c].status = "awaiting_processing"
      BY <1>0, <1>1, <2>1, ProcessingMoves DEF BusyIsMoving
    <2>2. ASSUME NEW w \in Workers, DoneMark(w), job[w].chat = c
          PROVE  InProcessing(c)'
      <3>1. pc'[w] = "done_send" /\ job'[w].chat = c
        BY <1>0, <2>2 DEF DoneMark, Goto, Advance
      <3> QED
        BY <3>1 DEF InProcessing, At, BeforePending
    <2> QED
      BY <1>0, <1>1, <2>1, <2>2, StatusMoves
  <1>2. ASSUME session'[c].status = "saving"
        PROVE  \E w \in Workers : At(w, c, BeforeClear)'
    <2>1. CASE session[c].status = "saving"
      BY <1>0, <1>2, <2>1, SavingMoves DEF BusyIsMoving
    <2>2. ASSUME NEW w \in Workers, SaveMark(w), job[w].chat = c
          PROVE  At(w, c, BeforeClear)'
      <3>1. pc'[w] = "save_copy" /\ job'[w].chat = c
        BY <1>0, <2>2 DEF SaveMark, Goto, Advance
      <3> QED
        BY <3>1 DEF At, BeforeClear
    <2> QED
      BY <1>0, <1>2, <2>1, <2>2, StatusMoves
  <1> QED
    BY <1>1, <1>2

(***************************************************************************)
(* Unless something fails, no session is left behind in the middle: as long*)
(* as it is awaiting processing its batch is on the way, and as long as it *)
(* is saving a worker is.  What is left to fairness is that they do move.  *)
(***************************************************************************)
THEOREM BusySessionsMove == ASSUME ~SameSecond PROVE Spec => []BusyIsMoving
  <1>1. Init => BusyIsMoving
    <2>1. NoItem.status = "none"
      BY DEF NoItem
    <2>2. Init => \A c \in Chats : session[c] = NoItem
      BY DEF Init
    <2> QED
      BY <2>1, <2>2 DEF BusyIsMoving
  <1>2. FlowInv /\ SaveFindsItsPdf /\ BusyIsMoving /\ [Next]_vars => BusyIsMoving'
    BY BusyStep
  <1> QED
    BY <1>1, <1>2, FlowIsKnown, SavesFindPdfs, PTL DEF Spec
=============================================================================
