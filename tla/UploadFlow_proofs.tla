------------------------- MODULE UploadFlow_proofs --------------------------
(***************************************************************************)
(* Theorems about UploadFlow, for every value of its constants: any number *)
(* of chats, workers, photos, presses and failures.                        *)
(***************************************************************************)
EXTENDS UploadFlow, SequenceTheorems, TLAPS

-----------------------------------------------------------------------------
(* Sequences.                                                              *)

\* Appending an element gives the sequence one more place, and it is there.
LEMMA ElementsOfAppend ==
    ASSUME NEW S, NEW s \in Seq(S), NEW x \in S
    PROVE  /\ Append(s, x) \in Seq(S)
           /\ Len(s) \in Nat
           /\ DOMAIN s = 1..Len(s)
           /\ DOMAIN Append(s, x) = DOMAIN s \cup {Len(s) + 1}
           /\ Append(s, x)[Len(s) + 1] = x
           /\ \A i \in DOMAIN s : Append(s, x)[i] = s[i]
  <1>1. /\ Append(s, x) \in Seq(S)
        /\ Len(s) \in Nat
        /\ DOMAIN s = 1..Len(s)
        /\ DOMAIN Append(s, x) = 1..(Len(s) + 1)
        /\ Append(s, x)[Len(s) + 1] = x
        /\ \A i \in 1..Len(s) : Append(s, x)[i] = s[i]
    OBVIOUS
  <1>2. 1..(Len(s) + 1) = 1..Len(s) \cup {Len(s) + 1}
    BY <1>1
  <1> QED
    BY <1>1, <1>2

\* The same for batches, which are sequences themselves.
LEMMA BatchAppended ==
    ASSUME NEW s \in Seq(Seq(RawKey)), NEW x \in Seq(RawKey)
    PROVE  /\ DOMAIN Append(s, x) = DOMAIN s \cup {Len(s) + 1}
           /\ Append(s, x)[Len(s) + 1] = x
           /\ \A i \in DOMAIN s : Append(s, x)[i] = s[i]
  <1> DEFINE S == Seq(RawKey)
  <1>1. s \in Seq(S) /\ x \in S
    OBVIOUS
  <1> HIDE DEF S
  <1> QED
    BY <1>1, ElementsOfAppend

\* Appending an element adds it to the range, and nothing else.
LEMMA RangeOfAppend ==
    ASSUME NEW S, NEW s \in Seq(S), NEW x \in S
    PROVE  /\ Append(s, x) \in Seq(S)
           /\ Range(Append(s, x)) = Range(s) \cup {x}
  <1> DEFINE t == Append(s, x)
  <1>1. /\ t \in Seq(S)
        /\ Len(s) \in Nat
        /\ DOMAIN t = DOMAIN s \cup {Len(s) + 1}
        /\ t[Len(s) + 1] = x
        /\ \A i \in DOMAIN s : t[i] = s[i]
    BY ElementsOfAppend
  <1> HIDE DEF t
  <1>2. Range(t) \subseteq Range(s) \cup {x}
    BY <1>1 DEF Range
  <1>3. Range(s) \cup {x} \subseteq Range(t)
    <2>1. x = t[Len(s) + 1] /\ Len(s) + 1 \in DOMAIN t
      BY <1>1
    <2>2. \A i \in DOMAIN s : i \in DOMAIN t /\ s[i] = t[i]
      BY <1>1
    <2> QED
      BY <2>1, <2>2 DEF Range
  <1> QED
    BY <1>1, <1>2, <1>3 DEF t

\* The empty sequence has no elements.
LEMMA RangeOfEmpty == Range(<<>>) = {}
  BY DEF Range

-----------------------------------------------------------------------------
(* Type correctness.                                                       *)

\* The calls to the session table keep an item an item.
LEMMA SessionCallsTyped ==
    ASSUME NEW s \in Item
    PROVE  /\ Clear(s) \in Item
           /\ Lapse(s) \in Item
           /\ Get(s) \in Item
           /\ MarkAwaitingProcessing(s) \in Item
           /\ MarkSaving(s) \in Item
           /\ \A k \in RawKey : AppendRawKey(s, k) \in Item
           /\ \A p \in Nat, cl \in Classification :
                  SetPendingConfirmation(s, p, cl) \in Item
  <1>1. NoItem \in Item
    BY DEF NoItem, Item, Statuses, Expiries, Classification, NoClassification
  <1>2. \A k \in RawKey : AppendRawKey(s, k) \in Item
    <2>1. \A k \in RawKey : Append(s.raw, k) \in Seq(RawKey)
      BY DEF Item
    <2> QED
      BY <2>1 DEF AppendRawKey, Item, Expiries
  <1>3. \A p \in Nat, cl \in Classification :
            SetPendingConfirmation(s, p, cl) \in Item
    BY DEF SetPendingConfirmation, Item, Statuses, Expiries
  <1>4. /\ Lapse(s) \in Item
        /\ MarkAwaitingProcessing(s) \in Item
        /\ MarkSaving(s) \in Item
    BY DEF Lapse, MarkAwaitingProcessing, MarkSaving, Item, Statuses, Expiries
  <1> QED
    BY <1>1, <1>2, <1>3, <1>4 DEF Clear, Get

\* Initially every variable has its type.
LEMMA TypeInit == Init => TypeOK
  <1> SUFFICES ASSUME Init
               PROVE  TypeOK
    OBVIOUS
  <1> USE DEF Init, InvocationsInit
  <1>1. MessagesOK
    BY InvocationsAssumption DEF MessagesOK
  <1>2. WorkersOK
    BY DEF WorkersOK, Steps, Local, NoLocal
  <1>3. StoresOK
    <2>1. NoItem \in Item
      BY DEF NoItem, Item, Statuses, Expiries, Classification, NoClassification
    <2> QED
      BY <2>1 DEF StoresOK
  <1>4. UsersOK
    BY ConstantsAssumption DEF UsersOK
  <1>5. HistoryOK
    BY DEF HistoryOK
  <1> QED
    BY <1>1, <1>2, <1>3, <1>4, <1>5 DEF TypeOK

\* A worker that is at work holds a message of a chat, with a list of pages.
LEMMA JobTyped ==
    ASSUME WorkersOK, NEW w \in Workers, pc[w] # "idle"
    PROVE  /\ job[w].chat \in Chats
           /\ job[w].pages \in Seq(RawKey)
           /\ job[w].receives \in Nat
           /\ job[w].id \in Nat
           /\ local[w].pages \in Seq(RawKey)
           /\ local[w].pdf \in Nat
           /\ local[w].name \in Nat
           /\ local[w].letter \in Nat
  BY DEF WorkersOK, Message, Local

\* A step of one worker that keeps its variables typed keeps all of them so.
LEMMA GotoTyped ==
    ASSUME WorkersOK, NEW w \in Workers, NEW from \in Steps \ {"idle"},
           NEW to \in Steps \ {"idle"}, Goto(w, from, to),
           local' \in [Workers -> Local],
           \A v \in Workers \ {w} : local'[v] = local[v],
           to = "photo_append" => Len(local'[w].pages) = 1
    PROVE  WorkersOK'
  BY DEF WorkersOK, Goto, Advance

\* A worker that stops keeps the types of the workers' variables.
LEMMA StopTyped ==
    ASSUME WorkersOK, NEW w \in Workers, Rest(w),
           local' = [local EXCEPT ![w] = NoLocal]
    PROVE  WorkersOK'
  BY DEF WorkersOK, Rest, Steps, Local, NoLocal

\* A message that is given back is a message, in whichever queue it ends.
LEMMA GiveBackTyped ==
    ASSUME MessagesOK, WorkersOK, NEW w \in Workers, pc[w] # "idle", GiveBack(w)
    PROVE  /\ WorkersOK'
           /\ queue' \subseteq Message
           /\ dead' \subseteq Message
  <1>1. Rest(w) /\ local' = [local EXCEPT ![w] = NoLocal]
    BY DEF GiveBack, Return
  <1>2. job[w] \in Message
    BY DEF WorkersOK
  <1>3. queue' \subseteq Message /\ dead' \subseteq Message
    BY <1>2 DEF GiveBack, Return, MessagesOK
  <1> QED
    BY <1>1, <1>3, StopTyped

(***************************************************************************)
(* Every step keeps every variable in its type: one step of the proof per  *)
(* action, and below it one per group of variables that the action changes.*)
(***************************************************************************)
LEMMA TypeStep == TypeOK /\ [Next]_vars => TypeOK'
  <1> SUFFICES ASSUME TypeOK, [Next]_vars
               PROVE  TypeOK'
    OBVIOUS
  <1>0. MessagesOK /\ WorkersOK /\ StoresOK /\ UsersOK /\ HistoryOK
    BY DEF TypeOK
  <1> USE DEF TypeOK, storeVars, userVars, historyVars
  <1>1. ASSUME NEW w \in Workers, Finish(w)
        PROVE  TypeOK'
    <2>1. WorkersOK'
      BY <1>0, <1>1, StopTyped DEF Finish
    <2>2. MessagesOK' /\ StoresOK' /\ UsersOK' /\ HistoryOK'
      BY <1>0, <1>1 DEF Finish, Goto, Advance, MessagesOK, StoresOK, UsersOK, HistoryOK
    <2> QED
      BY <2>1, <2>2
  <1>2. ASSUME NEW w \in Workers, PhotoStore(w)
        PROVE  TypeOK'
    <2>1. WorkersOK'
      <3> DEFINE key == [chat |-> job[w].chat, at |-> raws[job[w].chat] + 1]
      <3>1. /\ Goto(w, "photo_store", "photo_append")
            /\ local' = [local EXCEPT ![w].pages = <<key>>]
        BY <1>2 DEF PhotoStore
      <3>2. job[w].chat \in Chats
        BY <1>0, <3>1, JobTyped DEF Goto, Advance
      <3>3. key \in RawKey
        BY <1>0, <3>2 DEF StoresOK, RawKey
      <3> HIDE DEF key
      <3>4. <<key>> \in Seq(RawKey) /\ Len(<<key>>) = 1
        BY <3>3
      <3> DEFINE pages == <<key>>
      <3>5. local' = [local EXCEPT ![w].pages = pages]
        BY <3>1
      <3> HIDE DEF pages
      <3>6. pages \in Seq(RawKey)
        BY <3>4 DEF pages
      <3>7. /\ local' \in [Workers -> Local]
            /\ local'[w].pages = pages
            /\ \A v \in Workers \ {w} : local'[v] = local[v]
        BY <1>0, <3>5, <3>6 DEF WorkersOK, Local
      <3>8. /\ local' \in [Workers -> Local]
            /\ \A v \in Workers \ {w} : local'[v] = local[v]
            /\ Len(local'[w].pages) = 1
        BY <3>4, <3>7 DEF pages
      <3> QED
        BY <1>0, <3>1, <3>8, GotoTyped DEF Steps
    <2>2. StoresOK'
      <3>1. pc[w] = "photo_store"
        BY <1>2 DEF PhotoStore, Goto, Advance
      <3>2. job[w].chat \in Chats
        BY <1>0, <3>1, JobTyped
      <3> QED
        BY <1>0, <1>2, <3>2, SessionCallsTyped DEF PhotoStore, StoresOK
    <2>3. MessagesOK' /\ UsersOK' /\ HistoryOK'
      BY <1>0, <1>2 DEF PhotoStore, Goto, Advance, MessagesOK, UsersOK, HistoryOK
    <2> QED
      BY <2>1, <2>2, <2>3
  <1>3. ASSUME NEW w \in Workers, PhotoAppend(w)
        PROVE  TypeOK'
    <2>1. WorkersOK'
      <3>1. Goto(w, "photo_append", "photo_ack") /\ local' = local
        BY <1>3 DEF PhotoAppend
      <3> QED
        BY <1>0, <3>1, GotoTyped DEF Steps, WorkersOK
    <2>2. StoresOK'
      <3>1. pc[w] = "photo_append"
        BY <1>3 DEF PhotoAppend, Goto, Advance
      <3>2. job[w].chat \in Chats
        BY <1>0, <3>1, JobTyped
      <3>3. local[w].pages[1] \in RawKey
        BY <1>0, <3>1, JobTyped, ElementOfSeq DEF WorkersOK
      <3> QED
        BY <1>0, <1>3, <3>2, <3>3, SessionCallsTyped DEF PhotoAppend, StoresOK
    <2>3. MessagesOK' /\ UsersOK' /\ HistoryOK'
      BY <1>0, <1>3 DEF PhotoAppend, Goto, Advance, MessagesOK, UsersOK, HistoryOK
    <2> QED
      BY <2>1, <2>2, <2>3
  <1>4. ASSUME NEW w \in Workers, PhotoAck(w)
        PROVE  TypeOK'
    <2>1. WorkersOK'
      <3>1. Goto(w, "photo_ack", "finish") /\ local' = local
        BY <1>4 DEF PhotoAck
      <3> QED
        BY <1>0, <3>1, GotoTyped DEF Steps, WorkersOK
    <2>2. UsersOK'
      <3>1. pc[w] = "photo_ack"
        BY <1>4 DEF PhotoAck, Goto, Advance
      <3>2. job[w].chat \in Chats
        BY <1>0, <3>1, JobTyped
      <3> QED
        BY <1>0, <1>4, <3>2 DEF PhotoAck, Goto, Advance, UsersOK, TapKinds
    <2>3. MessagesOK' /\ StoresOK' /\ HistoryOK'
      BY <1>0, <1>4 DEF PhotoAck, Goto, Advance, MessagesOK, StoresOK, HistoryOK
    <2> QED
      BY <2>1, <2>2, <2>3
  <1>5. ASSUME NEW w \in Workers, DoneEmpty(w)
        PROVE  TypeOK'
    <2>1. WorkersOK'
      <3>1. Goto(w, "done_get", "finish") /\ local' = local
        BY <1>5 DEF DoneEmpty
      <3> QED
        BY <1>0, <3>1, GotoTyped DEF Steps, WorkersOK
    <2>2. MessagesOK' /\ StoresOK' /\ UsersOK' /\ HistoryOK'
      BY <1>0, <1>5 DEF DoneEmpty, Goto, Advance, MessagesOK, StoresOK, UsersOK, HistoryOK
    <2> QED
      BY <2>1, <2>2
  <1>6. ASSUME NEW w \in Workers, DoneGet(w)
        PROVE  TypeOK'
    <2>1. WorkersOK'
      <3>1. Goto(w, "done_get", "done_mark")
        BY <1>6 DEF DoneGet
      <3>2. /\ job[w].chat \in Chats
            /\ job[w].pages \in Seq(RawKey)
        BY <1>0, <3>1, JobTyped DEF Goto, Advance
      <3>3. Get(session[job[w].chat]).raw \in Seq(RawKey)
        BY <1>0, <3>2, SessionCallsTyped DEF StoresOK, Item, Classification
      <3>4. /\ local' \in [Workers -> Local]
            /\ \A v \in Workers \ {w} : local'[v] = local[v]
        BY <1>0, <1>6, <3>3, <3>2 DEF DoneGet, WorkersOK, Local
      <3> QED
        BY <1>0, <3>1, <3>4, GotoTyped DEF Steps
    <2>2. MessagesOK' /\ StoresOK' /\ UsersOK' /\ HistoryOK'
      BY <1>0, <1>6 DEF DoneGet, Goto, Advance, MessagesOK, StoresOK, UsersOK, HistoryOK
    <2> QED
      BY <2>1, <2>2
  <1>7. ASSUME NEW w \in Workers, DoneMark(w)
        PROVE  TypeOK'
    <2>1. WorkersOK'
      <3>1. Goto(w, "done_mark", "done_send")
        BY <1>7 DEF DoneMark
      <3>2. /\ job[w].chat \in Chats
            /\ job[w].pages \in Seq(RawKey)
        BY <1>0, <3>1, JobTyped DEF Goto, Advance
      <3>3. session[job[w].chat].raw \in Seq(RawKey)
        BY <1>0, <3>2 DEF StoresOK, Item, Classification
      <3>4. /\ local' \in [Workers -> Local]
            /\ \A v \in Workers \ {w} : local'[v] = local[v]
        BY <1>0, <1>7, <3>3, <3>2 DEF DoneMark, WorkersOK, Local
      <3> QED
        BY <1>0, <3>1, <3>4, GotoTyped DEF Steps
    <2>2. StoresOK'
      <3>1. pc[w] = "done_mark"
        BY <1>7 DEF DoneMark, Goto, Advance
      <3>2. job[w].chat \in Chats
        BY <1>0, <3>1, JobTyped
      <3> QED
        BY <1>0, <1>7, <3>2, SessionCallsTyped DEF DoneMark, StoresOK
    <2>3. HistoryOK'
      <3>1. pc[w] = "done_mark"
        BY <1>7 DEF DoneMark, Goto, Advance
      <3>2. job[w].chat \in Chats
        BY <1>0, <3>1, JobTyped
      <3>3. session[job[w].chat].raw \in Seq(RawKey)
        BY <1>0, <3>2 DEF StoresOK, Item
      <3>4. Range(session[job[w].chat].raw) \subseteq RawKey
        BY <3>3, RangeOfSeq
      <3> QED
        BY <1>0, <1>7, <3>2, <3>4 DEF DoneMark, HistoryOK
    <2>4. MessagesOK' /\ UsersOK'
      BY <1>0, <1>7 DEF DoneMark, Goto, Advance, MessagesOK, UsersOK
    <2> QED
      BY <2>1, <2>2, <2>3, <2>4
  <1>8. ASSUME NEW w \in Workers, DoneAlready(w)
        PROVE  TypeOK'
    <2>1. WorkersOK'
      <3>1. Goto(w, "done_mark", "finish") /\ local' = local
        BY <1>8 DEF DoneAlready
      <3> QED
        BY <1>0, <3>1, GotoTyped DEF Steps, WorkersOK
    <2>2. MessagesOK' /\ StoresOK' /\ UsersOK' /\ HistoryOK'
      BY <1>0, <1>8 DEF DoneAlready, Goto, Advance, MessagesOK, StoresOK, UsersOK, HistoryOK
    <2> QED
      BY <2>1, <2>2
  <1>9. ASSUME NEW w \in Workers, DoneSend(w)
        PROVE  TypeOK'
    <2>1. WorkersOK'
      <3>1. Goto(w, "done_send", "finish") /\ local' = local
        BY <1>9 DEF DoneSend
      <3> QED
        BY <1>0, <3>1, GotoTyped DEF Steps, WorkersOK
    <2>2. MessagesOK'
      <3>1. pc[w] = "done_send"
        BY <1>9 DEF DoneSend, Goto, Advance
      <3>2. job[w].chat \in Chats /\ local[w].pages \in Seq(RawKey)
        BY <1>0, <3>1, JobTyped
      <3>3. Len(dispatched[job[w].chat]) + 1 \in Nat
        BY <1>0, <3>2 DEF HistoryOK
      <3> QED
        BY <1>0, <1>9, <3>2, <3>3 DEF DoneSend, Goto, Advance, MessagesOK, Message, Kinds
    <2>3. HistoryOK'
      <3>1. pc[w] = "done_send"
        BY <1>9 DEF DoneSend, Goto, Advance
      <3>2. job[w].chat \in Chats /\ local[w].pages \in Seq(RawKey)
        BY <1>0, <3>1, JobTyped
      <3>3. Append(dispatched[job[w].chat], local[w].pages) \in Seq(Seq(RawKey))
        BY <1>0, <3>2 DEF HistoryOK
      <3> QED
        BY <1>0, <1>9, <3>2, <3>3 DEF DoneSend, HistoryOK
    <2>4. StoresOK' /\ UsersOK'
      BY <1>0, <1>9 DEF DoneSend, Goto, Advance, StoresOK, UsersOK
    <2> QED
      BY <2>1, <2>2, <2>3, <2>4
  <1>10. ASSUME NEW w \in Workers, ClearSession(w)
         PROVE  TypeOK'
    <2>1. WorkersOK'
      <3>1. Goto(w, "clear", "finish") /\ local' = local
        BY <1>10 DEF ClearSession
      <3> QED
        BY <1>0, <3>1, GotoTyped DEF Steps, WorkersOK
    <2>2. StoresOK'
      <3>1. pc[w] = "clear"
        BY <1>10 DEF ClearSession, Goto, Advance
      <3>2. job[w].chat \in Chats
        BY <1>0, <3>1, JobTyped
      <3> QED
        BY <1>0, <1>10, <3>2, SessionCallsTyped DEF ClearSession, StoresOK
    <2>3. MessagesOK' /\ UsersOK' /\ HistoryOK'
      BY <1>0, <1>10 DEF ClearSession, Goto, Advance, MessagesOK, UsersOK, HistoryOK
    <2> QED
      BY <2>1, <2>2, <2>3
  <1>11. ASSUME NEW w \in Workers, TessRun(w)
         PROVE  TypeOK'
    <2>1. WorkersOK'
      <3>1. Goto(w, "tess_run", "finish") /\ local' = local
        BY <1>11 DEF TessRun
      <3> QED
        BY <1>0, <3>1, GotoTyped DEF Steps, WorkersOK
    <2>2. MessagesOK'
      <3>1. pc[w] = "tess_run"
        BY <1>11 DEF TessRun, Goto, Advance
      <3>2. /\ job[w].chat \in Chats
            /\ job[w].pages \in Seq(RawKey)
            /\ job[w].receives \in Nat
            /\ job[w].id \in Nat
        BY <1>0, <3>1, JobTyped
      <3> QED
        BY <1>0, <1>11, <3>2 DEF TessRun, Goto, Advance, MessagesOK, Message, Kinds
    <2>3. StoresOK' /\ UsersOK' /\ HistoryOK'
      BY <1>0, <1>11 DEF TessRun, Goto, Advance, StoresOK, UsersOK, HistoryOK
    <2> QED
      BY <2>1, <2>2, <2>3
  <1>12. ASSUME NEW w \in Workers, TessReject(w)
         PROVE  TypeOK'
    <2>1. WorkersOK'
      <3>1. pc[w] # "idle" /\ GiveBack(w)
        BY <1>12 DEF TessReject
      <3> QED
        BY <1>0, <3>1, GiveBackTyped
    <2>2. MessagesOK'
      <3>1. pc[w] # "idle" /\ GiveBack(w)
        BY <1>12 DEF TessReject
      <3>2. queue' \subseteq Message /\ dead' \subseteq Message
        BY <1>0, <3>1, GiveBackTyped
      <3> QED
        BY <1>0, <1>12, <3>2 DEF TessReject, MessagesOK
    <2>3. StoresOK' /\ UsersOK' /\ HistoryOK'
      BY <1>0, <1>12 DEF TessReject, Goto, Advance, StoresOK, UsersOK, HistoryOK
    <2> QED
      BY <2>1, <2>2, <2>3
  <1>13. ASSUME NEW w \in Workers, ProcStore(w)
         PROVE  TypeOK'
    <2>1. WorkersOK'
      <3>1. Goto(w, "proc_store", "proc_pending")
        BY <1>13 DEF ProcStore
      <3>2. job[w].chat \in Chats /\ job[w].pages \in Seq(RawKey)
        BY <1>0, <3>1, JobTyped DEF Goto, Advance
      <3>3. Seconds(job[w].chat) \subseteq Nat
        BY <1>0, <3>2 DEF Seconds, StoresOK
      <3>4. PICK second \in Nat :
                local' = [local EXCEPT ![w].pages = job[w].pages, ![w].pdf = second]
        BY <1>13, <3>3 DEF ProcStore
      <3>5. /\ local' \in [Workers -> Local]
            /\ \A v \in Workers \ {w} : local'[v] = local[v]
        <4>1. local \in [Workers -> Local]
          BY <1>0 DEF WorkersOK
        <4> QED
          BY <3>2, <3>4, <4>1 DEF Local
      <3> QED
        BY <1>0, <3>1, <3>5, GotoTyped DEF Steps
    <2>2. StoresOK'
      <3>1. pc[w] = "proc_store"
        BY <1>13 DEF ProcStore, Goto, Advance
      <3>2. job[w].chat \in Chats /\ job[w].pages \in Seq(RawKey)
        BY <1>0, <3>1, JobTyped
      <3>3. Seconds(job[w].chat) \subseteq Nat
        BY <1>0, <3>2 DEF Seconds, StoresOK
      <3>4. PICK second \in Nat :
                /\ clock' = [clock EXCEPT ![job[w].chat] = second]
                /\ bucket' = PutObject(bucket, UnsortedKey(job[w].chat, second),
                                 [pdf |-> second, pages |-> job[w].pages])
        BY <1>13, <3>3 DEF ProcStore
      <3>5. /\ UnsortedKey(job[w].chat, second) \in ObjectKey
            /\ [pdf |-> second, pages |-> job[w].pages] \in Pdf
        BY <3>2 DEF UnsortedKey, ObjectKey, Pdf
      <3> QED
        BY <1>0, <1>13, <3>2, <3>4, <3>5 DEF ProcStore, StoresOK, PutObject
    <2>3. MessagesOK' /\ UsersOK' /\ HistoryOK'
      BY <1>0, <1>13 DEF ProcStore, Goto, Advance, MessagesOK, UsersOK, HistoryOK
    <2> QED
      BY <2>1, <2>2, <2>3
  <1>14. ASSUME NEW w \in Workers, ProcPending(w)
         PROVE  TypeOK'
    <2>1. WorkersOK'
      <3>1. Goto(w, "proc_pending", "proc_preview") /\ local' = local
        BY <1>14 DEF ProcPending
      <3> QED
        BY <1>0, <3>1, GotoTyped DEF Steps, WorkersOK
    <2>2. StoresOK'
      <3>1. pc[w] = "proc_pending"
        BY <1>14 DEF ProcPending, Goto, Advance
      <3>2. /\ job[w].chat \in Chats
            /\ local[w].pages \in Seq(RawKey)
            /\ local[w].pdf \in Nat
        BY <1>0, <3>1, JobTyped
      <3>3. \A name \in Names(local[w].pdf) :
                [name |-> name, pages |-> local[w].pages] \in Classification
        BY <3>2 DEF Names, Classification
      <3>4. PICK name \in Names(local[w].pdf) :
                session' = [session EXCEPT
                    ![job[w].chat] = SetPendingConfirmation(@, local[w].pdf,
                        [name |-> name, pages |-> local[w].pages])]
        BY <1>14 DEF ProcPending
      <3>5. session' \in [Chats -> Item]
        BY <1>0, <3>2, <3>3, <3>4, SessionCallsTyped DEF StoresOK
      <3> QED
        BY <1>0, <1>14, <3>5 DEF ProcPending, StoresOK
    <2>3. MessagesOK' /\ UsersOK' /\ HistoryOK'
      BY <1>0, <1>14 DEF ProcPending, Goto, Advance, MessagesOK, UsersOK, HistoryOK
    <2> QED
      BY <2>1, <2>2, <2>3
  <1>15. ASSUME NEW w \in Workers, ProcPreview(w)
         PROVE  TypeOK'
    <2>1. WorkersOK'
      <3>1. Goto(w, "proc_preview", "finish") /\ local' = local
        BY <1>15 DEF ProcPreview
      <3> QED
        BY <1>0, <3>1, GotoTyped DEF Steps, WorkersOK
    <2>2. UsersOK'
      <3>1. pc[w] = "proc_preview"
        BY <1>15 DEF ProcPreview, Goto, Advance
      <3>2. job[w].chat \in Chats
        BY <1>0, <3>1, JobTyped
      <3> QED
        BY <1>0, <1>15, <3>2 DEF ProcPreview, Goto, Advance, UsersOK, TapKinds
    <2>3. HistoryOK'
      <3>1. pc[w] = "proc_preview"
        BY <1>15 DEF ProcPreview, Goto, Advance
      <3>2. /\ job[w].chat \in Chats
            /\ [pdf |-> local[w].pdf, pages |-> local[w].pages] \in Pdf
        BY <1>0, <3>1, JobTyped DEF Pdf
      <3> QED
        BY <1>0, <1>15, <3>2 DEF ProcPreview, HistoryOK
    <2>4. MessagesOK' /\ StoresOK'
      BY <1>0, <1>15 DEF ProcPreview, Goto, Advance, MessagesOK, StoresOK
    <2> QED
      BY <2>1, <2>2, <2>3, <2>4
  <1>16. ASSUME NEW w \in Workers, SaveMark(w)
         PROVE  TypeOK'
    <2>1. WorkersOK'
      <3>1. Goto(w, "save_mark", "save_copy")
        BY <1>16 DEF SaveMark
      <3>2. /\ job[w].chat \in Chats
            /\ job[w].pages \in Seq(RawKey)
        BY <1>0, <3>1, JobTyped DEF Goto, Advance
      <3>3. /\ session[job[w].chat].class.pages \in Seq(RawKey)
            /\ session[job[w].chat].class.name \in Nat
            /\ session[job[w].chat].pdf \in Nat
        BY <1>0, <3>2 DEF StoresOK, Item, Classification
      <3>4. /\ local' \in [Workers -> Local]
            /\ \A v \in Workers \ {w} : local'[v] = local[v]
        <4> PICK ps, n, p : /\ ps = session[job[w].chat].class.pages
                            /\ n = session[job[w].chat].class.name
                            /\ p = session[job[w].chat].pdf
          OBVIOUS
        <4>1. local' = [local EXCEPT ![w].pages = ps, ![w].pdf = p, ![w].name = n]
          BY <1>16 DEF SaveMark
        <4>2. local \in [Workers -> Local]
          BY <1>0 DEF WorkersOK
        <4>3. local[w] \in Local /\ ps \in Seq(RawKey) /\ n \in Nat /\ p \in Nat
          BY <3>3, <4>2
        <4>4. /\ DOMAIN local' = Workers /\ local' = [v \in Workers |-> local'[v]]
              /\ \A v \in Workers \ {w} : local'[v] = local[v]
              /\ local'[w] = [local[w] EXCEPT !.pages = ps, !.pdf = p, !.name = n]
          BY <4>1, <4>2
        <4>5. local'[w] \in Local
          BY <4>3, <4>4 DEF Local
        <4> QED
          BY <4>2, <4>4, <4>5
      <3> QED
        BY <1>0, <3>1, <3>4, GotoTyped DEF Steps
    <2>2. StoresOK'
      <3>1. pc[w] = "save_mark"
        BY <1>16 DEF SaveMark, Goto, Advance
      <3>2. job[w].chat \in Chats
        BY <1>0, <3>1, JobTyped
      <3> QED
        BY <1>0, <1>16, <3>2, SessionCallsTyped DEF SaveMark, StoresOK
    <2>3. MessagesOK' /\ UsersOK' /\ HistoryOK'
      BY <1>0, <1>16 DEF SaveMark, Goto, Advance, MessagesOK, UsersOK, HistoryOK
    <2> QED
      BY <2>1, <2>2, <2>3
  <1>17. ASSUME NEW w \in Workers, SaveNothing(w)
         PROVE  TypeOK'
    <2>1. WorkersOK'
      <3>1. Goto(w, "save_mark", "finish") /\ local' = local
        BY <1>17 DEF SaveNothing
      <3> QED
        BY <1>0, <3>1, GotoTyped DEF Steps, WorkersOK
    <2>2. MessagesOK' /\ StoresOK' /\ UsersOK' /\ HistoryOK'
      BY <1>0, <1>17 DEF SaveNothing, Goto, Advance, MessagesOK, StoresOK, UsersOK, HistoryOK
    <2> QED
      BY <2>1, <2>2
  <1>18. ASSUME NEW w \in Workers, SaveCopy(w)
         PROVE  TypeOK'
    <2>1. WorkersOK'
      <3>1. Goto(w, "save_copy", "save_delete") /\ local' = local
        BY <1>18 DEF SaveCopy
      <3> QED
        BY <1>0, <3>1, GotoTyped DEF Steps, WorkersOK
    <2>2. StoresOK'
      <3>1. pc[w] = "save_copy"
        BY <1>18 DEF SaveCopy, Goto, Advance
      <3>2. FinalKey(job[w].chat, local[w].name) \in ObjectKey
        BY <1>0, <3>1, JobTyped DEF FinalKey, ObjectKey
      <3> QED
        BY <1>0, <1>18, <3>2 DEF SaveCopy, StoresOK, CanCopy, CopyObject, PutObject
    <2>3. MessagesOK' /\ UsersOK' /\ HistoryOK'
      BY <1>0, <1>18 DEF SaveCopy, Goto, Advance, MessagesOK, UsersOK, HistoryOK
    <2> QED
      BY <2>1, <2>2, <2>3
  <1>19. ASSUME NEW w \in Workers, SaveCopyMissing(w)
         PROVE  TypeOK'
    <2>1. WorkersOK'
      <3>1. pc[w] # "idle" /\ GiveBack(w)
        BY <1>19 DEF SaveCopyMissing
      <3> QED
        BY <1>0, <3>1, GiveBackTyped
    <2>2. MessagesOK'
      <3>1. pc[w] # "idle" /\ GiveBack(w)
        BY <1>19 DEF SaveCopyMissing
      <3>2. queue' \subseteq Message /\ dead' \subseteq Message
        BY <1>0, <3>1, GiveBackTyped
      <3> QED
        BY <1>0, <1>19, <3>2 DEF SaveCopyMissing, MessagesOK
    <2>3. StoresOK' /\ UsersOK' /\ HistoryOK'
      BY <1>0, <1>19 DEF SaveCopyMissing, Goto, Advance, StoresOK, UsersOK, HistoryOK
    <2> QED
      BY <2>1, <2>2, <2>3
  <1>20. ASSUME NEW w \in Workers, SaveDelete(w)
         PROVE  TypeOK'
    <2>1. WorkersOK'
      <3>1. Goto(w, "save_delete", "save_put") /\ local' = local
        BY <1>20 DEF SaveDelete
      <3> QED
        BY <1>0, <3>1, GotoTyped DEF Steps, WorkersOK
    <2>2. StoresOK'
      BY <1>0, <1>20 DEF SaveDelete, StoresOK, DeleteObject
    <2>3. MessagesOK' /\ UsersOK' /\ HistoryOK'
      BY <1>0, <1>20 DEF SaveDelete, Goto, Advance, MessagesOK, UsersOK, HistoryOK
    <2> QED
      BY <2>1, <2>2, <2>3
  <1>21. ASSUME NEW w \in Workers, SavePut(w)
         PROVE  TypeOK'
    <2>1. WorkersOK'
      <3>1. Goto(w, "save_put", "save_schedule")
        BY <1>21 DEF SavePut
      <3>2. job[w].chat \in Chats
        BY <1>0, <3>1, JobTyped DEF Goto, Advance
      <3>3. Len(letters[job[w].chat]) + 1 \in Nat
        BY <1>0, <3>2 DEF StoresOK
      <3>4. /\ local' \in [Workers -> Local]
            /\ \A v \in Workers \ {w} : local'[v] = local[v]
        BY <1>0, <1>21, <3>3 DEF SavePut, WorkersOK, Local
      <3> QED
        BY <1>0, <3>1, <3>4, GotoTyped DEF Steps
    <2>2. StoresOK'
      <3>1. pc[w] = "save_put"
        BY <1>21 DEF SavePut, Goto, Advance
      <3> DEFINE l == [name |-> local[w].name, pdf |-> local[w].pdf,
                       pages |-> local[w].pages]
      <3>2. job[w].chat \in Chats /\ l \in Letter
        BY <1>0, <3>1, JobTyped DEF Letter
      <3>3. Append(letters[job[w].chat], l) \in Seq(Letter)
        BY <1>0, <3>2 DEF StoresOK
      <3>4. letters' = [letters EXCEPT ![job[w].chat] = Append(@, l)]
        BY <1>21 DEF SavePut
      <3> HIDE DEF l
      <3> QED
        BY <1>0, <1>21, <3>2, <3>3, <3>4 DEF SavePut, StoresOK
    <2>3. MessagesOK' /\ UsersOK' /\ HistoryOK'
      BY <1>0, <1>21 DEF SavePut, Goto, Advance, MessagesOK, UsersOK, HistoryOK
    <2> QED
      BY <2>1, <2>2, <2>3
  <1>22. ASSUME NEW w \in Workers, SaveSchedule(w)
         PROVE  TypeOK'
    <2>1. WorkersOK'
      <3>1. Goto(w, "save_schedule", "save_clear") /\ local' = local
        BY <1>22 DEF SaveSchedule
      <3> QED
        BY <1>0, <3>1, GotoTyped DEF Steps, WorkersOK
    <2>2. StoresOK'
      <3>1. pc[w] = "save_schedule"
        BY <1>22 DEF SaveSchedule, Goto, Advance
      <3>2. job[w].chat \in Chats /\ local[w].letter \in Nat
        BY <1>0, <3>1, JobTyped
      <3>3. \A n \in 0..MaxReminders :
              {[chat |-> job[w].chat, letter |-> local[w].letter, kind |-> k] :
                  k \in 1..n} \subseteq Reminder
        BY <3>2, ConstantsAssumption DEF Reminder
      <3> QED
        BY <1>0, <1>22, <3>3 DEF SaveSchedule, StoresOK
    <2>3. MessagesOK' /\ UsersOK' /\ HistoryOK'
      BY <1>0, <1>22 DEF SaveSchedule, Goto, Advance, MessagesOK, UsersOK, HistoryOK
    <2> QED
      BY <2>1, <2>2, <2>3
  <1>23. ASSUME NEW w \in Workers, SaveClear(w)
         PROVE  TypeOK'
    <2>1. WorkersOK'
      <3>1. Goto(w, "save_clear", "finish") /\ local' = local
        BY <1>23 DEF SaveClear
      <3> QED
        BY <1>0, <3>1, GotoTyped DEF Steps, WorkersOK
    <2>2. StoresOK'
      <3>1. pc[w] = "save_clear"
        BY <1>23 DEF SaveClear, Goto, Advance
      <3>2. job[w].chat \in Chats
        BY <1>0, <3>1, JobTyped
      <3> QED
        BY <1>0, <1>23, <3>2, SessionCallsTyped DEF SaveClear, StoresOK
    <2>3. MessagesOK' /\ UsersOK' /\ HistoryOK'
      BY <1>0, <1>23 DEF SaveClear, Goto, Advance, MessagesOK, UsersOK, HistoryOK
    <2> QED
      BY <2>1, <2>2, <2>3
  <1>24. ASSUME NEW w \in Workers, SaveClearFails(w)
         PROVE  TypeOK'
    <2>1. WorkersOK'
      BY <1>0, <1>24 DEF SaveClearFails, WorkersOK, Steps
    <2>2. MessagesOK'
      BY <1>0, <1>24, InvocationsAssumption DEF SaveClearFails, MessagesOK
    <2>3. StoresOK' /\ UsersOK' /\ HistoryOK'
      BY <1>0, <1>24 DEF SaveClearFails, Goto, Advance, StoresOK, UsersOK, HistoryOK
    <2> QED
      BY <2>1, <2>2, <2>3
  <1>25. ASSUME NEW w \in Workers, Fail(w)
         PROVE  TypeOK'
    <2>1. WorkersOK'
      <3>1. pc[w] # "idle" /\ GiveBack(w)
        BY <1>25 DEF Fail
      <3> QED
        BY <1>0, <3>1, GiveBackTyped
    <2>2. MessagesOK'
      <3>1. pc[w] # "idle" /\ GiveBack(w)
        BY <1>25 DEF Fail
      <3>2. queue' \subseteq Message /\ dead' \subseteq Message
        BY <1>0, <3>1, GiveBackTyped
      <3> QED
        BY <1>0, <1>25, <3>2, InvocationsAssumption DEF Fail, MessagesOK
    <2>3. StoresOK' /\ UsersOK' /\ HistoryOK'
      BY <1>0, <1>25 DEF Fail, Goto, Advance, StoresOK, UsersOK, HistoryOK
    <2> QED
      BY <2>1, <2>2, <2>3
  <1>26. ASSUME NEW c \in Chats, PostPhoto(c)
         PROVE  TypeOK'
    <2>1. MessagesOK'
      <3>1. posts[c] + 1 \in Nat
        BY <1>0, ConstantsAssumption DEF UsersOK
      <3>2. [kind |-> "photo", chat |-> c, id |-> posts[c] + 1, run |-> 0,
             pages |-> <<>>, receives |-> 0] \in Message
        BY <3>1 DEF Message, Kinds
      <3> QED
        BY <1>0, <1>26, <3>2 DEF PostPhoto, Post, MessagesOK
    <2>2. UsersOK'
      BY <1>0, <1>26, ConstantsAssumption DEF PostPhoto, UsersOK
    <2>3. WorkersOK' /\ StoresOK' /\ HistoryOK'
      BY <1>0, <1>26 DEF PostPhoto, Goto, Advance, WorkersOK, StoresOK, HistoryOK
    <2> QED
      BY <2>1, <2>2, <2>3
  <1>27. ASSUME NEW c \in Chats, NEW kind \in TapKinds, PostTap(c, kind)
         PROVE  TypeOK'
    <2>1. MessagesOK'
      <3>1. taps[c][kind] + 1 \in Nat
        BY <1>0 DEF UsersOK
      <3>2. [kind |-> kind, chat |-> c, id |-> taps[c][kind] + 1, run |-> 0,
             pages |-> <<>>, receives |-> 0] \in Message
        BY <3>1 DEF Message, Kinds
      <3> QED
        BY <1>0, <1>27, <3>2 DEF PostTap, Post, MessagesOK
    <2>2. UsersOK'
      BY <1>0, <1>27 DEF PostTap, UsersOK
    <2>3. WorkersOK' /\ StoresOK' /\ HistoryOK'
      BY <1>0, <1>27 DEF PostTap, Goto, Advance, WorkersOK, StoresOK, HistoryOK
    <2> QED
      BY <2>1, <2>2, <2>3
  <1>28. ASSUME NEW w \in Workers, NEW m \in queue, Receive(w, m)
         PROVE  TypeOK'
    <2>1. WorkersOK'
      <3>1. m \in Message
        BY <1>0 DEF MessagesOK
      <3>2. [m EXCEPT !.receives = @ + 1] \in Message
        BY <3>1 DEF Message
      <3>3. Entry[m.kind] \in Steps \ {"idle", "photo_append"}
        BY <3>1 DEF Message, Kinds, TapKinds, Entry, Steps
      <3> QED
        BY <1>0, <1>28, <3>2, <3>3 DEF Receive, Deliver, WorkersOK
    <2>2. MessagesOK'
      BY <1>0, <1>28 DEF Receive, Deliver, MessagesOK
    <2>3. StoresOK' /\ UsersOK' /\ HistoryOK'
      BY <1>0, <1>28 DEF Receive, Deliver, Goto, Advance, StoresOK, UsersOK, HistoryOK
    <2> QED
      BY <2>1, <2>2, <2>3
  <1>29. ASSUME NEW c \in Chats, Expire(c) \/ Reap(c)
         PROVE  TypeOK'
    <2>1. StoresOK'
      BY <1>0, <1>29, SessionCallsTyped DEF Expire, Reap, StoresOK
    <2>2. MessagesOK' /\ WorkersOK' /\ UsersOK' /\ HistoryOK'
      BY <1>0, <1>29 DEF Expire, Reap, Goto, Advance, MessagesOK, WorkersOK, UsersOK, HistoryOK
    <2> QED
      BY <2>1, <2>2
  <1>30. ASSUME UNCHANGED vars
         PROVE  TypeOK'
    BY <1>0, <1>30 DEF vars, MessagesOK, WorkersOK, StoresOK, UsersOK, HistoryOK
  <1> QED
    BY <1>1, <1>2, <1>3, <1>4, <1>5, <1>6, <1>7, <1>8, <1>9, <1>10, <1>11,
       <1>12, <1>13, <1>14, <1>15, <1>16, <1>17, <1>18, <1>19, <1>20, <1>21,
       <1>22, <1>23, <1>24, <1>25, <1>26, <1>27, <1>28, <1>29, <1>30
    DEF Next, WorkerStep

\* Every variable has its type in every reachable state.
THEOREM TypeCorrect == Spec => []TypeOK
  BY TypeInit, TypeStep, PTL DEF Spec

-----------------------------------------------------------------------------
(* No page is sent twice.                                                  *)

\* Sending a batch adds its pages to those sent.
LEMMA PagesOfAppend ==
    ASSUME NEW S, NEW batches \in Seq(Seq(S)), NEW b \in Seq(S)
    PROVE  Pages(Append(batches, b)) = Pages(batches) \cup Range(b)
  <1> DEFINE t == Append(batches, b)
  <1>1. /\ DOMAIN t = DOMAIN batches \cup {Len(batches) + 1}
        /\ t[Len(batches) + 1] = b
        /\ \A i \in DOMAIN batches : t[i] = batches[i]
    BY ElementsOfAppend
  <1> HIDE DEF t
  <1>2. Pages(t) = Pages(batches) \cup Range(b)
    BY <1>1 DEF Pages
  <1> QED
    BY <1>2 DEF t

\* Nothing is known, taken or sent in the beginning.
LEMMA PageInit == Init => PageInv
  <1> SUFFICES ASSUME Init
               PROVE  PageInv
    OBVIOUS
  <1>1. \A c \in Chats : Range(session[c].raw) = {} /\ sealed[c] = {}
    BY RangeOfEmpty DEF Init, NoItem
  <1>2. \A c \in Chats : dispatched[c] = <<>>
    BY DEF Init
  <1>3. \A w \in Workers : pc[w] = "idle"
    BY DEF Init, InvocationsInit
  <1>4. \A c \in Chats : Pages(dispatched[c]) = {}
    <2>1. Pages(<<>>) = {}
      BY DEF Pages
    <2> QED
      BY <1>2, <2>1
  <1>5. KnownPagesAreOld /\ OpenSessionsAreUntaken
    BY <1>1 DEF KnownPagesAreOld, KnownPages, OpenSessionsAreUntaken
  <1>6. AddedPagesAreNew /\ TakenPagesAreInOnePlace
    BY <1>3, <1>4 DEF AddedPagesAreNew, Adding, TakenPagesAreInOnePlace, Sending
  <1>7. NoDoubleDispatch
    BY <1>2 DEF NoDoubleDispatch
  <1> QED
    BY <1>5, <1>6, <1>7 DEF PageInv

(***************************************************************************)
(* Most steps are quiet: no key is made, no page is added, taken or sent.  *)
(* They may clear a session or move its status on, and no worker starts to *)
(* add or to send.                                                         *)
(***************************************************************************)
SameTables == raws' = raws /\ sealed' = sealed /\ dispatched' = dispatched

SessionsMoveOn ==
    \A c \in Chats :
        \/ session'[c].raw = <<>>
        \/ /\ session'[c].raw = session[c].raw
           /\ session'[c].status = "none" => session[c].status = "none"

NobodyStarts ==
    \A v \in Workers : pc'[v] \in {"photo_append", "done_send"} =>
        pc'[v] = pc[v] /\ job'[v] = job[v] /\ local'[v] = local[v]

\* A step that adds no page, takes none and sends none keeps PageInv.
LEMMA QuietStep ==
    ASSUME PageInv, SameTables, SessionsMoveOn, NobodyStarts
    PROVE  PageInv'
  <1> USE DEF PageInv
  <1>1. \A c \in Chats : Range(session'[c].raw) \subseteq Range(session[c].raw)
    BY RangeOfEmpty DEF SessionsMoveOn
  <1>2. \A c \in Chats : KnownPages(c)' \subseteq KnownPages(c)
    BY <1>1 DEF KnownPages, SameTables
  <1>3. \A c \in Chats, v \in Workers :
            /\ Adding(v, c)' => Adding(v, c) /\ local'[v] = local[v]
            /\ Sending(v, c)' => Sending(v, c) /\ local'[v] = local[v]
    BY DEF NobodyStarts, Adding, Sending
  <1>4. KnownPagesAreOld'
    BY <1>2 DEF KnownPagesAreOld, SameTables
  <1>5. AddedPagesAreNew'
    BY <1>2, <1>3 DEF AddedPagesAreNew, SameTables
  <1>6. OpenSessionsAreUntaken'
    BY <1>1, RangeOfEmpty DEF OpenSessionsAreUntaken, SameTables, SessionsMoveOn
  <1>7. TakenPagesAreInOnePlace'
    <2>1. \A c \in Chats : Pages(dispatched[c])' = Pages(dispatched[c])
      BY DEF SameTables
    <2> QED
      BY <1>3, <2>1 DEF TakenPagesAreInOnePlace, SameTables
  <1>8. NoDoubleDispatch'
    BY DEF NoDoubleDispatch, SameTables
  <1> QED
    BY <1>4, <1>5, <1>6, <1>7, <1>8

\* Nothing changes about the pages that have been taken and not been sent.
LEMMA TakenPagesStay ==
    ASSUME TakenPagesAreInOnePlace, sealed' = sealed, dispatched' = dispatched,
           \A d \in Chats, v \in Workers :
               Sending(v, d)' => Sending(v, d) /\ local'[v] = local[v]
    PROVE  TakenPagesAreInOnePlace'
  <1> SUFFICES ASSUME NEW d \in Chats
               PROVE  /\ Pages(dispatched[d]) \subseteq sealed[d]
                      /\ \A v \in Workers : Sending(v, d)' =>
                          /\ Range(local'[v].pages) \subseteq sealed[d]
                          /\ Range(local'[v].pages) \cap Pages(dispatched[d]) = {}
                          /\ \A u \in Workers \ {v} : Sending(u, d)' =>
                              Range(local'[u].pages) \cap Range(local'[v].pages) = {}
    BY DEF TakenPagesAreInOnePlace
  <1>1. /\ Pages(dispatched[d]) \subseteq sealed[d]
        /\ \A v \in Workers : Sending(v, d) =>
            /\ Range(local[v].pages) \subseteq sealed[d]
            /\ Range(local[v].pages) \cap Pages(dispatched[d]) = {}
            /\ \A u \in Workers \ {v} : Sending(u, d) =>
                Range(local[u].pages) \cap Range(local[v].pages) = {}
    BY DEF TakenPagesAreInOnePlace
  <1> QED
    BY <1>1

\* A stored photo has a key later than every key there is.
LEMMA PhotoStorePages ==
    ASSUME TypeOK, PageInv, NEW w \in Workers, PhotoStore(w)
    PROVE  PageInv'
  <1> DEFINE c == job[w].chat
             key == [chat |-> c, at |-> raws[c] + 1]
  <1> USE DEF PageInv
  <1>1. /\ pc[w] = "photo_store"
        /\ pc' = [pc EXCEPT ![w] = "photo_append"]
        /\ job' = job /\ session' = session
        /\ sealed' = sealed /\ dispatched' = dispatched
        /\ raws' = [raws EXCEPT ![c] = @ + 1]
        /\ local' = [local EXCEPT ![w].pages = <<key>>]
    BY DEF PhotoStore, Goto, Advance, historyVars
  <1>2. c \in Chats /\ raws \in [Chats -> Nat] /\ w \in Workers
    BY <1>1, JobTyped DEF TypeOK, StoresOK
  <1>3. pc \in [Workers -> Steps] /\ local \in [Workers -> Local]
    BY DEF TypeOK, WorkersOK
  <1>4. /\ pc'[w] = "photo_append"
        /\ local'[w].pages[1] = key
        /\ \A v \in Workers \ {w} : pc'[v] = pc[v] /\ local'[v] = local[v]
    <2>1. local'[w].pages = <<key>>
      BY <1>1, <1>3 DEF Local
    <2> QED
      BY <1>1, <1>3, <2>1
  <1>5. /\ \A d \in Chats : raws[d] \in Nat /\ raws'[d] \in Nat /\ raws[d] <= raws'[d]
        /\ raws'[c] = raws[c] + 1
    BY <1>1, <1>2
  <1>6. \A d \in Chats : KnownPages(d)' = KnownPages(d)
    BY <1>1 DEF KnownPages
  <1>7. \A d \in Chats : \A k \in KnownPages(d) : k.at \in Nat
    <2>1. \A d \in Chats : Range(session[d].raw) \subseteq RawKey
      BY RangeOfSeq DEF TypeOK, StoresOK, Item
    <2>2. \A d \in Chats : KnownPages(d) \subseteq RawKey
      BY <2>1 DEF KnownPages, TypeOK, HistoryOK
    <2> QED
      BY <2>2 DEF RawKey
  <1>8. KnownPagesAreOld'
    BY <1>2, <1>5, <1>6, <1>7 DEF KnownPagesAreOld
  <1>9. key \notin KnownPages(c)
    <2>1. \A k \in KnownPages(c) : k.at <= raws[c]
      BY <1>2 DEF KnownPagesAreOld
    <2> QED
      BY <1>2, <2>1
  <1>10. \A d \in Chats, v \in Workers : Adding(v, d) =>
            local[v].pages[1] \in RawKey /\ local[v].pages[1].at <= raws[d]
    <2>1. \A v \in Workers : pc[v] = "photo_append" => local[v].pages[1] \in RawKey
      BY JobTyped, ElementOfSeq DEF TypeOK, WorkersOK
    <2> QED
      BY <2>1 DEF Adding, AddedPagesAreNew
  <1>11. AddedPagesAreNew'
    <2> SUFFICES ASSUME NEW d \in Chats, NEW v \in Workers, Adding(v, d)'
                 PROVE  /\ local'[v].pages[1].at <= raws'[d]
                        /\ local'[v].pages[1] \notin KnownPages(d)'
                        /\ \A u \in Workers \ {v} : Adding(u, d)' =>
                               local'[u].pages[1] # local'[v].pages[1]
      BY DEF AddedPagesAreNew
    <2>1. \A u \in Workers \ {w} : Adding(u, d)' <=> Adding(u, d)
      BY <1>1, <1>4 DEF Adding
    <2>2. Adding(w, d)' <=> d = c
      BY <1>1, <1>4 DEF Adding
    <2>3. \A u \in Workers \ {w} : Adding(u, c) => local[u].pages[1] # key
      BY <1>2, <1>10 DEF RawKey
    <2>4. CASE v = w
      BY <1>2, <1>4, <1>5, <1>6, <1>9, <2>1, <2>2, <2>3, <2>4
    <2>5. CASE v # w
      <3>1. Adding(v, d) /\ local'[v] = local[v]
        BY <1>4, <2>1, <2>5
      <3>2. local[v].pages[1].at <= raws'[d]
        BY <1>2, <1>5, <1>10, <3>1 DEF RawKey
      <3>3. \A u \in Workers \ {v} : Adding(u, d)' =>
                local'[u].pages[1] # local'[v].pages[1]
        BY <1>4, <2>1, <2>2, <2>3, <2>5, <3>1 DEF AddedPagesAreNew
      <3> QED
        BY <1>6, <3>1, <3>2, <3>3 DEF AddedPagesAreNew
    <2> QED
      BY <2>4, <2>5
  <1>12. OpenSessionsAreUntaken'
    BY <1>1 DEF OpenSessionsAreUntaken
  <1>13. TakenPagesAreInOnePlace'
    <2>1. \A d \in Chats, v \in Workers : Sending(v, d)' =>
              Sending(v, d) /\ local'[v] = local[v]
      BY <1>1, <1>4 DEF Sending
    <2> QED
      BY <1>1, <2>1, TakenPagesStay
  <1>14. NoDoubleDispatch'
    BY <1>1 DEF NoDoubleDispatch
  <1> QED
    BY <1>8, <1>11, <1>12, <1>13, <1>14

\* The page moves from the hands of one worker into the session.
LEMMA PhotoAppendPages ==
    ASSUME TypeOK, PageInv, NEW w \in Workers, PhotoAppend(w)
    PROVE  PageInv'
  <1> DEFINE c == job[w].chat
             key == local[w].pages[1]
  <1> USE DEF PageInv
  <1>1. /\ pc[w] = "photo_append"
        /\ pc' = [pc EXCEPT ![w] = "photo_ack"]
        /\ job' = job /\ local' = local /\ raws' = raws
        /\ sealed' = sealed /\ dispatched' = dispatched
        /\ session' = [session EXCEPT ![c] = AppendRawKey(@, key)]
    BY DEF PhotoAppend, Goto, Advance, storeVars, historyVars
  <1>2. /\ c \in Chats /\ key \in RawKey
        /\ pc \in [Workers -> Steps] /\ session \in [Chats -> Item]
        /\ sealed \in [Chats -> SUBSET RawKey]
    BY <1>1, JobTyped, ElementOfSeq DEF TypeOK, WorkersOK, StoresOK, HistoryOK
  <1>3. /\ \A d \in Chats \ {c} : session'[d] = session[d]
        /\ session'[c].status = session[c].status
        /\ session'[c].raw = Append(session[c].raw, key)
    BY <1>1, <1>2 DEF AppendRawKey, Item
  <1>4. Range(session'[c].raw) = Range(session[c].raw) \cup {key}
    <2> PICK s, x : s = session[c].raw /\ x = key
      OBVIOUS
    <2>1. s \in Seq(RawKey) /\ x \in RawKey
      BY <1>2 DEF Item
    <2>2. Range(Append(s, x)) = Range(s) \cup {x}
      BY <2>1, RangeOfAppend
    <2> QED
      BY <1>3, <2>2
  <1>5. Adding(w, c)
    BY <1>1 DEF Adding
  <1>6. key.at <= raws[c] /\ key \notin KnownPages(c)
    BY <1>2, <1>5 DEF AddedPagesAreNew
  <1>7. /\ KnownPages(c)' = KnownPages(c) \cup {key}
        /\ \A d \in Chats \ {c} : KnownPages(d)' = KnownPages(d)
    BY <1>1, <1>3, <1>4 DEF KnownPages
  <1>8. \A v \in Workers, d \in Chats :
            /\ Adding(v, d)' => Adding(v, d) /\ v # w
            /\ Sending(v, d)' => Sending(v, d)
    BY <1>1, <1>2 DEF Adding, Sending
  <1>9. KnownPagesAreOld'
    BY <1>1, <1>6, <1>7 DEF KnownPagesAreOld
  <1>10. AddedPagesAreNew'
    <2>1. \A v \in Workers : Adding(v, c) /\ v # w => local[v].pages[1] # key
      BY <1>2, <1>5 DEF AddedPagesAreNew
    <2> QED
      BY <1>1, <1>7, <1>8, <2>1 DEF AddedPagesAreNew
  <1>11. OpenSessionsAreUntaken'
    <2>1. key \notin sealed[c]
      BY <1>6 DEF KnownPages
    <2>2. ASSUME NEW d \in Chats, session'[d].status = "none"
          PROVE  Range(session'[d].raw) \cap sealed[d] = {}
      <3>1. session[d].status = "none"
        BY <1>3, <2>2
      <3>2. Range(session[d].raw) \cap sealed[d] = {}
        BY <3>1 DEF OpenSessionsAreUntaken
      <3> QED
        BY <1>3, <1>4, <2>1, <3>2
    <2> QED
      BY <1>1, <2>2 DEF OpenSessionsAreUntaken
  <1>12. TakenPagesAreInOnePlace'
    BY <1>1, <1>8, TakenPagesStay
  <1>13. NoDoubleDispatch'
    BY <1>1 DEF NoDoubleDispatch
  <1> QED
    BY <1>9, <1>10, <1>11, <1>12, <1>13

\* Done takes an open session, whose pages nobody has taken before.
LEMMA DoneMarkPages ==
    ASSUME TypeOK, PageInv, NEW w \in Workers, DoneMark(w)
    PROVE  PageInv'
  <1> DEFINE c == job[w].chat
             taken == Range(session[c].raw)
  <1> USE DEF PageInv
  <1>1. /\ pc[w] = "done_mark"
        /\ session[c].status = "none"
        /\ pc' = [pc EXCEPT ![w] = "done_send"]
        /\ job' = job /\ raws' = raws /\ dispatched' = dispatched
        /\ session' = [session EXCEPT ![c] = MarkAwaitingProcessing(@)]
        /\ local' = [local EXCEPT ![w].pages = session[c].raw]
        /\ sealed' = [sealed EXCEPT ![c] = @ \cup taken]
    BY DEF DoneMark, Goto, Advance, storeVars, CanMarkAwaitingProcessing
  <1>2. /\ c \in Chats
        /\ pc \in [Workers -> Steps] /\ session \in [Chats -> Item]
        /\ local \in [Workers -> Local]
        /\ sealed \in [Chats -> SUBSET RawKey]
    BY <1>1, JobTyped DEF TypeOK, WorkersOK, StoresOK, HistoryOK
  <1>3. /\ \A d \in Chats \ {c} : session'[d] = session[d]
        /\ session'[c].status = "awaiting_processing"
        /\ session'[c].raw = session[c].raw
    BY <1>1, <1>2 DEF MarkAwaitingProcessing, Item
  <1>4. /\ local'[w].pages = session[c].raw
        /\ \A v \in Workers \ {w} : local'[v] = local[v] /\ pc'[v] = pc[v]
        /\ pc'[w] = "done_send"
    BY <1>1, <1>2 DEF Local
  <1>5. /\ sealed'[c] = sealed[c] \cup taken
        /\ \A d \in Chats \ {c} : sealed'[d] = sealed[d]
    BY <1>1, <1>2
  <1>6. \A d \in Chats : KnownPages(d)' = KnownPages(d)
    BY <1>3, <1>5 DEF KnownPages
  <1>7. \A v \in Workers, d \in Chats :
            /\ Adding(v, d)' => Adding(v, d) /\ v # w
            /\ Sending(v, d)' <=> Sending(v, d) \/ (v = w /\ d = c)
    BY <1>1, <1>2 DEF Adding, Sending
  <1>8. taken \cap sealed[c] = {}
    BY <1>1, <1>2 DEF OpenSessionsAreUntaken
  <1>9. KnownPagesAreOld'
    BY <1>1, <1>6 DEF KnownPagesAreOld
  <1>10. AddedPagesAreNew'
    BY <1>1, <1>4, <1>6, <1>7 DEF AddedPagesAreNew
  <1>11. OpenSessionsAreUntaken'
    BY <1>3, <1>5 DEF OpenSessionsAreUntaken
  <1>12. TakenPagesAreInOnePlace'
    <2>1. \A d \in Chats : Pages(dispatched[d])' = Pages(dispatched[d])
      BY <1>1
    <2>2. Pages(dispatched[c]) \cap taken = {}
      BY <1>2, <1>8 DEF TakenPagesAreInOnePlace
    <2>3. \A v \in Workers : Sending(v, c) => Range(local[v].pages) \cap taken = {}
      BY <1>2, <1>8 DEF TakenPagesAreInOnePlace
    <2>4. \A d \in Chats, v \in Workers : Sending(v, d) => v # w
      BY <1>1 DEF Sending
    <2>5. \A d \in Chats : sealed[d] \subseteq sealed'[d]
      BY <1>5
    <2>6. Range(local'[w].pages) = taken
      BY <1>4
    <2> HIDE DEF taken
    <2> SUFFICES ASSUME NEW d \in Chats
                 PROVE  /\ Pages(dispatched[d])' \subseteq sealed'[d]
                        /\ \A v \in Workers : Sending(v, d)' =>
                            /\ Range(local'[v].pages) \subseteq sealed'[d]
                            /\ Range(local'[v].pages) \cap Pages(dispatched[d])' = {}
                            /\ \A u \in Workers \ {v} : Sending(u, d)' =>
                                Range(local'[u].pages) \cap Range(local'[v].pages) = {}
      BY DEF TakenPagesAreInOnePlace
    <2>7. CASE d # c
      BY <1>4, <1>7, <2>1, <2>4, <2>5, <2>7 DEF TakenPagesAreInOnePlace
    <2>8. CASE d = c
      <3>1. /\ sealed'[d] = sealed[d] \cup taken
            /\ Pages(dispatched[d]) \cap taken = {}
            /\ \A v \in Workers : Sending(v, d) => Range(local[v].pages) \cap taken = {}
        BY <1>5, <2>2, <2>3, <2>8
      <3>2. /\ Pages(dispatched[d]) \subseteq sealed[d]
            /\ \A v \in Workers : Sending(v, d) =>
                /\ Range(local[v].pages) \subseteq sealed[d]
                /\ Range(local[v].pages) \cap Pages(dispatched[d]) = {}
                /\ \A u \in Workers \ {v} : Sending(u, d) =>
                    Range(local[u].pages) \cap Range(local[v].pages) = {}
        BY DEF TakenPagesAreInOnePlace
      <3>3. \A v \in Workers : Sending(v, d)' =>
                \/ v = w
                \/ v # w /\ Sending(v, d) /\ local'[v] = local[v]
        BY <1>4, <1>7
      <3> QED
        BY <2>1, <2>6, <3>1, <3>2, <3>3
    <2> QED
      BY <2>7, <2>8
  <1>13. NoDoubleDispatch'
    BY <1>1 DEF NoDoubleDispatch
  <1> QED
    BY <1>9, <1>10, <1>11, <1>12, <1>13

\* The batch moves from the worker that took it to images-to-process.
LEMMA DoneSendPages ==
    ASSUME TypeOK, PageInv, NEW w \in Workers, DoneSend(w)
    PROVE  PageInv'
  <1> DEFINE c == job[w].chat
             b == local[w].pages
  <1> USE DEF PageInv
  <1>1. /\ pc[w] = "done_send"
        /\ pc' = [pc EXCEPT ![w] = "finish"]
        /\ job' = job /\ local' = local /\ raws' = raws
        /\ session' = session /\ sealed' = sealed
        /\ dispatched' = [dispatched EXCEPT ![c] = Append(@, b)]
    BY DEF DoneSend, Goto, Advance, storeVars
  <1>2. /\ c \in Chats /\ b \in Seq(RawKey)
        /\ pc \in [Workers -> Steps]
        /\ dispatched \in [Chats -> Seq(Seq(RawKey))]
    BY <1>1, JobTyped DEF TypeOK, WorkersOK, HistoryOK
  <1>3. /\ dispatched'[c] = Append(dispatched[c], b)
        /\ \A d \in Chats \ {c} : dispatched'[d] = dispatched[d]
    BY <1>1, <1>2
  <1>4. /\ Pages(dispatched'[c]) = Pages(dispatched[c]) \cup Range(b)
        /\ \A d \in Chats \ {c} : Pages(dispatched'[d]) = Pages(dispatched[d])
    <2>1. dispatched[c] \in Seq(Seq(RawKey))
      BY <1>2
    <2>2. Pages(Append(dispatched[c], b)) = Pages(dispatched[c]) \cup Range(b)
      BY <1>2, <2>1, PagesOfAppend
    <2> QED
      BY <1>3, <2>2
  <1>5. Sending(w, c)
    BY <1>1 DEF Sending
  <1>6. \A v \in Workers, d \in Chats :
            /\ Adding(v, d)' => Adding(v, d)
            /\ Sending(v, d)' => Sending(v, d) /\ v # w
    BY <1>1, <1>2 DEF Adding, Sending
  <1>7. /\ Range(b) \subseteq sealed[c]
        /\ Range(b) \cap Pages(dispatched[c]) = {}
        /\ \A v \in Workers \ {w} : Sending(v, c) =>
               Range(local[v].pages) \cap Range(b) = {}
    BY <1>2, <1>5 DEF TakenPagesAreInOnePlace
  <1>8. KnownPagesAreOld' /\ AddedPagesAreNew' /\ OpenSessionsAreUntaken'
    BY <1>1, <1>6 DEF KnownPagesAreOld, KnownPages, AddedPagesAreNew,
                      OpenSessionsAreUntaken
  <1>9. TakenPagesAreInOnePlace'
    <2> SUFFICES ASSUME NEW d \in Chats
                 PROVE  /\ Pages(dispatched'[d]) \subseteq sealed[d]
                        /\ \A v \in Workers : Sending(v, d)' =>
                            /\ Range(local[v].pages) \subseteq sealed[d]
                            /\ Range(local[v].pages) \cap Pages(dispatched'[d]) = {}
                            /\ \A u \in Workers \ {v} : Sending(u, d)' =>
                                Range(local[u].pages) \cap Range(local[v].pages) = {}
      BY <1>1 DEF TakenPagesAreInOnePlace
    <2>1. CASE d # c
      BY <1>4, <1>6, <2>1 DEF TakenPagesAreInOnePlace
    <2>2. CASE d = c
      <3>1. /\ Pages(dispatched[c]) \subseteq sealed[c]
            /\ \A v \in Workers : Sending(v, c) =>
                /\ Range(local[v].pages) \subseteq sealed[c]
                /\ Range(local[v].pages) \cap Pages(dispatched[c]) = {}
                /\ \A u \in Workers \ {v} : Sending(u, c) =>
                    Range(local[u].pages) \cap Range(local[v].pages) = {}
        BY <1>2 DEF TakenPagesAreInOnePlace
      <3> DEFINE old == Pages(dispatched[c])
                 new == Pages(dispatched'[c])
      <3>2. new = old \cup Range(b)
        BY <1>4
      <3>3. Pages(dispatched'[d]) = new
        BY <2>2
      <3> HIDE DEF old, new
      <3> QED
        BY <1>6, <1>7, <2>2, <3>1, <3>2, <3>3 DEF old
    <2> QED
      BY <2>1, <2>2
  <1>10. NoDoubleDispatch'
    <2> DEFINE n == Len(dispatched[c]) + 1
    <2>1. /\ DOMAIN dispatched'[c] = DOMAIN dispatched[c] \cup {n}
          /\ dispatched'[c][n] = b
          /\ \A i \in DOMAIN dispatched[c] : dispatched'[c][i] = dispatched[c][i]
      <3>1. dispatched[c] \in Seq(Seq(RawKey))
        BY <1>2
      <3>2. dispatched'[c] = Append(dispatched[c], b)
        BY <1>3
      <3> PICK s, x : s = dispatched[c] /\ x = b
        OBVIOUS
      <3>3. s \in Seq(Seq(RawKey)) /\ x \in Seq(RawKey)
        BY <1>2, <3>1
      <3>4. /\ DOMAIN Append(s, x) = DOMAIN s \cup {Len(s) + 1}
            /\ Append(s, x)[Len(s) + 1] = x
            /\ \A i \in DOMAIN s : Append(s, x)[i] = s[i]
        BY <3>3, BatchAppended
      <3> QED
        BY <3>2, <3>4
    <2>2. \A i \in DOMAIN dispatched[c] :
              Range(dispatched[c][i]) \subseteq Pages(dispatched[c])
      BY DEF Pages
    <2>3. \A i \in DOMAIN dispatched[c] : Range(dispatched[c][i]) \cap Range(b) = {}
      BY <1>7, <2>2
    <2> HIDE DEF n
    <2>4. \A i, j \in DOMAIN dispatched'[c] : i # j =>
              Range(dispatched'[c][i]) \cap Range(dispatched'[c][j]) = {}
      BY <1>2, <2>1, <2>3 DEF NoDoubleDispatch
    <2> QED
      BY <1>3, <2>4 DEF NoDoubleDispatch
  <1> QED
    BY <1>8, <1>9, <1>10

\* No other step makes a key, adds, takes or sends a page.
LEMMA OtherSteps ==
    ASSUME TypeOK, [Next]_vars,
           ~ \E w \in Workers : \/ PhotoStore(w) \/ PhotoAppend(w)
                                \/ DoneMark(w) \/ DoneSend(w)
    PROVE  SameTables /\ SessionsMoveOn /\ NobodyStarts
  <1> USE DEF SameTables, SessionsMoveOn, NobodyStarts, storeVars, historyVars
  <1>1. /\ session \in [Chats -> Item] /\ pc \in [Workers -> Steps]
        /\ job \in [Workers -> Message \cup {NoMessage}]
        /\ local \in [Workers -> Local]
        /\ queue \subseteq Message
    BY DEF TypeOK, StoresOK, WorkersOK, MessagesOK
  <1>2. ASSUME NEW w \in Workers, Finish(w) \/ Fail(w) \/ TessReject(w) \/ SaveCopyMissing(w)
        PROVE  SameTables /\ SessionsMoveOn /\ NobodyStarts
    BY <1>1, <1>2 DEF Finish, Fail, TessReject, SaveCopyMissing, GiveBack, Return, Rest
  <1>3. ASSUME NEW w \in Workers,
               \/ PhotoAck(w) \/ DoneEmpty(w) \/ DoneGet(w) \/ DoneAlready(w)
               \/ TessRun(w) \/ ProcPreview(w) \/ SaveNothing(w)
        PROVE  SameTables /\ SessionsMoveOn /\ NobodyStarts
    BY <1>1, <1>3 DEF PhotoAck, DoneEmpty, DoneGet, DoneAlready, TessRun,
                      ProcPreview, SaveNothing, Goto, Advance
  <1>4. ASSUME NEW w \in Workers,
               \/ ProcStore(w) \/ SaveCopy(w) \/ SaveDelete(w) \/ SavePut(w)
               \/ SaveSchedule(w) \/ SaveClearFails(w)
        PROVE  SameTables /\ SessionsMoveOn /\ NobodyStarts
    BY <1>1, <1>4 DEF ProcStore, SaveCopy, SaveDelete, SavePut, SaveSchedule,
                      SaveClearFails, Goto, Advance
  <1>5. ASSUME NEW w \in Workers, ClearSession(w) \/ SaveClear(w)
        PROVE  SameTables /\ SessionsMoveOn /\ NobodyStarts
    BY <1>1, <1>5 DEF ClearSession, SaveClear, Goto, Advance, Clear, NoItem
  <1>6. ASSUME NEW w \in Workers, SaveMark(w)
        PROVE  SameTables /\ SessionsMoveOn /\ NobodyStarts
    <2>1. /\ SameTables /\ NobodyStarts
          /\ session' = [session EXCEPT ![job[w].chat] = MarkSaving(@)]
      BY <1>1, <1>6 DEF SaveMark, Goto, Advance
    <2>2. \A s \in Item : MarkSaving(s).raw = s.raw /\ MarkSaving(s).status = "saving"
      BY DEF MarkSaving, Item
    <2> QED
      BY <1>1, <2>1, <2>2
  <1>7. ASSUME NEW w \in Workers, ProcPending(w)
        PROVE  SameTables /\ SessionsMoveOn /\ NobodyStarts
    <2>1. SameTables /\ NobodyStarts
      BY <1>1, <1>7 DEF ProcPending, Goto, Advance
    <2>2. PICK cl : session' = [session EXCEPT ![job[w].chat] =
                        SetPendingConfirmation(@, local[w].pdf, cl)]
      BY <1>7 DEF ProcPending
    <2>3. \A s \in Item :
            /\ SetPendingConfirmation(s, local[w].pdf, cl).raw = s.raw
            /\ SetPendingConfirmation(s, local[w].pdf, cl).status =
                   "pending_confirmation"
      BY DEF SetPendingConfirmation, Item
    <2> QED
      BY <1>1, <2>1, <2>2, <2>3
  <1>8. ASSUME NEW c \in Chats, PostPhoto(c) \/ \E kind \in TapKinds : PostTap(c, kind)
        PROVE  SameTables /\ SessionsMoveOn /\ NobodyStarts
    BY <1>8 DEF PostPhoto, PostTap
  <1>9. ASSUME NEW w \in Workers, NEW m \in queue, Receive(w, m)
         PROVE  SameTables /\ SessionsMoveOn /\ NobodyStarts
    <2>1. Entry[m.kind] \notin {"photo_append", "done_send"}
      BY <1>1 DEF Message, Kinds, TapKinds, Entry
    <2> QED
      BY <1>1, <1>9, <2>1 DEF Receive, Deliver
  <1>10. ASSUME NEW c \in Chats, Expire(c) \/ Reap(c)
         PROVE  SameTables /\ SessionsMoveOn /\ NobodyStarts
    <2>1. /\ SameTables /\ NobodyStarts
          /\ \/ session' = [session EXCEPT ![c] = Lapse(@)]
             \/ session' = [session EXCEPT ![c] = Clear(@)]
      BY <1>10 DEF Expire, Reap
    <2>2. \A s \in Item : /\ Lapse(s).raw = s.raw /\ Lapse(s).status = s.status
                          /\ Clear(s).raw = <<>>
      BY DEF Lapse, Item, Clear, NoItem
    <2> QED
      BY <1>1, <2>1, <2>2
  <1>11. ASSUME UNCHANGED vars
         PROVE  SameTables /\ SessionsMoveOn /\ NobodyStarts
    BY <1>11 DEF vars
  <1> QED
    BY <1>2, <1>3, <1>4, <1>5, <1>6, <1>7, <1>8, <1>9, <1>10, <1>11
    DEF Next, WorkerStep

\* PageInv is inductive, given the types.
LEMMA PageStep == TypeOK /\ PageInv /\ [Next]_vars => PageInv'
  <1> SUFFICES ASSUME TypeOK, PageInv, [Next]_vars
               PROVE  PageInv'
    OBVIOUS
  <1>1. CASE \E w \in Workers : \/ PhotoStore(w) \/ PhotoAppend(w)
                                \/ DoneMark(w) \/ DoneSend(w)
    BY <1>1, PhotoStorePages, PhotoAppendPages, DoneMarkPages, DoneSendPages
  <1>2. CASE ~ \E w \in Workers : \/ PhotoStore(w) \/ PhotoAppend(w)
                                  \/ DoneMark(w) \/ DoneSend(w)
    BY <1>2, OtherSteps, QuietStep
  <1> QED
    BY <1>1, <1>2

\* The invariant that explains why no page is sent twice always holds.
THEOREM PagesInOnePlace == Spec => []PageInv
  BY TypeInit, TypeStep, PageInit, PageStep, PTL DEF Spec

(***************************************************************************)
(* The conditional update of handleDone is guard enough: however many      *)
(* workers, presses, redeliveries and failures there are, no page of a chat*)
(* is in two of the batches sent to images-to-process.                     *)
(***************************************************************************)
THEOREM NoPageSentTwice == Spec => []NoDoubleDispatch
  <1>1. PageInv => NoDoubleDispatch
    BY DEF PageInv
  <1> QED
    BY <1>1, PagesInOnePlace, PTL

-----------------------------------------------------------------------------
(* Done loses no page, as long as nothing fails.                           *)

SendersStay ==
    \A v \in Workers : pc[v] = "done_send" =>
        pc'[v] = pc[v] /\ job'[v] = job[v] /\ local'[v] = local[v]

\* Without a failure, only handleDone itself touches what it has taken.
LEMMA OthersLeaveSenders ==
    ASSUME TypeOK, [Next]_vars, failures' = 0,
           ~ \E w \in Workers : DoneMark(w) \/ DoneSend(w)
    PROVE  /\ failures = 0 /\ sealed' = sealed /\ dispatched' = dispatched
           /\ SendersStay
  <1> DEFINE Goal == /\ failures = 0 /\ sealed' = sealed
                     /\ dispatched' = dispatched /\ SendersStay
  <1> USE DEF SendersStay, storeVars, historyVars, userVars
  <1>1. /\ pc \in [Workers -> Steps]
        /\ job \in [Workers -> Message \cup {NoMessage}]
        /\ local \in [Workers -> Local]
        /\ failures \in Nat
    BY InvocationsAssumption DEF TypeOK, WorkersOK, MessagesOK
  <1>2. ASSUME NEW w \in Workers, Fail(w) \/ SaveClearFails(w)
        PROVE  Goal
    BY <1>1, <1>2 DEF Fail, SaveClearFails
  <1>3. ASSUME NEW w \in Workers, Finish(w) \/ TessReject(w) \/ SaveCopyMissing(w)
        PROVE  Goal
    BY <1>1, <1>3 DEF Finish, TessReject, SaveCopyMissing, GiveBack, Return, Rest
  <1>4. ASSUME NEW w \in Workers,
               \/ PhotoStore(w) \/ PhotoAppend(w) \/ PhotoAck(w)
               \/ DoneEmpty(w) \/ DoneGet(w) \/ DoneAlready(w)
               \/ ClearSession(w) \/ TessRun(w)
        PROVE  Goal
    BY <1>1, <1>4 DEF PhotoStore, PhotoAppend, PhotoAck, DoneEmpty, DoneGet,
                      DoneAlready, ClearSession, TessRun, Goto, Advance
  <1>5. ASSUME NEW w \in Workers,
               \/ ProcStore(w) \/ ProcPending(w) \/ ProcPreview(w)
               \/ SaveMark(w) \/ SaveNothing(w) \/ SaveCopy(w) \/ SaveDelete(w)
        PROVE  Goal
    BY <1>1, <1>5 DEF ProcStore, ProcPending, ProcPreview, SaveMark,
                      SaveNothing, SaveCopy, SaveDelete, Goto, Advance
  <1>6. ASSUME NEW w \in Workers, SavePut(w) \/ SaveSchedule(w) \/ SaveClear(w)
        PROVE  Goal
    BY <1>1, <1>6 DEF SavePut, SaveSchedule, SaveClear, Goto, Advance
  <1>7. ASSUME NEW w \in Workers, NEW m \in queue, Receive(w, m)
        PROVE  Goal
    BY <1>1, <1>7 DEF Receive, Deliver
  <1>8. ASSUME NEW c \in Chats,
               \/ PostPhoto(c) \/ Expire(c) \/ Reap(c)
               \/ \E kind \in TapKinds : PostTap(c, kind)
        PROVE  Goal
    BY <1>8 DEF PostPhoto, PostTap, Expire, Reap
  <1>9. ASSUME UNCHANGED vars
        PROVE  Goal
    BY <1>9 DEF vars
  <1> QED
    BY <1>2, <1>3, <1>4, <1>5, <1>6, <1>7, <1>8, <1>9 DEF Next, WorkerStep

\* SealedPagesSent is inductive, given the types: a failure ends its premise.
LEMMA SealedStep == TypeOK /\ SealedPagesSent /\ [Next]_vars => SealedPagesSent'
  <1> SUFFICES ASSUME TypeOK, SealedPagesSent, [Next]_vars, failures' = 0,
                      NEW d \in Chats
               PROVE  sealed'[d] \subseteq Pages(dispatched'[d]) \cup BeingSent(d)'
    BY DEF SealedPagesSent
  <1>1. /\ pc \in [Workers -> Steps] /\ local \in [Workers -> Local]
        /\ sealed \in [Chats -> SUBSET RawKey]
        /\ dispatched \in [Chats -> Seq(Seq(RawKey))]
    BY DEF TypeOK, WorkersOK, HistoryOK
  <1>2. ASSUME NEW w \in Workers, DoneMark(w)
        PROVE  sealed'[d] \subseteq Pages(dispatched'[d]) \cup BeingSent(d)'
    <2>1. /\ pc[w] = "done_mark"
          /\ pc' = [pc EXCEPT ![w] = "done_send"]
          /\ job' = job /\ failures' = failures /\ dispatched' = dispatched
          /\ local' = [local EXCEPT ![w].pages = session[job[w].chat].raw]
          /\ sealed' = [sealed EXCEPT ![job[w].chat] =
                            @ \cup Range(session[job[w].chat].raw)]
      BY <1>2 DEF DoneMark, Goto, Advance
    <2>2. sealed[d] \subseteq Pages(dispatched[d]) \cup BeingSent(d)
      BY <2>1 DEF SealedPagesSent
    <2>3. BeingSent(d) \subseteq BeingSent(d)'
      <3>1. \A v \in Workers : Sending(v, d) => Sending(v, d)' /\ local'[v] = local[v]
        BY <1>1, <2>1 DEF Sending
      <3> QED
        BY <3>1 DEF BeingSent
    <2>4. d = job[w].chat =>
              Range(session[job[w].chat].raw) \subseteq BeingSent(d)'
      <3>1. local'[w].pages = session[job[w].chat].raw
        BY <1>1, <2>1 DEF Local
      <3>2. d = job[w].chat => Sending(w, d)'
        BY <1>1, <2>1 DEF Sending
      <3> QED
        BY <3>1, <3>2 DEF BeingSent
    <2> QED
      BY <1>1, <2>1, <2>2, <2>3, <2>4
  <1>3. ASSUME NEW w \in Workers, DoneSend(w)
        PROVE  sealed'[d] \subseteq Pages(dispatched'[d]) \cup BeingSent(d)'
    <2>1. /\ pc[w] = "done_send"
          /\ pc' = [pc EXCEPT ![w] = "finish"]
          /\ job' = job /\ failures' = failures /\ local' = local
          /\ sealed' = sealed
          /\ dispatched' = [dispatched EXCEPT ![job[w].chat] =
                                Append(@, local[w].pages)]
      BY <1>3 DEF DoneSend, Goto, Advance
    <2>2. sealed[d] \subseteq Pages(dispatched[d]) \cup BeingSent(d)
      BY <2>1 DEF SealedPagesSent
    <2>3. local[w].pages \in Seq(RawKey)
      BY <1>1 DEF Local
    <2>4. Pages(dispatched'[d]) = IF d = job[w].chat
                                  THEN Pages(dispatched[d]) \cup Range(local[w].pages)
                                  ELSE Pages(dispatched[d])
      <3>1. Pages(Append(dispatched[d], local[w].pages))
                = Pages(dispatched[d]) \cup Range(local[w].pages)
        BY <1>1, <2>3, PagesOfAppend
      <3> QED
        BY <1>1, <2>1, <3>1
    <2>5. ASSUME NEW k \in BeingSent(d)
          PROVE  k \in BeingSent(d)' \/ k \in Pages(dispatched'[d])
      <3>1. PICK v \in Workers : Sending(v, d) /\ k \in Range(local[v].pages)
        BY <2>5 DEF BeingSent
      <3>2. CASE v = w
        BY <2>4, <3>1, <3>2 DEF Sending
      <3>3. CASE v # w
        <4>1. Sending(v, d)'
          BY <1>1, <2>1, <3>1, <3>3 DEF Sending
        <4> QED
          BY <2>1, <3>1, <4>1 DEF BeingSent
      <3> QED
        BY <3>2, <3>3
    <2> QED
      BY <2>1, <2>2, <2>4, <2>5
  <1>4. CASE ~ \E w \in Workers : DoneMark(w) \/ DoneSend(w)
    <2>1. /\ failures = 0 /\ sealed' = sealed /\ dispatched' = dispatched
          /\ SendersStay
      BY <1>4, OthersLeaveSenders
    <2>2. sealed[d] \subseteq Pages(dispatched[d]) \cup BeingSent(d)
      BY <2>1 DEF SealedPagesSent
    <2>3. \A v \in Workers : Sending(v, d) => Sending(v, d)' /\ local'[v] = local[v]
      BY <2>1 DEF Sending, SendersStay
    <2>4. BeingSent(d) \subseteq BeingSent(d)'
      BY <2>3 DEF BeingSent
    <2> QED
      BY <2>1, <2>2, <2>4
  <1> QED
    BY <1>2, <1>3, <1>4

(***************************************************************************)
(* Until something fails, every page of a session that Done has taken is in*)
(* a batch that was sent, or in the hands of the worker that is sending it:*)
(* reading the session twice (Get, then the update) loses no page.         *)
(***************************************************************************)
THEOREM NoTakenPageLost == Spec => []SealedPagesSent
  <1>1. Init => SealedPagesSent
    BY DEF Init, SealedPagesSent
  <1> QED
    BY <1>1, TypeInit, TypeStep, SealedStep, PTL DEF Spec
=============================================================================
