--------------------------- MODULE Archive_proofs ---------------------------
(***************************************************************************)
(* Theorems about Archive, for any number of letters, chats, workers,      *)
(* presses and failures, and whether or not reads may be stale.            *)
(***************************************************************************)
EXTENDS Archive, FiniteSetTheorems, SequenceTheorems, TLAPS

\* Where a worker deals with a letter it has read.
LetterSteps == {"view_send", "pdf_send", "delete_copy", "delete_remove",
                "delete_mark", "delete_ack"}

ReminderSteps == {"remview_send", "cancel", "cancel_ack"}

HeldSteps == LetterSteps \cup ReminderSteps

(***************************************************************************)
(* A worker's step fits the request it works on, and the item of a letter  *)
(* stays in the table while a worker deals with it.                        *)
(***************************************************************************)
Fit(step, kind) ==
    /\ step \in {"archorg", "archorg_send"} => kind = "archorg"
    /\ step \in {"archyr", "archyr_send"} => kind = "archyr"
    /\ step = "get" => kind \in LetterButtons \cup ReminderButtons
    /\ step \in LetterSteps => kind \in LetterButtons
    /\ step \in ReminderSteps => kind \in ReminderButtons

StepsFit == \A w \in Workers : Fit(pc[w], job[w].ask.kind)

ItemsStay ==
    \A w \in Workers : pc[w] \in HeldSteps => letters[job[w].ask.letter] # NoItem

TypeInv == TypeOK /\ StepsFit /\ ItemsStay

-----------------------------------------------------------------------------
(* Requests, queries and listings.                                         *)

\* A request carries what its kind needs.
LEMMA AskTyped ==
    ASSUME NEW ask \in Asks
    PROVE  /\ ask.kind \in Requests
           /\ ask.kind = "archorg" => ask.slug \in Slugs
           /\ ask.kind = "archyr" => ask.slug \in Slugs /\ ask.year \in Years
           /\ ask.kind \in LetterButtons \cup ReminderButtons =>
                  ask.letter \in Letters /\ About([ask |-> ask], ask.letter)
           /\ ask.kind \in ReminderButtons =>
                  /\ ask.rem \in ReminderKinds
                  /\ [ask EXCEPT !.kind = "cancelrem"] \in Asks
  <1> USE DEF Requests, Commands, DrillButtons, LetterButtons, ReminderButtons
  <1>1. CASE ask \in [kind : Commands]
    BY <1>1
  <1>2. CASE ask \in [kind : {"archorg"}, slug : Slugs]
    BY <1>2
  <1>3. CASE ask \in [kind : {"archyr"}, slug : Slugs, year : Years]
    BY <1>3
  <1>4. CASE ask \in [kind : LetterButtons, letter : Letters]
    BY <1>4 DEF About
  <1>5. CASE ask \in [kind : ReminderButtons, letter : Letters, rem : ReminderKinds]
    BY <1>5 DEF About, Asks
  <1> QED
    BY <1>1, <1>2, <1>3, <1>4, <1>5 DEF Asks

\* What a query finds are letters.
LEMMA QueriesFindLetters ==
    ASSUME NEW table, NEW c, NEW prefix
    PROVE  /\ queryOrgYear(table, c, prefix) \subseteq Items(table, c)
           /\ Query(table, c) \subseteq Items(table, c)
           /\ Items(table, c) \subseteq Letters
  BY DEF queryOrgYear, Query, NotDeleted, FirstOf, Items

\* Two tokens make a sequence.
LEMMA PairOfTokens ==
    ASSUME NEW S, NEW x \in S, NEW y \in S
    PROVE  /\ <<x, y>> \in Seq(S) /\ Len(<<x, y>>) = 2
           /\ <<x, y>>[1] = x /\ <<x, y>>[2] = y
  OBVIOUS

(***************************************************************************)
(* The key that handleArchiveYear asks for is the slug, "#" and the year,  *)
(* all of them sequences of the same kind of token.                        *)
(***************************************************************************)
LEMMA YearKey ==
    ASSUME NEW l \in Letters, NEW j \in Letters
    PROVE  LET key == OrgYearPrefix(Slug[l], Year[j]) IN
           /\ Len(Slug[l]) \in Nat
           /\ Len(key) = Len(Slug[l]) + 2
           /\ \A i \in 1..Len(Slug[l]) : key[i] = Slug[l][i]
           /\ key[Len(Slug[l]) + 1] = "#"
           /\ key[Len(Slug[l]) + 2] = Year[j]
  <1> DEFINE S == STRING \cup {"#", Year[j]}
  <1>1. PICK s, t, x, y :
            /\ s = Slug[l] /\ t = <<x, y>> /\ x = "#" /\ y = Year[j]
    OBVIOUS
  <1>2. s \in Seq(S) /\ x \in S /\ y \in S
    <2>1. s \in Seq(STRING)
      BY <1>1, LettersAssumption
    <2> QED
      BY <1>1, <2>1
  <1> HIDE DEF S
  <1>3. t \in Seq(S) /\ Len(t) = 2 /\ t[1] = x /\ t[2] = y
    BY <1>1, <1>2, PairOfTokens
  <1>4. Len(s) \in Nat
    BY <1>2
  <1>5. /\ Len(s \o t) = Len(s) + Len(t)
        /\ \A i \in 1..Len(s) + Len(t) :
               (s \o t)[i] = IF i <= Len(s) THEN s[i] ELSE t[i - Len(s)]
    BY <1>2, <1>3, ConcatProperties
  <1>6. OrgYearPrefix(Slug[l], Year[j]) = s \o t
    BY <1>1 DEF OrgYearPrefix
  <1>7. \A i \in 1..Len(s) : i \in 1..Len(s) + Len(t) /\ i <= Len(s)
    BY <1>3, <1>4
  <1>8. /\ Len(s) + 1 \in 1..Len(s) + Len(t) /\ Len(s) + 2 \in 1..Len(s) + Len(t)
        /\ ~ (Len(s) + 1 <= Len(s)) /\ ~ (Len(s) + 2 <= Len(s))
        /\ Len(s) + 1 - Len(s) = 1 /\ Len(s) + 2 - Len(s) = 2
    BY <1>3, <1>4
  <1> QED
    BY <1>1, <1>3, <1>4, <1>5, <1>6, <1>7, <1>8

\* The sort key of a letter.
LEMMA SortKey ==
    ASSUME NEW l \in Letters
    PROVE  /\ Len(Slug[l]) \in Nat
           /\ Len(OrgYear(l)) = Len(Slug[l]) + 2
           /\ \A i \in 1..Len(Slug[l]) : OrgYear(l)[i] = Slug[l][i]
           /\ OrgYear(l)[Len(Slug[l]) + 1] = "#"
           /\ OrgYear(l)[Len(Slug[l]) + 2] = Year[l]
  BY YearKey DEF OrgYear, OrgYearPrefix

\* The year in a sort key is the letter's.
LEMMA YearInKey ==
    ASSUME NEW l \in Letters
    PROVE  YearOf(l) = Year[l] /\ YearOf(l) \in Years
  BY SortKey DEF YearOf, Last, Years

\* The rows of a listing are requests.
LEMMA RowsAreAsks ==
    ASSUME NEW found \in SUBSET Letters
    PROVE  /\ OrganizationRows(found) \subseteq Asks
           /\ \A slug \in Slugs : YearRows(slug, found) \subseteq Asks
           /\ LetterRows(found) \subseteq Asks
  <1>1. Organizations(found) \subseteq Slugs
    BY DEF Organizations, Slugs
  <1>2. YearsOf(found) \subseteq Years
    BY YearInKey DEF YearsOf
  <1> QED
    BY <1>1, <1>2 DEF OrganizationRows, YearRows, LetterRows, Asks, LetterButtons

-----------------------------------------------------------------------------
(* Types.                                                                  *)

\* Every letter has just been saved and no worker has anything to do.
LEMMA TypeInit == Init => TypeInv
  <1> SUFFICES ASSUME Init
               PROVE  TypeInv
    OBVIOUS
  <1>1. MessagesOK /\ WorkersOK
    BY InvocationsAssumption
    DEF Init, InvocationsInit, MessagesOK, WorkersOK, Steps, Local, NoLocal
  <1>2. StoresOK
    BY ConstantsAssumption DEF Init, StoresOK, SavedItem, Item, ArchiveKey, ObjectKey
  <1>3. RemindersOK /\ UsersOK /\ HistoryOK
    BY ConstantsAssumption
    DEF Init, RemindersOK, UsersOK, HistoryOK, Asks
  <1>4. StepsFit /\ ItemsStay
    BY DEF Init, InvocationsInit, StepsFit, Fit, ItemsStay, HeldSteps,
           LetterSteps, ReminderSteps
  <1> QED
    BY <1>1, <1>2, <1>3, <1>4 DEF TypeInv, TypeOK

\* What a worker at work holds.
LEMMA JobTyped ==
    ASSUME TypeInv, NEW w \in Workers, pc[w] # "idle"
    PROVE  /\ job[w] \in Message
           /\ job[w].ask \in Asks /\ job[w].chat \in Chats
           /\ job[w].receives \in Nat
           /\ Fit(pc[w], job[w].ask.kind)
           /\ local[w] \in Local /\ local[w].found \subseteq Letters
           /\ pc[w] \in HeldSteps \cup {"get"} => job[w].ask.letter \in Letters
           /\ pc[w] \in HeldSteps => letters[job[w].ask.letter] \in Item
  <1>1. /\ job[w] \in Message /\ Fit(pc[w], job[w].ask.kind)
        /\ local[w] \in Local
        /\ pc[w] \in HeldSteps => letters[job[w].ask.letter] # NoItem
        /\ letters \in [Letters -> Item \cup {NoItem}]
    BY DEF TypeInv, TypeOK, WorkersOK, StoresOK, StepsFit, ItemsStay
  <1>2. job[w].ask \in Asks /\ job[w].chat \in Chats /\ job[w].receives \in Nat
    BY <1>1 DEF Message
  <1>3. pc[w] \in HeldSteps \cup {"get"} => job[w].ask.letter \in Letters
    BY <1>1, <1>2, AskTyped DEF Fit, HeldSteps
  <1> QED
    BY <1>1, <1>2, <1>3 DEF Local

\* A worker goes on to a step that fits its request.
LEMMA GotoFits ==
    ASSUME TypeInv, NEW w \in Workers, NEW from \in Steps \ {"idle"},
           NEW to \in Steps \ {"idle"}, Advance(w, from, to),
           local' \in [Workers -> Local],
           Fit(to, job[w].ask.kind),
           \A l \in Letters : letters[l] # NoItem => letters'[l] # NoItem,
           to \in HeldSteps =>
               from \in HeldSteps \/ letters'[job[w].ask.letter] # NoItem
    PROVE  WorkersOK' /\ StepsFit' /\ ItemsStay'
  <1>1. /\ pc \in [Workers -> Steps]
        /\ job \in [Workers -> Message \cup {NoMessage}]
        /\ \A v \in Workers : pc[v] # "idle" => job[v] \in Message
    BY DEF TypeInv, TypeOK, WorkersOK
  <1>2. /\ pc[w] = from /\ pc' = [pc EXCEPT ![w] = to] /\ job' = job
    BY DEF Advance
  <1>3. /\ pc'[w] = to /\ pc' \in [Workers -> Steps]
        /\ \A v \in Workers \ {w} : pc'[v] = pc[v]
    BY <1>1, <1>2
  <1>4. WorkersOK'
    BY <1>1, <1>2, <1>3 DEF WorkersOK
  <1>5. StepsFit'
    BY <1>2, <1>3 DEF TypeInv, StepsFit
  <1>6. \A v \in Workers : pc[v] \in HeldSteps =>
            letters'[job[v].ask.letter] # NoItem
    <2> SUFFICES ASSUME NEW v \in Workers, pc[v] \in HeldSteps
                 PROVE  letters'[job[v].ask.letter] # NoItem
      OBVIOUS
    <2>1. pc[v] # "idle"
      BY DEF HeldSteps, LetterSteps, ReminderSteps
    <2>2. job[v].ask.letter \in Letters /\ letters[job[v].ask.letter] # NoItem
      BY <2>1, JobTyped DEF TypeInv, ItemsStay
    <2> QED
      BY <2>2
  <1>7. ItemsStay'
    BY <1>2, <1>3, <1>6 DEF ItemsStay
  <1> QED
    BY <1>4, <1>5, <1>7

\* A worker stops.
LEMMA StopFits ==
    ASSUME TypeInv, NEW w \in Workers, Rest(w),
           local' = [local EXCEPT ![w] = NoLocal], letters' = letters
    PROVE  WorkersOK' /\ StepsFit' /\ ItemsStay'
  <1>1. /\ pc \in [Workers -> Steps]
        /\ job \in [Workers -> Message \cup {NoMessage}]
        /\ local \in [Workers -> Local]
        /\ \A v \in Workers : pc[v] # "idle" => job[v] \in Message
    BY DEF TypeInv, TypeOK, WorkersOK
  <1>2. /\ pc' = [pc EXCEPT ![w] = "idle"]
        /\ job' = [job EXCEPT ![w] = NoMessage]
    BY DEF Rest
  <1>3. /\ pc'[w] = "idle" /\ pc' \in [Workers -> Steps]
        /\ \A v \in Workers \ {w} : pc'[v] = pc[v] /\ job'[v] = job[v]
    BY <1>1, <1>2 DEF Steps
  <1>4. WorkersOK'
    BY <1>1, <1>2, <1>3 DEF WorkersOK, Local, NoLocal
  <1>5. StepsFit'
    BY <1>3 DEF TypeInv, StepsFit, Fit, LetterSteps, ReminderSteps
  <1>6. ItemsStay'
    BY <1>3 DEF TypeInv, ItemsStay, HeldSteps, LetterSteps, ReminderSteps
  <1> QED
    BY <1>4, <1>5, <1>6

\* A message that is given back stays in one of the queues.
LEMMA GiveBackTyped ==
    ASSUME TypeInv, NEW w \in Workers, pc[w] # "idle", GiveBack(w),
           failures' \in 0..MaxFailures
    PROVE  TypeInv'
  <1>1. /\ Rest(w) /\ local' = [local EXCEPT ![w] = NoLocal]
        /\ UNCHANGED <<letters, bucket, reminderVars, userVars, historyVars>>
    BY DEF GiveBack, Return
  <1>2. WorkersOK' /\ StepsFit' /\ ItemsStay'
    BY <1>1, StopFits
  <1>3. MessagesOK'
    BY JobTyped DEF GiveBack, Return, TypeInv, TypeOK, MessagesOK
  <1>4. StoresOK' /\ RemindersOK' /\ UsersOK' /\ HistoryOK'
    BY <1>1 DEF TypeInv, TypeOK, StoresOK, RemindersOK, UsersOK, HistoryOK,
                reminderVars, userVars, historyVars
  <1> QED
    BY <1>2, <1>3, <1>4 DEF TypeInv, TypeOK

\* The listings: query and answer.
LEMMA FindTyped ==
    ASSUME TypeInv, NEW w \in Workers, NEW from \in Steps \ HeldSteps,
           NEW to \in Steps \ HeldSteps, from # "idle", to # "idle",
           NEW found \in SUBSET Letters,
           Find(w, from, to, found), Fit(to, job[w].ask.kind)
    PROVE  TypeInv'
  <1>1. /\ Advance(w, from, to)
        /\ local' = [local EXCEPT ![w].found = found]
        /\ UNCHANGED <<queue, dead, failures, taps, purged, letters, bucket,
                       schedules, attempts, buttons, deleted, cancelled>>
    BY DEF Find, Goto, Advance, reminderVars
  <1>2. local' \in [Workers -> Local]
    BY <1>1 DEF TypeInv, TypeOK, WorkersOK, Local
  <1>3. WorkersOK' /\ StepsFit' /\ ItemsStay'
    BY <1>1, <1>2, GotoFits
  <1>4. MessagesOK' /\ StoresOK' /\ RemindersOK' /\ UsersOK' /\ HistoryOK'
    BY <1>1 DEF TypeInv, TypeOK, MessagesOK, StoresOK, RemindersOK, UsersOK,
                HistoryOK
  <1> QED
    BY <1>3, <1>4 DEF TypeInv, TypeOK

\* A step that only answers the user, with buttons that can be pressed.
LEMMA AnswerTyped ==
    ASSUME TypeInv, NEW w \in Workers, NEW from \in Steps \ {"idle"},
           Goto(w, from, "finish"), NEW asks \in SUBSET Asks,
           buttons' = [buttons EXCEPT ![job[w].chat] = @ \cup asks],
           UNCHANGED <<local, letters, bucket, reminderVars, deleted, cancelled>>
    PROVE  TypeInv'
  <1>1. /\ Advance(w, from, "finish")
        /\ UNCHANGED <<queue, dead, failures, taps, purged, local, letters,
                       bucket, schedules, attempts, deleted, cancelled>>
    BY DEF Goto, Advance, reminderVars
  <1>2. Fit("finish", job[w].ask.kind) /\ "finish" \notin HeldSteps
    BY DEF Fit, HeldSteps, LetterSteps, ReminderSteps
  <1>3. WorkersOK' /\ StepsFit' /\ ItemsStay'
    <2>1. local' \in [Workers -> Local] /\ "finish" \in Steps \ {"idle"}
      BY <1>1 DEF TypeInv, TypeOK, WorkersOK, Steps
    <2> QED
      BY <1>1, <1>2, <2>1, GotoFits
  <1>4. MessagesOK' /\ StoresOK' /\ RemindersOK' /\ HistoryOK'
    BY <1>1 DEF TypeInv, TypeOK, MessagesOK, StoresOK, RemindersOK, HistoryOK
  <1>5. pc[w] # "idle"
    BY <1>1 DEF Advance
  <1>6. UsersOK'
    BY <1>1, <1>5, JobTyped DEF TypeInv, TypeOK, UsersOK
  <1> QED
    BY <1>3, <1>4, <1>6 DEF TypeInv, TypeOK

\* A query finds letters, and a listing offers requests about them.
LEMMA ListingTyped ==
    ASSUME TypeInv, NEW w \in Workers,
           \/ QueryOrganizations(w) \/ QueryYears(w) \/ QueryByOrgYear(w)
           \/ QueryReminders(w) \/ SendListing(w) \/ ListReminders(w)
    PROVE  TypeInv'
  <1> USE DEF HeldSteps, LetterSteps, ReminderSteps, Steps
  <1>1. \A table, c, prefix : /\ queryOrgYear(table, c, prefix) \in SUBSET Letters
                              /\ Query(table, c) \in SUBSET Letters
    BY QueriesFindLetters
  <1>2. CASE QueryOrganizations(w)
    <2>1. PICK found \in SUBSET Letters : Find(w, "archive", "archive_send", found)
      BY <1>1, <1>2 DEF QueryOrganizations
    <2> QED
      BY <2>1, FindTyped DEF Fit
  <1>3. CASE QueryYears(w)
    <2>1. PICK found \in SUBSET Letters : Find(w, "archorg", "archorg_send", found)
      BY <1>1, <1>3 DEF QueryYears
    <2>2. Fit("archorg_send", job[w].ask.kind)
      BY <2>1, JobTyped DEF Find, Goto, Advance, Fit
    <2> QED
      BY <2>1, <2>2, FindTyped
  <1>4. CASE QueryByOrgYear(w)
    <2>1. PICK found \in SUBSET Letters : Find(w, "archyr", "archyr_send", found)
      BY <1>1, <1>4 DEF QueryByOrgYear
    <2>2. Fit("archyr_send", job[w].ask.kind)
      BY <2>1, JobTyped DEF Find, Goto, Advance, Fit
    <2> QED
      BY <2>1, <2>2, FindTyped
  <1>5. CASE QueryReminders(w)
    <2>1. PICK found \in SUBSET Letters : Find(w, "reminders", "reminders_send", found)
      BY <1>1, <1>5 DEF QueryReminders
    <2> QED
      BY <2>1, FindTyped DEF Fit
  <1>6. CASE SendListing(w)
    <2>1. /\ pc[w] \in ListingSteps /\ Goto(w, pc[w], "finish")
          /\ buttons' = [buttons EXCEPT ![job[w].chat] = @ \cup Rows(w)]
          /\ UNCHANGED <<local, letters, bucket, reminderVars, deleted, cancelled>>
      BY <1>6 DEF SendListing, Offer
    <2>2. pc[w] \in Steps \ {"idle"}
      BY <2>1 DEF ListingSteps
    <2>3. /\ local[w].found \in SUBSET Letters /\ job[w].ask \in Asks
          /\ Fit(pc[w], job[w].ask.kind)
      BY <2>2, JobTyped
    <2>4. Rows(w) \in SUBSET Asks
      <3>1. CASE pc[w] = "archive_send"
        BY <2>3, <3>1, RowsAreAsks DEF Rows
      <3>2. CASE pc[w] = "archorg_send"
        BY <2>3, <3>2, RowsAreAsks, AskTyped DEF Rows, Fit
      <3>3. CASE pc[w] = "archyr_send"
        BY <2>3, <3>3, RowsAreAsks DEF Rows
      <3> QED
        BY <2>1, <3>1, <3>2, <3>3 DEF ListingSteps
    <2> QED
      BY <2>1, <2>2, <2>4, AnswerTyped
  <1>7. CASE ListReminders(w)
    <2> DEFINE asks == {[kind |-> "remview", letter |-> r.letter, rem |-> r.rem] :
                            r \in Pending(local[w].found)}
    <2>1. /\ Goto(w, "reminders_send", "finish")
          /\ buttons' = [buttons EXCEPT ![job[w].chat] = @ \cup asks]
          /\ UNCHANGED <<local, letters, bucket, reminderVars, deleted, cancelled>>
      BY <1>7 DEF ListReminders, Offer
    <2>2. asks \in SUBSET Asks
      BY DEF Pending, TypeInv, TypeOK, RemindersOK, Reminder, Asks,
             ReminderButtons
    <2> HIDE DEF asks
    <2> QED
      BY <2>1, <2>2, AnswerTyped
  <1> QED
    BY <1>2, <1>3, <1>4, <1>5, <1>6, <1>7

\* The handlers of a letter and of a reminder.
LEMMA HandlerTyped ==
    ASSUME TypeInv, NEW w \in Workers,
           \/ GetLetter(w) \/ LetterNotFound(w) \/ ViewLetter(w)
           \/ RequestPdf(w) \/ DeleteCopy(w) \/ DeleteRemove(w)
           \/ DeleteMark(w) \/ DeleteAck(w)
           \/ ViewReminder(w) \/ CancelReminder(w) \/ CancelAck(w)
    PROVE  TypeInv'
  <1> DEFINE ask == job[w].ask
             l == ask.letter
  <1>1. /\ local \in [Workers -> Local]
        /\ letters \in [Letters -> Item \cup {NoItem}]
        /\ DOMAIN bucket \subseteq ObjectKey
        /\ \A k \in DOMAIN bucket : bucket[k] \in Letters
        /\ schedules \subseteq Reminder
        /\ deleted \subseteq Letters /\ cancelled \subseteq Reminder
    BY DEF TypeInv, TypeOK, WorkersOK, StoresOK, RemindersOK, HistoryOK
  <1>2. ASSUME pc[w] \in HeldSteps \cup {"get"}
        PROVE  /\ ask \in Asks /\ l \in Letters /\ job[w].chat \in Chats
               /\ Fit(pc[w], ask.kind)
               /\ pc[w] \in HeldSteps => letters[l] \in Item
    <2>1. pc[w] # "idle"
      BY <1>2 DEF HeldSteps, LetterSteps, ReminderSteps
    <2> QED
      BY <1>2, <2>1, JobTyped
  <1>3. \A k \in Letters : PendingKey(k) \in ObjectKey
    BY DEF PendingKey, ObjectKey
  <1>4. CASE GetLetter(w)
    <2>1. PICK stale \in SUBSET (MayBeStale \cap {l}) :
              /\ Owned(Seen(stale), job[w].chat, l)
              /\ local' = [local EXCEPT ![w].key = Seen(stale)[l].key]
      BY <1>4 DEF GetLetter
    <2> DEFINE to == AfterGet[ask.kind]
    <2>2. /\ Advance(w, "get", to)
          /\ UNCHANGED <<queue, dead, failures, taps, purged, letters, bucket,
                         schedules, attempts, buttons, deleted, cancelled>>
      BY <1>4 DEF GetLetter, Goto, Advance, reminderVars
    <2>3. pc[w] = "get" /\ l \in Letters /\ Fit("get", ask.kind)
      BY <1>2, <2>2 DEF Advance
    <2>4. to \in Steps \ {"idle"} /\ Fit(to, ask.kind)
      BY <2>3 DEF Fit, AfterGet, Steps, LetterSteps, ReminderSteps,
                  LetterButtons, ReminderButtons
    <2>5. Seen(stale)[l] \in Item /\ letters[l] # NoItem
      <3>1. SavedItem(l) \in Item
        BY <2>3, ConstantsAssumption DEF SavedItem, Item, ArchiveKey, ObjectKey
      <3>2. CASE l \in stale
        <4>1. letters[l] # NoItem
          BY <2>1, <3>2 DEF MayBeStale, NoItem
        <4> QED
          BY <2>3, <3>1, <3>2, <4>1 DEF Seen
      <3>3. CASE l \notin stale
        BY <1>1, <2>1, <2>3, <3>3 DEF Seen, Owned
      <3> QED
        BY <3>2, <3>3
    <2>6. local' \in [Workers -> Local]
      BY <1>1, <2>1, <2>5 DEF Local, Item
    <2> HIDE DEF to
    <2>7. WorkersOK' /\ StepsFit' /\ ItemsStay'
      <3>1. letters'[l] # NoItem /\ "get" \in Steps \ {"idle"}
        BY <2>2, <2>5 DEF Steps
      <3> QED
        BY <2>2, <2>4, <2>6, <3>1, GotoFits
    <2>8. MessagesOK' /\ StoresOK' /\ RemindersOK' /\ UsersOK' /\ HistoryOK'
      BY <2>2 DEF TypeInv, TypeOK, MessagesOK, StoresOK, RemindersOK, UsersOK,
                  HistoryOK
    <2> QED
      BY <2>7, <2>8 DEF TypeInv, TypeOK
  <1>5. CASE LetterNotFound(w) \/ RequestPdf(w)
    <2>1. PICK from \in Steps \ {"idle"} : Goto(w, from, "finish")
      BY <1>5 DEF LetterNotFound, RequestPdf, Steps
    <2>2. UNCHANGED <<local, letters, bucket, reminderVars, deleted, cancelled>>
      BY <1>5 DEF LetterNotFound, RequestPdf
    <2> DEFINE asks == {}
    <2>3. buttons' = [buttons EXCEPT ![job[w].chat] = @ \cup asks]
      BY <1>5 DEF LetterNotFound, RequestPdf, TypeInv, TypeOK, UsersOK
    <2>4. asks \in SUBSET Asks
      OBVIOUS
    <2> HIDE DEF asks
    <2> QED
      BY <2>1, <2>2, <2>3, <2>4, AnswerTyped
  <1>6. CASE ViewLetter(w)
    <2> DEFINE asks == [kind : {"pdf", "delete"}, letter : {l}]
    <2>1. /\ Goto(w, "view_send", "finish") /\ pc[w] = "view_send"
          /\ buttons' = [buttons EXCEPT ![job[w].chat] = @ \cup asks]
          /\ UNCHANGED <<local, letters, bucket, reminderVars, deleted, cancelled>>
      BY <1>6 DEF ViewLetter, Offer, Goto, Advance
    <2>2. asks \in SUBSET Asks
      BY <1>2, <2>1 DEF Asks, LetterButtons, HeldSteps, LetterSteps
    <2> HIDE DEF asks
    <2>3. "view_send" \in Steps \ {"idle"}
      BY DEF Steps
    <2> QED
      BY <2>1, <2>2, <2>3, AnswerTyped
  <1>7. CASE ViewReminder(w)
    <2> DEFINE asks == {[ask EXCEPT !.kind = "cancelrem"]}
    <2>1. /\ Goto(w, "remview_send", "finish") /\ pc[w] = "remview_send"
          /\ buttons' = [buttons EXCEPT ![job[w].chat] = @ \cup asks]
          /\ UNCHANGED <<local, letters, bucket, reminderVars, deleted, cancelled>>
      BY <1>7 DEF ViewReminder, Offer, Goto, Advance
    <2>2. ask \in Asks /\ ask.kind \in ReminderButtons
      BY <1>2, <2>1 DEF Fit, HeldSteps, ReminderSteps
    <2>3. asks \in SUBSET Asks
      BY <2>2, AskTyped
    <2> HIDE DEF asks
    <2>4. "remview_send" \in Steps \ {"idle"}
      BY DEF Steps
    <2> QED
      BY <2>1, <2>3, <2>4, AnswerTyped
  <1>8. ASSUME NEW from \in HeldSteps, NEW to \in HeldSteps \cup {"finish"},
               Goto(w, from, to), local' = local,
               to \in LetterSteps => from \in LetterSteps,
               to \in ReminderSteps => from \in ReminderSteps,
               \A k \in Letters : letters[k] # NoItem => letters'[k] # NoItem
        PROVE  MessagesOK' /\ WorkersOK' /\ StepsFit' /\ ItemsStay'
    <2>1. /\ from \in Steps \ {"idle"} /\ to \in Steps \ {"idle"}
          /\ "finish" \notin HeldSteps
      BY <1>8 DEF HeldSteps, LetterSteps, ReminderSteps, Steps
    <2>2. /\ Advance(w, from, to) /\ pc[w] = from
          /\ UNCHANGED <<queue, dead, failures>>
      BY <1>8 DEF Goto, Advance
    <2>3. Fit(to, ask.kind)
      BY <1>2, <1>8, <2>2 DEF Fit, HeldSteps, LetterSteps, ReminderSteps
    <2>4. WorkersOK' /\ StepsFit' /\ ItemsStay'
      BY <1>1, <1>8, <2>1, <2>2, <2>3, GotoFits
    <2>5. MessagesOK'
      BY <2>2 DEF TypeInv, TypeOK, MessagesOK
    <2> QED
      BY <2>4, <2>5
  <1>9. CASE DeleteCopy(w) \/ DeleteRemove(w)
    <2>1. /\ UNCHANGED <<local, letters, schedules, attempts, taps, buttons,
                         deleted, cancelled, purged>>
          /\ pc[w] \in HeldSteps
      BY <1>9 DEF DeleteCopy, DeleteRemove, Goto, Advance, reminderVars,
                  HeldSteps, LetterSteps
    <2>2. MessagesOK' /\ WorkersOK' /\ StepsFit' /\ ItemsStay'
      BY <1>8, <1>9, <2>1 DEF DeleteCopy, DeleteRemove, HeldSteps, LetterSteps,
                              ReminderSteps
    <2>3. DOMAIN bucket' \subseteq ObjectKey /\ \A k \in DOMAIN bucket' : bucket'[k] \in Letters
      BY <1>1, <1>2, <1>3, <1>9, <2>1
      DEF DeleteCopy, DeleteRemove, CanCopy, CopyObject, PutObject, DeleteObject
    <2> QED
      BY <2>1, <2>2, <2>3 DEF TypeInv, TypeOK, StoresOK, RemindersOK, UsersOK,
                              HistoryOK
  <1>10. CASE DeleteMark(w)
    <2>1. /\ UNCHANGED <<local, bucket, schedules, attempts, taps, buttons,
                         deleted, cancelled, purged>>
          /\ pc[w] = "delete_mark" /\ Goto(w, "delete_mark", "delete_ack")
          /\ letters' = [letters EXCEPT ![l].status = "pending_deletion",
                                        ![l].key = PendingKey(l)]
      BY <1>10 DEF DeleteMark, Goto, Advance, reminderVars
    <2>2. l \in Letters /\ letters[l] \in Item
      BY <1>2, <2>1 DEF HeldSteps, LetterSteps
    <2>3. letters'[l] \in Item /\ \A k \in Letters \ {l} : letters'[k] = letters[k]
      BY <1>1, <1>3, <2>1, <2>2 DEF Item
    <2>4. \A i \in Item : i # NoItem
      BY DEF Item, NoItem
    <2>5. letters' \in [Letters -> Item \cup {NoItem}]
      BY <1>1, <2>1, <2>3
    <2>6. \A k \in Letters : letters[k] # NoItem => letters'[k] # NoItem
      BY <2>2, <2>3, <2>4
    <2>7. MessagesOK' /\ WorkersOK' /\ StepsFit' /\ ItemsStay'
      BY <1>8, <2>1, <2>6 DEF HeldSteps, LetterSteps, ReminderSteps
    <2> QED
      BY <1>1, <2>1, <2>5, <2>7 DEF TypeInv, TypeOK, StoresOK, RemindersOK,
                                    UsersOK, HistoryOK
  <1>11. CASE DeleteAck(w) \/ CancelReminder(w) \/ CancelAck(w)
    <2>1. /\ UNCHANGED <<local, letters, bucket, attempts, taps, buttons, purged>>
          /\ pc[w] \in HeldSteps
      BY <1>11 DEF DeleteAck, CancelReminder, CancelAck, Goto, Advance,
                   reminderVars, HeldSteps, LetterSteps, ReminderSteps
    <2>2. MessagesOK' /\ WorkersOK' /\ StepsFit' /\ ItemsStay'
      BY <1>8, <1>11, <2>1 DEF DeleteAck, CancelReminder, CancelAck, HeldSteps,
                               LetterSteps, ReminderSteps
    <2>3. ask \in Asks /\ l \in Letters /\ Fit(pc[w], ask.kind)
      BY <1>2, <2>1
    <2>4. pc[w] \in ReminderSteps => ReminderOf(job[w]) \in Reminder
      BY <2>3, AskTyped DEF Fit, ReminderOf, Reminder
    <2>5. schedules' \subseteq Reminder /\ deleted' \subseteq Letters
          /\ cancelled' \subseteq Reminder
      BY <1>1, <1>11, <2>3, <2>4
      DEF DeleteAck, CancelReminder, CancelAck, Goto, Advance, reminderVars,
          ReminderSteps
    <2> QED
      BY <2>1, <2>2, <2>5 DEF TypeInv, TypeOK, StoresOK, RemindersOK, UsersOK,
                              HistoryOK
  <1> QED
    BY <1>4, <1>5, <1>6, <1>7, <1>9, <1>10, <1>11

(***************************************************************************)
(* Every step keeps every variable in its type, every worker at a step of  *)
(* its handler, and every item in the table that a worker deals with.      *)
(***************************************************************************)
LEMMA TypeStep == TypeInv /\ [Next]_vars => TypeInv'
  <1> SUFFICES ASSUME TypeInv, [Next]_vars
               PROVE  TypeInv'
    OBVIOUS
  <1>1. /\ pc \in [Workers -> Steps]
        /\ job \in [Workers -> Message \cup {NoMessage}]
        /\ queue \subseteq Message /\ failures \in 0..MaxFailures
        /\ MaxFailures \in Nat
        /\ taps \in [Requests -> Nat] /\ buttons \in [Chats -> SUBSET Asks]
        /\ schedules \subseteq Reminder /\ attempts \in [Reminder -> 0..MaxSends]
        /\ letters \in [Letters -> Item \cup {NoItem}]
    BY InvocationsAssumption
    DEF TypeInv, TypeOK, MessagesOK, WorkersOK, UsersOK, RemindersOK, StoresOK
  <1>2. ASSUME NEW c \in Chats, NEW ask \in buttons[c], Ask(c, ask)
        PROVE  TypeInv'
    <2>1. ask \in Asks /\ ask.kind \in Requests
      BY <1>1, AskTyped
    <2>2. UNCHANGED <<dead, failures, pc, job, local, letters, bucket,
                      schedules, attempts, buttons, deleted, cancelled, purged>>
      BY <1>2 DEF Ask, reminderVars, historyVars
    <2>3. taps' \in [Requests -> Nat]
      BY <1>1, <1>2, <2>1 DEF Ask
    <2>4. queue' \subseteq Message
      BY <1>1, <1>2, <2>1 DEF Ask, Message
    <2> QED
      BY <2>2, <2>3, <2>4
      DEF TypeInv, TypeOK, MessagesOK, WorkersOK, StoresOK, RemindersOK,
          UsersOK, HistoryOK, StepsFit, ItemsStay
  <1>3. ASSUME NEW w \in Workers, NEW m \in queue, Receive(w, m)
        PROVE  TypeInv'
    <2> DEFINE to == Entry(m.ask.kind)
               got == [m EXCEPT !.receives = @ + 1]
    <2>1. /\ pc[w] = "idle" /\ queue' = queue \ {m}
          /\ pc' = [pc EXCEPT ![w] = to] /\ job' = [job EXCEPT ![w] = got]
          /\ UNCHANGED <<dead, failures, local, letters, bucket, schedules,
                         attempts, taps, buttons, deleted, cancelled, purged>>
      BY <1>3 DEF Receive, Deliver, reminderVars, userVars, historyVars
    <2>2. got \in Message /\ got.ask = m.ask /\ m.ask \in Asks
      BY <1>1 DEF Message
    <2>3. /\ to \in Steps \ {"idle"} /\ to \notin HeldSteps /\ Fit(to, m.ask.kind)
      BY <2>2, AskTyped
      DEF Entry, Steps, Fit, HeldSteps, LetterSteps, ReminderSteps, Requests,
          Commands, DrillButtons, LetterButtons, ReminderButtons
    <2> HIDE DEF to, got
    <2>4. /\ pc'[w] = to /\ job'[w] = got
          /\ \A v \in Workers \ {w} : pc'[v] = pc[v] /\ job'[v] = job[v]
          /\ pc' \in [Workers -> Steps]
          /\ job' \in [Workers -> Message \cup {NoMessage}]
      BY <1>1, <2>1, <2>2, <2>3
    <2>5. WorkersOK'
      BY <2>1, <2>2, <2>4 DEF TypeInv, TypeOK, WorkersOK
    <2>6. StepsFit'
      BY <2>2, <2>3, <2>4 DEF TypeInv, StepsFit
    <2>7. ItemsStay'
      BY <2>1, <2>3, <2>4 DEF TypeInv, ItemsStay
    <2> QED
      BY <2>1, <2>5, <2>6, <2>7
      DEF TypeInv, TypeOK, MessagesOK, StoresOK, RemindersOK, UsersOK, HistoryOK
  <1>4. ASSUME NEW w \in Workers, Finish(w)
        PROVE  TypeInv'
    <2>1. /\ Rest(w) /\ local' = [local EXCEPT ![w] = NoLocal]
          /\ UNCHANGED <<queue, dead, failures, letters, bucket, schedules,
                         attempts, taps, buttons, deleted, cancelled, purged>>
      BY <1>4 DEF Finish, reminderVars, userVars, historyVars
    <2>2. WorkersOK' /\ StepsFit' /\ ItemsStay'
      BY <2>1, StopFits
    <2> QED
      BY <2>1, <2>2
      DEF TypeInv, TypeOK, MessagesOK, StoresOK, RemindersOK, UsersOK, HistoryOK
  <1>5. ASSUME NEW w \in Workers,
               Fail(w) \/ ListingRefused(w) \/ PdfMissing(w) \/ DeleteMissing(w)
        PROVE  TypeInv'
    <2>1. pc[w] # "idle" /\ GiveBack(w)
      BY <1>5 DEF Fail, ListingRefused, ListingSteps, PdfMissing, DeleteMissing
    <2>2. failures' \in 0..MaxFailures
      BY <1>1, <1>5 DEF Fail, ListingRefused, PdfMissing, DeleteMissing
    <2> QED
      BY <2>1, <2>2, GiveBackTyped
  <1>6. ASSUME NEW r \in Reminder, Fire(r) \/ SendReminder(r) \/ SendFails(r)
        PROVE  TypeInv'
    <2>1. UNCHANGED <<queue, dead, pc, job, local, letters, bucket, taps,
                      buttons, deleted, cancelled, purged>>
      BY <1>6 DEF Fire, SendReminder, SendFails, workerVars, userVars, historyVars
    <2>2. failures' \in 0..MaxFailures
      BY <1>1, <1>6 DEF Fire, SendReminder, SendFails, workerVars
    <2>3. RemindersOK'
      BY <1>1, <1>6, ConstantsAssumption
      DEF Fire, SendReminder, SendFails, RemindersOK
    <2> QED
      BY <2>1, <2>2, <2>3
      DEF TypeInv, TypeOK, MessagesOK, WorkersOK, StoresOK, UsersOK, HistoryOK,
          StepsFit, ItemsStay
  <1>7. ASSUME NEW l \in Letters, Purge(l)
        PROVE  TypeInv'
    <2>1. /\ UNCHANGED <<queue, dead, failures, pc, job, local, letters,
                         schedules, attempts, taps, buttons, deleted, cancelled>>
          /\ bucket' = DeleteObject(bucket, PendingKey(l))
          /\ purged' = purged \cup {l}
      BY <1>7 DEF Purge, workerVars, reminderVars, userVars
    <2>2. StoresOK' /\ HistoryOK'
      BY <2>1 DEF TypeInv, TypeOK, StoresOK, HistoryOK, DeleteObject
    <2> QED
      BY <2>1, <2>2
      DEF TypeInv, TypeOK, MessagesOK, WorkersOK, RemindersOK, UsersOK,
          StepsFit, ItemsStay
  <1>8. ASSUME NEW l \in Letters, Reap(l)
        PROVE  TypeInv'
    <2>1. /\ UNCHANGED <<queue, dead, failures, pc, job, local, bucket,
                         schedules, attempts, taps, buttons, deleted, cancelled,
                         purged>>
          /\ letters' = [letters EXCEPT ![l] = NoItem] /\ Quiet(l)
      BY <1>8 DEF Reap, workerVars, reminderVars, userVars, historyVars
    <2>2. StoresOK'
      BY <1>1, <2>1 DEF TypeInv, TypeOK, StoresOK
    <2>3. ASSUME NEW w \in Workers, pc[w] \in HeldSteps
          PROVE  letters'[job[w].ask.letter] # NoItem
      <3>1. pc[w] # "idle"
        BY <2>3 DEF HeldSteps, LetterSteps, ReminderSteps
      <3>2. /\ job[w].ask \in Asks /\ job[w].ask.letter \in Letters
            /\ letters[job[w].ask.letter] # NoItem
            /\ job[w].ask.kind \in LetterButtons \cup ReminderButtons
        BY <2>3, <3>1, JobTyped DEF TypeInv, ItemsStay, Fit, HeldSteps
      <3>3. About(job[w], job[w].ask.letter)
        BY <3>2, AskTyped DEF About
      <3>4. job[w].ask.letter # l
        BY <2>1, <3>1, <3>3 DEF Quiet
      <3> QED
        BY <1>1, <2>1, <3>2, <3>4
    <2>4. ItemsStay'
      BY <2>1, <2>3 DEF ItemsStay
    <2> QED
      BY <2>1, <2>2, <2>4
      DEF TypeInv, TypeOK, MessagesOK, WorkersOK, RemindersOK, UsersOK,
          HistoryOK, StepsFit
  <1>9. ASSUME UNCHANGED vars
        PROVE  TypeInv'
    BY <1>9
    DEF vars, TypeInv, TypeOK, MessagesOK, WorkersOK, StoresOK, RemindersOK,
        UsersOK, HistoryOK, StepsFit, ItemsStay
  <1> QED
    BY <1>2, <1>3, <1>4, <1>5, <1>6, <1>7, <1>8, <1>9, ListingTyped,
       HandlerTyped DEF Next, WorkerStep

(***************************************************************************)
(* Type correctness of the archive and its reminders: a handler never acts *)
(* on a letter whose item has gone, or on a request of another kind.       *)
(***************************************************************************)
THEOREM TypeCorrect == Spec => []TypeOK
  <1>1. TypeInv => TypeOK
    BY DEF TypeInv
  <1> QED
    BY <1>1, TypeInit, TypeStep, PTL DEF Spec

-----------------------------------------------------------------------------
(* Deleting a letter.                                                      *)

\* An item is as it was saved or as it was marked.
ItemsAsWritten ==
    \A l \in Letters : letters[l] # NoItem =>
        /\ letters[l].chat = Owner[l]
        /\ letters[l].key = IF Active(l) THEN ArchiveKey(l) ELSE PendingKey(l)

ObjectsAsWritten == \A k \in DOMAIN bucket : bucket[k] = k.letter

(***************************************************************************)
(* What a worker knows on its way through a deletion: the key it has read  *)
(* is the archived one's, after the copy there is one in PendingDeletion/, *)
(* after the removal there is none in the archive, and after the mark the  *)
(* letter is not active.                                                   *)
(***************************************************************************)
MovedSteps == {"delete_mark", "delete_ack"}

CopiedSteps == {"delete_remove"} \cup MovedSteps

Knows(w, l) ==
    /\ local[w].key = ArchiveKey(l)
    /\ pc[w] \in CopiedSteps => PendingKey(l) \in DOMAIN bucket
    /\ pc[w] \in MovedSteps => ArchiveKey(l) \notin DOMAIN bucket
    /\ pc[w] = "delete_ack" => ~Active(l)

DeletionsKnow ==
    \A w \in Workers, l \in Letters :
        pc[w] \in LetterSteps /\ job[w].ask.letter = l => Knows(w, l)

ObjectsStay ==
    \A l \in Letters \ purged :
        /\ ArchiveKey(l) \in DOMAIN bucket \/ PendingKey(l) \in DOMAIN bucket
        /\ letters[l].status = "pending_deletion" => PendingKey(l) \in DOMAIN bucket

DeletedStay ==
    \A l \in deleted : ~Active(l) /\ ArchiveKey(l) \notin DOMAIN bucket

DeletionInv ==
    /\ ItemsAsWritten
    /\ ObjectsAsWritten
    /\ DeletionsKnow
    /\ ObjectsStay
    /\ DeletedStay

\* The keys of letters differ.
LEMMA KeysDiffer ==
    /\ \A k, l \in Letters : ArchiveKey(k) # PendingKey(l)
    /\ \A k, l \in Letters : k # l => /\ ArchiveKey(k) # ArchiveKey(l)
                                      /\ PendingKey(k) # PendingKey(l)
    /\ \A l \in Letters : ArchiveKey(l).letter = l /\ PendingKey(l).letter = l
  BY DEF ArchiveKey, PendingKey

\* No deletion has begun, and every PDF lies under its key of the archive.
LEMMA DeletionInit == Init => DeletionInv
  <1> SUFFICES ASSUME Init
               PROVE  DeletionInv
    OBVIOUS
  <1>1. /\ \A l \in Letters : letters[l] = SavedItem(l)
        /\ DOMAIN bucket = {ArchiveKey(l) : l \in Letters}
        /\ \A k \in DOMAIN bucket : bucket[k] = k.letter
        /\ deleted = {}
        /\ \A w \in Workers : pc[w] = "idle"
    BY DEF Init, InvocationsInit
  <1>5. ASSUME NEW l \in Letters
        PROVE  /\ letters[l].status = "active" /\ letters[l].chat = Owner[l]
               /\ letters[l].key = ArchiveKey(l)
    <2>1. letters[l] = SavedItem(l)
      BY <1>1
    <2> QED
      BY <2>1 DEF SavedItem
  <1>6. \A l \in Letters : ArchiveKey(l) \in DOMAIN bucket
    BY <1>1
  <1>2. ItemsAsWritten
    BY <1>5 DEF ItemsAsWritten, Active
  <1>3. DeletionsKnow
    BY <1>1 DEF DeletionsKnow, LetterSteps
  <1>4. ObjectsStay
    BY <1>5, <1>6 DEF ObjectsStay
  <1> QED
    BY <1>1, <1>2, <1>3, <1>4 DEF DeletionInv, ObjectsAsWritten, DeletedStay

\* Only five steps bring a worker to a step of a letter's handlers.
LEMMA WorkersMoveOn ==
    ASSUME TypeInv, [Next]_vars,
           ~ \E w \in Workers : \/ GetLetter(w) \/ DeleteCopy(w)
                                \/ DeleteRemove(w) \/ DeleteMark(w)
                                \/ DeleteAck(w)
    PROVE  \A v \in Workers : pc'[v] \in LetterSteps =>
               /\ pc'[v] = pc[v]
               /\ job'[v] = job[v]
               /\ local'[v].key = local[v].key
  <1> DEFINE Goal ==
       \A v \in Workers : pc'[v] \in LetterSteps =>
               /\ pc'[v] = pc[v]
               /\ job'[v] = job[v]
               /\ local'[v].key = local[v].key
  <1>1. /\ pc \in [Workers -> Steps]
        /\ job \in [Workers -> Message \cup {NoMessage}]
        /\ local \in [Workers -> Local]
        /\ queue \subseteq Message
    BY DEF TypeInv, TypeOK, WorkersOK, MessagesOK
  <1>2. ASSUME NEW w \in Workers, NEW to \in Steps \ LetterSteps,
               pc' = [pc EXCEPT ![w] = to],
               \A v \in Workers \ {w} : job'[v] = job[v] /\ local'[v] = local[v]
        PROVE  Goal
    BY <1>1, <1>2
  <1>3. ASSUME UNCHANGED <<pc, job, local>>
        PROVE  Goal
    BY <1>3
  <1> HIDE DEF Goal
  <1> USE DEF Steps, LetterSteps
  <1>4. ASSUME NEW w \in Workers,
               \/ Finish(w) \/ Fail(w) \/ ListingRefused(w) \/ PdfMissing(w)
               \/ DeleteMissing(w)
        PROVE  Goal
    <2>1. /\ pc' = [pc EXCEPT ![w] = "idle"]
          /\ \A v \in Workers \ {w} : job'[v] = job[v] /\ local'[v] = local[v]
      BY <1>1, <1>4 DEF Finish, Fail, ListingRefused, PdfMissing,
                        DeleteMissing, GiveBack, Return, Rest
    <2> QED
      BY <1>2, <2>1
  <1>5. ASSUME NEW w \in Workers, NEW from, NEW to \in Steps \ LetterSteps,
               NEW found, Find(w, from, to, found)
        PROVE  Goal
    <2>1. /\ pc' = [pc EXCEPT ![w] = to]
          /\ \A v \in Workers \ {w} : job'[v] = job[v] /\ local'[v] = local[v]
      BY <1>1, <1>5 DEF Find, Goto, Advance
    <2> QED
      BY <1>2, <2>1
  <1>6. ASSUME NEW w \in Workers,
               \/ QueryOrganizations(w) \/ QueryYears(w) \/ QueryByOrgYear(w)
               \/ QueryReminders(w)
        PROVE  Goal
    BY <1>5, <1>6 DEF QueryOrganizations, QueryYears, QueryByOrgYear,
                      QueryReminders
  <1>7. ASSUME NEW w \in Workers,
               \/ SendListing(w) \/ ListReminders(w) \/ LetterNotFound(w)
               \/ ViewLetter(w) \/ RequestPdf(w) \/ ViewReminder(w)
               \/ CancelReminder(w) \/ CancelAck(w)
        PROVE  Goal
    <2>1. \E to \in Steps \ LetterSteps : pc' = [pc EXCEPT ![w] = to]
      BY <1>7 DEF SendListing, ListReminders, LetterNotFound, ViewLetter,
                  RequestPdf, ViewReminder, CancelReminder, CancelAck, Goto,
                  Advance
    <2>2. job' = job /\ local' = local
      BY <1>7 DEF SendListing, ListReminders, LetterNotFound, ViewLetter,
                  RequestPdf, ViewReminder, CancelReminder, CancelAck, Goto,
                  Advance
    <2> QED
      BY <1>2, <2>1, <2>2
  <1>8. ASSUME NEW w \in Workers, NEW m \in queue, Receive(w, m)
        PROVE  Goal
    <2>1. m.ask.kind \in Requests
      BY <1>1, AskTyped DEF Message
    <2>2. Entry(m.ask.kind) \in Steps \ LetterSteps
      BY <2>1 DEF Entry, Requests, Commands, DrillButtons
    <2>3. /\ pc' = [pc EXCEPT ![w] = Entry(m.ask.kind)]
          /\ \A v \in Workers \ {w} : job'[v] = job[v] /\ local'[v] = local[v]
      BY <1>1, <1>8 DEF Receive, Deliver
    <2> QED
      BY <1>2, <2>2, <2>3
  <1>9. ASSUME \/ \E c \in Chats : \E ask \in buttons[c] : Ask(c, ask)
               \/ \E r \in Reminder : Fire(r) \/ SendReminder(r) \/ SendFails(r)
               \/ \E l \in Letters : Purge(l) \/ Reap(l)
               \/ UNCHANGED vars
        PROVE  Goal
    BY <1>3, <1>9 DEF Ask, Fire, SendReminder, SendFails, Purge, Reap, vars,
                      workerVars
  <1>10. Goal
    BY <1>4, <1>6, <1>7, <1>8, <1>9 DEF Next, WorkerStep
  <1> QED
    BY <1>10 DEF Goal

\* Objects, items and what was reported change in few steps.
LEMMA ArchiveStays ==
    ASSUME [Next]_vars,
           ~ \E w \in Workers : \/ DeleteCopy(w) \/ DeleteRemove(w)
                                \/ DeleteMark(w) \/ DeleteAck(w),
           ~ \E l \in Letters : Purge(l) \/ Reap(l)
    PROVE  UNCHANGED <<bucket, letters, deleted, purged>>
  <1> USE DEF historyVars
  <1>1. ASSUME NEW w \in Workers,
               \/ Finish(w) \/ Fail(w) \/ ListingRefused(w) \/ PdfMissing(w)
               \/ DeleteMissing(w)
        PROVE  UNCHANGED <<bucket, letters, deleted, purged>>
    BY <1>1 DEF Finish, Fail, ListingRefused, PdfMissing, DeleteMissing, GiveBack
  <1>2. ASSUME NEW w \in Workers,
               \/ QueryOrganizations(w) \/ QueryYears(w) \/ QueryByOrgYear(w)
               \/ QueryReminders(w)
        PROVE  UNCHANGED <<bucket, letters, deleted, purged>>
    BY <1>2 DEF QueryOrganizations, QueryYears, QueryByOrgYear, QueryReminders,
                Find, Goto
  <1>3. ASSUME NEW w \in Workers,
               \/ SendListing(w) \/ ListReminders(w) \/ GetLetter(w)
               \/ LetterNotFound(w) \/ ViewLetter(w) \/ RequestPdf(w)
               \/ ViewReminder(w) \/ CancelReminder(w) \/ CancelAck(w)
        PROVE  UNCHANGED <<bucket, letters, deleted, purged>>
    BY <1>3 DEF SendListing, ListReminders, GetLetter, LetterNotFound,
                ViewLetter, RequestPdf, ViewReminder, CancelReminder, CancelAck,
                Goto
  <1>4. ASSUME \/ \E c \in Chats : \E ask \in buttons[c] : Ask(c, ask)
               \/ \E w \in Workers, m \in queue : Receive(w, m)
               \/ \E r \in Reminder : Fire(r) \/ SendReminder(r) \/ SendFails(r)
               \/ UNCHANGED vars
        PROVE  UNCHANGED <<bucket, letters, deleted, purged>>
    BY <1>4 DEF Ask, Receive, Fire, SendReminder, SendFails, vars
  <1> QED
    BY <1>1, <1>2, <1>3, <1>4 DEF Next, WorkerStep

(***************************************************************************)
(* What workers know stays true as long as no copy in PendingDeletion/ is  *)
(* removed that one of them relies on, none is put into the archive, and no*)
(* letter becomes active again.                                            *)
(***************************************************************************)
LEMMA OthersKnow ==
    ASSUME DeletionsKnow, NEW v \in Workers, NEW l \in Letters,
           pc'[v] = pc[v], job'[v] = job[v], local'[v].key = local[v].key,
           ArchiveKey(l) \notin DOMAIN bucket => ArchiveKey(l) \notin DOMAIN bucket',
           ~Active(l) => ~Active(l)',
           pc[v] \in CopiedSteps /\ PendingKey(l) \in DOMAIN bucket
               => PendingKey(l) \in DOMAIN bucket',
           pc'[v] \in LetterSteps, job'[v].ask.letter = l
    PROVE  Knows(v, l)'
  <1>1. Knows(v, l)
    BY DEF DeletionsKnow
  <1> QED
    BY <1>1 DEF Knows

\* What all workers know after a step of one of them.
LEMMA AllKnow ==
    ASSUME DeletionsKnow, NEW w \in Workers, NEW k \in Letters,
           \A v \in Workers \ {w} : /\ pc'[v] = pc[v] /\ job'[v] = job[v]
                                    /\ local'[v].key = local[v].key,
           \A l \in Letters :
               /\ ArchiveKey(l) \notin DOMAIN bucket =>
                      ArchiveKey(l) \notin DOMAIN bucket'
               /\ PendingKey(l) \in DOMAIN bucket => PendingKey(l) \in DOMAIN bucket'
               /\ ~Active(l) => ~Active(l)',
           job'[w].ask.letter = k,
           pc'[w] \in LetterSteps => Knows(w, k)'
    PROVE  DeletionsKnow'
  <1> SUFFICES ASSUME NEW v \in Workers, NEW l \in Letters,
                      pc'[v] \in LetterSteps, job'[v].ask.letter = l
               PROVE  Knows(v, l)'
    BY DEF DeletionsKnow
  <1>1. CASE v = w
    BY <1>1
  <1>2. CASE v # w
    BY <1>2, OthersKnow
  <1> QED
    BY <1>1, <1>2

-----------------------------------------------------------------------------
(* The steps of a deletion.                                                *)

\* A letter that is found still has the key it was saved under.
LEMMA GetKeeps ==
    ASSUME TypeInv, DeletionInv, NEW w \in Workers, GetLetter(w)
    PROVE  DeletionInv'
  <1> PICK k, to : k = job[w].ask.letter /\ to = AfterGet[job[w].ask.kind]
    OBVIOUS
  <1>1. /\ Goto(w, "get", to) /\ pc[w] = "get"
        /\ UNCHANGED <<letters, bucket, deleted, purged>>
    BY DEF GetLetter, Goto, Advance
  <1>2. PICK stale \in SUBSET (MayBeStale \cap {k}) :
            /\ Owned(Seen(stale), job[w].chat, k)
            /\ local' = [local EXCEPT ![w].key = Seen(stale)[k].key]
    BY DEF GetLetter
  <1>3. k \in Letters
    BY <1>1, JobTyped
  <1>4. Seen(stale)[k].key = ArchiveKey(k)
    <2>1. CASE k \in stale
      BY <1>3, <2>1 DEF Seen, SavedItem
    <2>2. CASE k \notin stale
      <3>1. Seen(stale)[k] = letters[k]
        BY <1>3, <2>2 DEF Seen
      <3>2. /\ letters[k] # NoItem /\ letters[k].status # "pending_deletion"
            /\ letters[k] \in Item \cup {NoItem}
        BY <1>2, <1>3, <3>1 DEF Owned, TypeInv, TypeOK, StoresOK
      <3>3. Active(k)
        BY <3>2 DEF Item, Active
      <3> QED
        BY <1>3, <3>1, <3>2, <3>3 DEF DeletionInv, ItemsAsWritten
    <2> QED
      BY <2>1, <2>2
  <1>5. to \in Steps \ CopiedSteps
    <2>1. job[w].ask.kind \in LetterButtons \cup ReminderButtons
      BY <1>1, JobTyped DEF Fit
    <2> QED
      BY <2>1 DEF AfterGet, Steps, CopiedSteps, MovedSteps, LetterButtons,
                  ReminderButtons
  <1>6. /\ local'[w].key = ArchiveKey(k)
        /\ \A v \in Workers \ {w} : local'[v] = local[v]
    BY <1>2, <1>4 DEF TypeInv, TypeOK, WorkersOK, Local
  <1>7. /\ pc'[w] = to /\ job' = job
        /\ \A v \in Workers \ {w} : pc'[v] = pc[v]
    BY <1>1, <1>5 DEF TypeInv, TypeOK, WorkersOK, Goto, Advance
  <1>8. Knows(w, k)'
    BY <1>5, <1>6, <1>7 DEF Knows, CopiedSteps, MovedSteps
  <1>9. DeletionsKnow'
    <2>1. job'[w].ask.letter = k
      BY <1>7
    <2>2. /\ bucket' = bucket /\ \A l \in Letters : ~Active(l) => ~Active(l)'
          /\ DeletionsKnow
      BY <1>1 DEF Active, DeletionInv
    <2> QED
      BY <1>3, <1>6, <1>7, <1>8, <2>1, <2>2, AllKnow
  <1> QED
    BY <1>1, <1>9 DEF DeletionInv, ItemsAsWritten, ObjectsAsWritten, ObjectsStay,
                      DeletedStay, Active

\* A worker on its way through a deletion, and where it goes.
LEMMA DeletionMoves ==
    ASSUME TypeInv, DeletionInv, NEW w \in Workers, NEW k, NEW from, NEW to,
           k = job[w].ask.letter, from \in LetterSteps, to \in Steps,
           Goto(w, from, to), local' = local
    PROVE  /\ k \in Letters /\ Knows(w, k) /\ letters[k] \in Item
           /\ pc[w] = from /\ pc'[w] = to /\ job' = job /\ purged' = purged
           /\ \A v \in Workers \ {w} : /\ pc'[v] = pc[v] /\ job'[v] = job[v]
                                       /\ local'[v].key = local[v].key
           /\ job'[w].ask.letter = k
  <1>1. /\ pc[w] = from /\ pc'[w] = to /\ job' = job /\ purged' = purged
        /\ \A v \in Workers \ {w} : pc'[v] = pc[v]
    BY DEF TypeInv, TypeOK, WorkersOK, Goto, Advance
  <1>2. pc[w] # "idle" /\ pc[w] \in HeldSteps
    BY <1>1 DEF LetterSteps, HeldSteps
  <1>3. k \in Letters /\ letters[k] \in Item
    BY <1>2, JobTyped
  <1>4. Knows(w, k)
    BY <1>1, <1>3 DEF DeletionInv, DeletionsKnow
  <1> QED
    BY <1>1, <1>3, <1>4

\* CopyObject: now there are two objects.
LEMMA CopyKeeps ==
    ASSUME TypeInv, DeletionInv, NEW w \in Workers, DeleteCopy(w)
    PROVE  DeletionInv'
  <1> PICK k, key, to : /\ k = job[w].ask.letter /\ key = local[w].key
                        /\ to = PendingKey(k)
    OBVIOUS
  <1>1. /\ Goto(w, "delete_copy", "delete_remove") /\ local' = local
        /\ key \in DOMAIN bucket /\ bucket' = PutObject(bucket, to, bucket[key])
        /\ UNCHANGED <<letters, deleted>>
    BY DEF DeleteCopy, CanCopy, CopyObject
  <1>2. /\ k \in Letters /\ Knows(w, k) /\ letters[k] \in Item
        /\ pc[w] = "delete_copy" /\ pc'[w] = "delete_remove" /\ purged' = purged
        /\ \A v \in Workers \ {w} : /\ pc'[v] = pc[v] /\ job'[v] = job[v]
                                    /\ local'[v].key = local[v].key
        /\ job'[w].ask.letter = k
    <2>1. "delete_copy" \in LetterSteps /\ "delete_remove" \in Steps
      BY DEF LetterSteps, Steps
    <2> QED
      BY <1>1, <2>1, DeletionMoves
  <1>3. key = ArchiveKey(k) /\ bucket[key] = k
    BY <1>1, <1>2, KeysDiffer DEF Knows, DeletionInv, ObjectsAsWritten
  <1>4. /\ DOMAIN bucket' = DOMAIN bucket \cup {to} /\ bucket'[to] = k
        /\ \A o \in DOMAIN bucket \ {to} : bucket'[o] = bucket[o]
    BY <1>1, <1>3 DEF PutObject
  <1>5. to.letter = k /\ \A l \in Letters : ArchiveKey(l) # to
    BY <1>2, KeysDiffer
  <1>6. ObjectsAsWritten'
    BY <1>4, <1>5 DEF DeletionInv, ObjectsAsWritten
  <1>7. Knows(w, k)'
    <2>1. /\ local'[w].key = ArchiveKey(k) /\ to \in DOMAIN bucket'
          /\ pc'[w] \notin MovedSteps /\ pc'[w] # "delete_ack"
      BY <1>1, <1>2, <1>3, <1>4 DEF MovedSteps
    <2> QED
      BY <2>1 DEF Knows
  <1>8. DeletionsKnow'
    <2>1. /\ \A l \in Letters :
                /\ ArchiveKey(l) \notin DOMAIN bucket =>
                       ArchiveKey(l) \notin DOMAIN bucket'
                /\ PendingKey(l) \in DOMAIN bucket => PendingKey(l) \in DOMAIN bucket'
                /\ ~Active(l) => ~Active(l)'
          /\ DeletionsKnow
      BY <1>1, <1>4, <1>5 DEF Active, DeletionInv
    <2> QED
      BY <1>2, <1>7, <2>1, AllKnow
  <1>9. ObjectsStay' /\ DeletedStay'
    <2>1. DOMAIN bucket \subseteq DOMAIN bucket'
      BY <1>4
    <2>2. ObjectsStay'
      BY <1>1, <1>2, <2>1 DEF DeletionInv, ObjectsStay
    <2>3. ASSUME NEW l \in deleted
          PROVE  letters[l].status # "active" /\ ArchiveKey(l) \notin DOMAIN bucket'
      <3>1. l \in Letters
        BY DEF TypeInv, TypeOK, HistoryOK
      <3> QED
        BY <1>4, <1>5, <3>1 DEF DeletionInv, DeletedStay, Active
    <2>4. DeletedStay'
      BY <1>1, <2>3 DEF DeletedStay, Active
    <2> QED
      BY <2>2, <2>4
  <1> QED
    BY <1>1, <1>6, <1>8, <1>9 DEF DeletionInv, ItemsAsWritten, Active

\* DeleteObject: the copy in PendingDeletion/ stays.
LEMMA RemoveKeeps ==
    ASSUME TypeInv, DeletionInv, NEW w \in Workers, DeleteRemove(w)
    PROVE  DeletionInv'
  <1> PICK k, key : k = job[w].ask.letter /\ key = local[w].key
    OBVIOUS
  <1>1. /\ Goto(w, "delete_remove", "delete_mark") /\ local' = local
        /\ bucket' = DeleteObject(bucket, key)
        /\ UNCHANGED <<letters, deleted>>
    BY DEF DeleteRemove
  <1>2. /\ k \in Letters /\ Knows(w, k) /\ letters[k] \in Item
        /\ pc[w] = "delete_remove" /\ pc'[w] = "delete_mark" /\ purged' = purged
        /\ \A v \in Workers \ {w} : /\ pc'[v] = pc[v] /\ job'[v] = job[v]
                                    /\ local'[v].key = local[v].key
        /\ job'[w].ask.letter = k
    <2>1. "delete_remove" \in LetterSteps /\ "delete_mark" \in Steps
      BY DEF LetterSteps, Steps
    <2> QED
      BY <1>1, <2>1, DeletionMoves
  <1>3. key = ArchiveKey(k) /\ PendingKey(k) \in DOMAIN bucket
    BY <1>2 DEF Knows, CopiedSteps
  <1>4. /\ DOMAIN bucket' = DOMAIN bucket \ {key}
        /\ \A o \in DOMAIN bucket' : bucket'[o] = bucket[o]
    BY <1>1 DEF DeleteObject
  <1>5. \A l \in Letters : PendingKey(l) # key /\ (l # k => ArchiveKey(l) # key)
    BY <1>2, <1>3, KeysDiffer
  <1>6. ObjectsAsWritten'
    BY <1>4 DEF DeletionInv, ObjectsAsWritten
  <1>7. Knows(w, k)'
    BY <1>1, <1>2, <1>3, <1>4, <1>5 DEF Knows
  <1>8. DeletionsKnow'
    <2>1. /\ \A l \in Letters :
                /\ ArchiveKey(l) \notin DOMAIN bucket =>
                       ArchiveKey(l) \notin DOMAIN bucket'
                /\ PendingKey(l) \in DOMAIN bucket => PendingKey(l) \in DOMAIN bucket'
                /\ ~Active(l) => ~Active(l)'
          /\ DeletionsKnow
      BY <1>1, <1>4, <1>5 DEF Active, DeletionInv
    <2> QED
      BY <1>2, <1>7, <2>1, AllKnow
  <1>9. ObjectsStay' /\ DeletedStay'
    BY <1>1, <1>2, <1>3, <1>4, <1>5
    DEF DeletionInv, ObjectsStay, DeletedStay, Active, HistoryOK, TypeInv, TypeOK
  <1> QED
    BY <1>1, <1>6, <1>8, <1>9 DEF DeletionInv, ItemsAsWritten, Active

\* MarkPendingDeletion: the item follows the object.
LEMMA MarkKeeps ==
    ASSUME TypeInv, DeletionInv, NEW w \in Workers, DeleteMark(w)
    PROVE  DeletionInv'
  <1> PICK k : k = job[w].ask.letter
    OBVIOUS
  <1>1. /\ Goto(w, "delete_mark", "delete_ack") /\ local' = local
        /\ letters' = [letters EXCEPT ![k].status = "pending_deletion",
                                      ![k].key = PendingKey(k)]
        /\ UNCHANGED <<bucket, deleted>>
    BY DEF DeleteMark
  <1>2. /\ k \in Letters /\ Knows(w, k) /\ letters[k] \in Item
        /\ pc[w] = "delete_mark" /\ pc'[w] = "delete_ack" /\ purged' = purged
        /\ \A v \in Workers \ {w} : /\ pc'[v] = pc[v] /\ job'[v] = job[v]
                                    /\ local'[v].key = local[v].key
        /\ job'[w].ask.letter = k
    <2> PICK from, to : from = "delete_mark" /\ to = "delete_ack"
      OBVIOUS
    <2>1. from \in LetterSteps /\ to \in Steps /\ Goto(w, from, to)
      BY <1>1 DEF LetterSteps, Steps
    <2>2. /\ k \in Letters /\ Knows(w, k) /\ letters[k] \in Item
          /\ pc[w] = from /\ pc'[w] = to /\ purged' = purged
          /\ \A v \in Workers \ {w} : /\ pc'[v] = pc[v] /\ job'[v] = job[v]
                                      /\ local'[v].key = local[v].key
          /\ job'[w].ask.letter = k
      BY <1>1, <2>1, DeletionMoves
    <2> QED
      BY <2>2
  <1>3. /\ letters'[k].status = "pending_deletion"
        /\ letters'[k].key = PendingKey(k)
        /\ letters'[k].chat = letters[k].chat
        /\ \A l \in Letters \ {k} : letters'[l] = letters[l]
    BY <1>1, <1>2 DEF TypeInv, TypeOK, StoresOK, Item
  <1>4. letters[k].chat = Owner[k]
    BY <1>2 DEF DeletionInv, ItemsAsWritten, Item, NoItem
  <1>5. ItemsAsWritten'
    BY <1>2, <1>3, <1>4 DEF DeletionInv, ItemsAsWritten, Active
  <1>6. /\ PendingKey(k) \in DOMAIN bucket /\ ArchiveKey(k) \notin DOMAIN bucket
    BY <1>2 DEF Knows, CopiedSteps, MovedSteps
  <1>7. Knows(w, k)'
    BY <1>1, <1>2, <1>3, <1>6 DEF Knows, Active
  <1>8. DeletionsKnow'
    <2>1. /\ \A l \in Letters :
                /\ ArchiveKey(l) \notin DOMAIN bucket =>
                       ArchiveKey(l) \notin DOMAIN bucket'
                /\ PendingKey(l) \in DOMAIN bucket => PendingKey(l) \in DOMAIN bucket'
                /\ ~Active(l) => ~Active(l)'
          /\ DeletionsKnow
      BY <1>1, <1>3 DEF Active, DeletionInv
    <2> QED
      BY <1>2, <1>7, <2>1, AllKnow
  <1>9. ObjectsStay' /\ DeletedStay'
    BY <1>1, <1>2, <1>3, <1>6
    DEF DeletionInv, ObjectsStay, DeletedStay, Active, HistoryOK, TypeInv, TypeOK
  <1> QED
    BY <1>1, <1>5, <1>8, <1>9 DEF DeletionInv, ObjectsAsWritten

\* What is reported has happened.
LEMMA AckKeeps ==
    ASSUME TypeInv, DeletionInv, NEW w \in Workers, DeleteAck(w)
    PROVE  DeletionInv'
  <1> PICK k : k = job[w].ask.letter
    OBVIOUS
  <1>1. /\ Goto(w, "delete_ack", "finish") /\ local' = local
        /\ deleted' = deleted \cup {k}
        /\ UNCHANGED <<bucket, letters>>
    BY DEF DeleteAck
  <1>2. /\ k \in Letters /\ Knows(w, k) /\ letters[k] \in Item
        /\ pc[w] = "delete_ack" /\ pc'[w] = "finish" /\ purged' = purged
        /\ \A v \in Workers \ {w} : /\ pc'[v] = pc[v] /\ job'[v] = job[v]
                                    /\ local'[v].key = local[v].key
        /\ job'[w].ask.letter = k
    <2>1. "delete_ack" \in LetterSteps /\ "finish" \in Steps
      BY DEF LetterSteps, Steps
    <2> QED
      BY <1>1, <2>1, DeletionMoves
  <1>3. ~Active(k) /\ ArchiveKey(k) \notin DOMAIN bucket
    BY <1>2 DEF Knows, MovedSteps
  <1>4. DeletionsKnow'
    <2>1. /\ \A l \in Letters :
                /\ ArchiveKey(l) \notin DOMAIN bucket =>
                       ArchiveKey(l) \notin DOMAIN bucket'
                /\ PendingKey(l) \in DOMAIN bucket => PendingKey(l) \in DOMAIN bucket'
                /\ ~Active(l) => ~Active(l)'
          /\ DeletionsKnow
      BY <1>1 DEF Active, DeletionInv
    <2>2. pc'[w] \notin LetterSteps
      BY <1>2 DEF LetterSteps
    <2> QED
      BY <1>2, <2>1, <2>2, AllKnow
  <1>5. DeletedStay'
    BY <1>1, <1>3 DEF DeletionInv, DeletedStay, Active
  <1> QED
    BY <1>1, <1>2, <1>4, <1>5
    DEF DeletionInv, ItemsAsWritten, ObjectsAsWritten, ObjectsStay, Active

\* The lifecycle rule: no worker relies on the object any more.
LEMMA PurgeKeeps ==
    ASSUME TypeInv, DeletionInv, NEW l \in Letters, Purge(l)
    PROVE  DeletionInv'
  <1>1. /\ UNCHANGED <<pc, job, local, letters, deleted>> /\ Quiet(l)
        /\ purged' = purged \cup {l}
        /\ DOMAIN bucket' = DOMAIN bucket \ {PendingKey(l)}
        /\ \A k \in DOMAIN bucket' : bucket'[k] = bucket[k]
    BY DEF Purge, workerVars, DeleteObject
  <1>2. ASSUME NEW v \in Workers, NEW k \in Letters,
               pc[v] \in LetterSteps, job[v].ask.letter = k
        PROVE  k # l
    <2>1. pc[v] # "idle" /\ job[v].ask \in Asks
          /\ job[v].ask.kind \in LetterButtons
      BY <1>2, JobTyped DEF Fit, LetterSteps
    <2>2. About(job[v], k)
      BY <1>2, <2>1, AskTyped DEF About
    <2> QED
      BY <1>1, <2>1, <2>2 DEF Quiet
  <1>3. \A k \in Letters : /\ ArchiveKey(k) # PendingKey(l)
                           /\ k # l => PendingKey(k) # PendingKey(l)
    BY KeysDiffer
  <1>4. DeletionsKnow'
    <2> SUFFICES ASSUME NEW v \in Workers, NEW k \in Letters,
                        pc'[v] \in LetterSteps, job'[v].ask.letter = k
                 PROVE  Knows(v, k)'
      BY DEF DeletionsKnow
    <2>1. k # l
      BY <1>1, <1>2
    <2>2. /\ PendingKey(k) \in DOMAIN bucket => PendingKey(k) \in DOMAIN bucket'
          /\ ArchiveKey(k) \notin DOMAIN bucket => ArchiveKey(k) \notin DOMAIN bucket'
          /\ ~Active(k) => ~Active(k)'
          /\ DeletionsKnow
      BY <1>1, <1>3, <2>1 DEF Active, DeletionInv
    <2>3. pc'[v] = pc[v] /\ job'[v] = job[v] /\ local'[v].key = local[v].key
      BY <1>1
    <2> QED
      BY <2>2, <2>3, OthersKnow
  <1>5. ObjectsAsWritten'
    BY <1>1 DEF DeletionInv, ObjectsAsWritten
  <1>6. ObjectsStay'
    BY <1>1, <1>3 DEF DeletionInv, ObjectsStay
  <1>7. DeletedStay'
    BY <1>1 DEF DeletionInv, DeletedStay, Active
  <1> QED
    BY <1>1, <1>4, <1>5, <1>6, <1>7 DEF DeletionInv, ItemsAsWritten, Active

\* The time to live of an item.
LEMMA ReapKeeps ==
    ASSUME TypeInv, DeletionInv, NEW l \in Letters, Reap(l)
    PROVE  DeletionInv'
  <1>1. /\ UNCHANGED <<pc, job, local, bucket, deleted, purged>>
        /\ letters'[l] = NoItem
        /\ \A k \in Letters \ {l} : letters'[k] = letters[k]
    BY DEF Reap, workerVars, historyVars, TypeInv, TypeOK, StoresOK
  <1>2. \A k \in Letters : ~Active(k) => ~Active(k)'
    BY <1>1 DEF Active, NoItem
  <1>3. DeletionsKnow'
    <2> SUFFICES ASSUME NEW v \in Workers, NEW k \in Letters,
                        pc'[v] \in LetterSteps, job'[v].ask.letter = k
                 PROVE  Knows(v, k)'
      BY DEF DeletionsKnow
    <2>1. pc'[v] = pc[v] /\ job'[v] = job[v] /\ local'[v].key = local[v].key
          /\ bucket' = bucket /\ DeletionsKnow
      BY <1>1 DEF DeletionInv
    <2> QED
      BY <1>2, <2>1, OthersKnow
  <1>4. ItemsAsWritten'
    BY <1>1 DEF DeletionInv, ItemsAsWritten, Active
  <1>5. ObjectsStay'
    BY <1>1 DEF DeletionInv, ObjectsStay, NoItem
  <1>6. DeletedStay'
    BY <1>1, <1>2 DEF DeletionInv, DeletedStay, TypeInv, TypeOK, HistoryOK
  <1> QED
    BY <1>1, <1>3, <1>4, <1>5, <1>6 DEF DeletionInv, ObjectsAsWritten

(***************************************************************************)
(* Every step keeps what is known of deletions: a PDF is copied before it  *)
(* is removed, removed before its item is marked, and marked before the    *)
(* bot reports it, whoever else is at work on the same letter.             *)
(***************************************************************************)
LEMMA DeletionStep == TypeInv /\ DeletionInv /\ [Next]_vars => DeletionInv'
  <1> SUFFICES ASSUME TypeInv, DeletionInv, [Next]_vars
               PROVE  DeletionInv'
    OBVIOUS
  <1>1. CASE \E w \in Workers : \/ GetLetter(w) \/ DeleteCopy(w)
                                \/ DeleteRemove(w) \/ DeleteMark(w)
                                \/ DeleteAck(w)
    BY <1>1, GetKeeps, CopyKeeps, RemoveKeeps, MarkKeeps, AckKeeps
  <1>2. CASE \E l \in Letters : Purge(l) \/ Reap(l)
    BY <1>2, PurgeKeeps, ReapKeeps
  <1>3. ASSUME ~ \E w \in Workers : \/ GetLetter(w) \/ DeleteCopy(w)
                                    \/ DeleteRemove(w) \/ DeleteMark(w)
                                    \/ DeleteAck(w),
               ~ \E l \in Letters : Purge(l) \/ Reap(l)
        PROVE  DeletionInv'
    <2>1. UNCHANGED <<bucket, letters, deleted, purged>>
      BY <1>3, ArchiveStays
    <2>2. \A v \in Workers : pc'[v] \in LetterSteps =>
              /\ pc'[v] = pc[v] /\ job'[v] = job[v]
              /\ local'[v].key = local[v].key
      BY <1>3, WorkersMoveOn
    <2>3. DeletionsKnow'
      <3> SUFFICES ASSUME NEW v \in Workers, NEW k \in Letters,
                          pc'[v] \in LetterSteps, job'[v].ask.letter = k
                   PROVE  Knows(v, k)'
        BY DEF DeletionsKnow
      <3>1. /\ DeletionsKnow /\ bucket' = bucket /\ (~Active(k) => ~Active(k)')
        BY <2>1 DEF DeletionInv, Active
      <3>2. /\ pc'[v] = pc[v] /\ job'[v] = job[v]
            /\ local'[v].key = local[v].key
        BY <2>2
      <3> QED
        BY <3>1, <3>2, OthersKnow
    <2> QED
      BY <2>1, <2>3 DEF DeletionInv, ItemsAsWritten, ObjectsAsWritten,
                        ObjectsStay, DeletedStay, Active
  <1> QED
    BY <1>1, <1>2, <1>3

\* The invariant behind the theorems about deletion.
LEMMA DeletionsAreKnown == Spec => [](TypeInv /\ DeletionInv)
  BY TypeInit, TypeStep, DeletionInit, DeletionStep, PTL DEF Spec

(***************************************************************************)
(* A deletion loses no PDF, however often it is requested or delivered,    *)
(* and wherever it fails.                                                  *)
(***************************************************************************)
THEOREM PdfsAreKept == Spec => []NoPdfLost
  <1>1. DeletionInv => NoPdfLost
    <2> SUFFICES ASSUME DeletionInv, NEW l \in Letters \ purged
                 PROVE  \E k \in DOMAIN bucket : bucket[k] = l
      BY DEF NoPdfLost
    <2> QED
      BY KeysDiffer DEF DeletionInv, ObjectsAsWritten, ObjectsStay
  <1> QED
    BY <1>1, DeletionsAreKnown, PTL

(***************************************************************************)
(* The item of a deleted letter names the object that holds its PDF, until *)
(* the lifecycle rule removes that.                                        *)
(***************************************************************************)
THEOREM DeletionsCanBeUndone == Spec => []DeletedIsRecoverable
  <1>1. TypeInv /\ DeletionInv => DeletedIsRecoverable
    <2> SUFFICES ASSUME TypeInv, DeletionInv, NEW l \in Letters \ purged,
                        letters[l].status = "pending_deletion"
                 PROVE  /\ letters[l].key \in DOMAIN bucket
                        /\ bucket[letters[l].key] = l
      BY DEF DeletedIsRecoverable
    <2>1. letters[l] # NoItem /\ ~Active(l)
      BY DEF NoItem, Active
    <2>2. letters[l].key = PendingKey(l) /\ PendingKey(l) \in DOMAIN bucket
      BY <2>1 DEF DeletionInv, ItemsAsWritten, ObjectsStay
    <2> QED
      BY <2>2, KeysDiffer DEF DeletionInv, ObjectsAsWritten
  <1> QED
    BY <1>1, DeletionsAreKnown, PTL

(***************************************************************************)
(* What was reported as deleted is in no listing and no longer in the      *)
(* archive, where nothing would ever remove it.                            *)
(***************************************************************************)
THEOREM DeletionsAreFinal == Spec => []DeletedIsGone
  <1>1. TypeInv /\ DeletionInv => DeletedIsGone
    <2> SUFFICES ASSUME TypeInv, DeletionInv, NEW l \in deleted
                 PROVE  /\ l \notin queryOrgYear(letters, Owner[l], AnyPrefix)
                        /\ l \notin Query(letters, Owner[l])
                        /\ ArchiveKey(l) \notin DOMAIN bucket
      BY DEF DeletedIsGone
    <2>1. l \in Letters /\ ~Active(l) /\ ArchiveKey(l) \notin DOMAIN bucket
      BY DEF TypeInv, TypeOK, HistoryOK, DeletionInv, DeletedStay
    <2>2. letters[l] = NoItem \/ letters[l].status = "pending_deletion"
      BY <2>1 DEF TypeInv, TypeOK, StoresOK, Item, Active
    <2>3. CASE letters[l] = NoItem
      BY <2>1, <2>3, QueriesFindLetters DEF Items
    <2>4. CASE letters[l].status = "pending_deletion"
      BY <2>1, <2>4 DEF queryOrgYear, Query, NotDeleted
    <2> QED
      BY <2>2, <2>3, <2>4
  <1> QED
    BY <1>1, DeletionsAreKnown, PTL

-----------------------------------------------------------------------------
(* Cancelling a reminder.                                                  *)

\* A worker about to report a cancellation knows that there is no schedule.
CancelInv ==
    /\ CancelledIsUnscheduled
    /\ \A w \in Workers : pc[w] = "cancel_ack" => ReminderOf(job[w]) \notin schedules

\* Only Cancel brings a worker to its report.
LEMMA CancelsMove ==
    ASSUME TypeInv, [Next]_vars, ~ \E w \in Workers : CancelReminder(w)
    PROVE  \A v \in Workers : pc'[v] = "cancel_ack" =>
               pc[v] = "cancel_ack" /\ job'[v] = job[v]
  <1> DEFINE Goal == \A v \in Workers : pc'[v] = "cancel_ack" =>
                         pc[v] = "cancel_ack" /\ job'[v] = job[v]
  <1>1. /\ pc \in [Workers -> Steps]
        /\ job \in [Workers -> Message \cup {NoMessage}]
        /\ queue \subseteq Message
    BY DEF TypeInv, TypeOK, WorkersOK, MessagesOK
  <1>2. ASSUME NEW w \in Workers, NEW to \in Steps \ {"cancel_ack"},
               pc' = [pc EXCEPT ![w] = to],
               \A v \in Workers \ {w} : job'[v] = job[v]
        PROVE  Goal
    BY <1>1, <1>2
  <1>3. ASSUME UNCHANGED <<pc, job>>
        PROVE  Goal
    BY <1>3
  <1> HIDE DEF Goal
  <1> USE DEF Steps
  <1>4. ASSUME NEW w \in Workers,
               \/ Finish(w) \/ Fail(w) \/ ListingRefused(w) \/ PdfMissing(w)
               \/ DeleteMissing(w)
        PROVE  Goal
    <2>1. /\ pc' = [pc EXCEPT ![w] = "idle"]
          /\ \A v \in Workers \ {w} : job'[v] = job[v]
      BY <1>1, <1>4 DEF Finish, Fail, ListingRefused, PdfMissing,
                        DeleteMissing, GiveBack, Return, Rest
    <2> QED
      BY <1>2, <2>1
  <1>5. ASSUME NEW w \in Workers, NEW from,
               NEW to \in Steps \ {"cancel_ack"}, Goto(w, from, to)
        PROVE  Goal
    <2>1. pc' = [pc EXCEPT ![w] = to] /\ job' = job
      BY <1>5 DEF Goto, Advance
    <2> QED
      BY <1>2, <2>1
  <1>6. ASSUME NEW w \in Workers,
               \/ QueryOrganizations(w) \/ QueryYears(w) \/ QueryByOrgYear(w)
               \/ QueryReminders(w)
        PROVE  Goal
    BY <1>5, <1>6 DEF QueryOrganizations, QueryYears, QueryByOrgYear,
                      QueryReminders, Find
  <1>7. ASSUME NEW w \in Workers,
               \/ SendListing(w) \/ ListReminders(w) \/ LetterNotFound(w)
               \/ ViewLetter(w) \/ RequestPdf(w) \/ ViewReminder(w)
               \/ DeleteCopy(w) \/ DeleteRemove(w) \/ DeleteMark(w)
               \/ DeleteAck(w) \/ CancelAck(w)
        PROVE  Goal
    BY <1>5, <1>7 DEF SendListing, ListReminders, LetterNotFound, ViewLetter,
                      RequestPdf, ViewReminder, DeleteCopy, DeleteRemove,
                      DeleteMark, DeleteAck, CancelAck
  <1>8. ASSUME NEW w \in Workers, GetLetter(w)
        PROVE  Goal
    <2>1. Goto(w, "get", AfterGet[job[w].ask.kind]) /\ pc[w] = "get"
      BY <1>8 DEF GetLetter, Goto, Advance
    <2>2. job[w].ask.kind \in LetterButtons \cup ReminderButtons
      BY <2>1, JobTyped DEF Fit
    <2>3. AfterGet[job[w].ask.kind] \in Steps \ {"cancel_ack"}
      BY <2>2 DEF AfterGet, LetterButtons, ReminderButtons
    <2> QED
      BY <1>5, <2>1, <2>3
  <1>9. ASSUME NEW w \in Workers, NEW m \in queue, Receive(w, m)
        PROVE  Goal
    <2>1. m.ask.kind \in Requests
      BY <1>1, AskTyped DEF Message
    <2>2. Entry(m.ask.kind) \in Steps \ {"cancel_ack"}
      BY <2>1 DEF Entry, Requests, Commands, DrillButtons
    <2>3. /\ pc' = [pc EXCEPT ![w] = Entry(m.ask.kind)]
          /\ \A v \in Workers \ {w} : job'[v] = job[v]
      BY <1>1, <1>9 DEF Receive, Deliver
    <2> QED
      BY <1>2, <2>2, <2>3
  <1>10. ASSUME \/ \E c \in Chats : \E ask \in buttons[c] : Ask(c, ask)
                \/ \E r \in Reminder : Fire(r) \/ SendReminder(r) \/ SendFails(r)
                \/ \E l \in Letters : Purge(l) \/ Reap(l)
                \/ UNCHANGED vars
         PROVE  Goal
    BY <1>3, <1>10 DEF Ask, Fire, SendReminder, SendFails, Purge, Reap, vars,
                       workerVars
  <1>11. Goal
    BY <1>4, <1>6, <1>7, <1>8, <1>9, <1>10 DEF Next, WorkerStep
  <1> QED
    BY <1>11 DEF Goal

\* No step of this system makes a schedule, and only CancelAck reports one.
LEMMA SchedulesGo ==
    ASSUME [Next]_vars
    PROVE  /\ schedules' \subseteq schedules
           /\ cancelled' = cancelled \/ \E w \in Workers : CancelAck(w)
  <1> USE DEF historyVars, reminderVars
  <1>1. ASSUME NEW w \in Workers, WorkerStep(w) \/ Fail(w), ~CancelAck(w)
        PROVE  schedules' \subseteq schedules /\ cancelled' = cancelled
    <2>1. CASE \/ Finish(w) \/ Fail(w) \/ ListingRefused(w) \/ PdfMissing(w)
               \/ DeleteMissing(w)
      BY <2>1 DEF Finish, Fail, ListingRefused, PdfMissing, DeleteMissing, GiveBack
    <2>2. CASE \/ QueryOrganizations(w) \/ QueryYears(w) \/ QueryByOrgYear(w)
               \/ QueryReminders(w)
      BY <2>2 DEF QueryOrganizations, QueryYears, QueryByOrgYear,
                  QueryReminders, Find
    <2>3. CASE \/ SendListing(w) \/ ListReminders(w) \/ GetLetter(w)
               \/ LetterNotFound(w) \/ ViewLetter(w) \/ RequestPdf(w)
               \/ ViewReminder(w) \/ CancelReminder(w) \/ DeleteCopy(w)
               \/ DeleteRemove(w) \/ DeleteMark(w) \/ DeleteAck(w)
      BY <2>3 DEF SendListing, ListReminders, GetLetter, LetterNotFound,
                  ViewLetter, RequestPdf, ViewReminder, CancelReminder,
                  DeleteCopy, DeleteRemove, DeleteMark, DeleteAck
    <2> QED
      BY <1>1, <2>1, <2>2, <2>3 DEF WorkerStep
  <1>2. ASSUME \/ \E c \in Chats : \E ask \in buttons[c] : Ask(c, ask)
               \/ \E w \in Workers, m \in queue : Receive(w, m)
               \/ \E r \in Reminder : Fire(r) \/ SendReminder(r) \/ SendFails(r)
               \/ \E l \in Letters : Purge(l) \/ Reap(l)
               \/ UNCHANGED vars
        PROVE  schedules' \subseteq schedules /\ cancelled' = cancelled
    BY <1>2 DEF Ask, Receive, Fire, SendReminder, SendFails, Purge, Reap, vars
  <1>3. ASSUME NEW w \in Workers, CancelAck(w)
        PROVE  schedules' \subseteq schedules
    BY <1>3 DEF CancelAck
  <1> QED
    BY <1>1, <1>2, <1>3 DEF Next

\* A report comes after the schedule has gone, and no schedule comes back.
LEMMA CancelStep == TypeInv /\ CancelInv /\ [Next]_vars => CancelInv'
  <1> SUFFICES ASSUME TypeInv, CancelInv, [Next]_vars
               PROVE  CancelInv'
    OBVIOUS
  <1>1. schedules' \subseteq schedules
    BY SchedulesGo
  <1>2. CASE \E w \in Workers : CancelReminder(w)
    <2>1. PICK w \in Workers : CancelReminder(w)
      BY <1>2
    <2>2. /\ pc' = [pc EXCEPT ![w] = "cancel_ack"] /\ job' = job
          /\ schedules' = schedules \ {ReminderOf(job[w])}
          /\ cancelled' = cancelled
      BY <2>1 DEF CancelReminder, Goto, Advance
    <2>3. \A v \in Workers \ {w} : pc'[v] = pc[v]
      BY <2>2 DEF TypeInv, TypeOK, WorkersOK
    <2> QED
      BY <1>1, <2>2, <2>3 DEF CancelInv, CancelledIsUnscheduled, ReminderOf
  <1>3. CASE ~ \E w \in Workers : CancelReminder(w)
    <2>1. \A v \in Workers : pc'[v] = "cancel_ack" =>
              pc[v] = "cancel_ack" /\ job'[v] = job[v]
      BY <1>3, CancelsMove
    <2>2. \A v \in Workers : pc'[v] = "cancel_ack" =>
              ReminderOf(job[v])' \notin schedules'
      BY <1>1, <2>1 DEF CancelInv, ReminderOf
    <2>3. CancelledIsUnscheduled'
      <3>1. CASE cancelled' = cancelled
        BY <1>1, <3>1 DEF CancelInv, CancelledIsUnscheduled
      <3>2. CASE \E w \in Workers : CancelAck(w)
        <4>1. PICK w \in Workers : CancelAck(w)
          BY <3>2
        <4>2. /\ pc[w] = "cancel_ack"
              /\ cancelled' = cancelled \cup {ReminderOf(job[w])}
          BY <4>1 DEF CancelAck, Goto, Advance
        <4> QED
          BY <1>1, <4>2 DEF CancelInv, CancelledIsUnscheduled
      <3> QED
        BY <3>1, <3>2, SchedulesGo
    <2> QED
      BY <2>2, <2>3 DEF CancelInv
  <1> QED
    BY <1>2, <1>3

(***************************************************************************)
(* A reminder reported as cancelled is not going to be fired, whatever is  *)
(* delivered again and whatever fires in between.                          *)
(***************************************************************************)
THEOREM CancelledStayCancelled == Spec => []CancelledIsUnscheduled
  <1>1. Init => CancelInv
    BY DEF Init, InvocationsInit, CancelInv, CancelledIsUnscheduled
  <1>2. CancelInv => CancelledIsUnscheduled
    BY DEF CancelInv
  <1> QED
    BY <1>1, <1>2, TypeInit, TypeStep, CancelStep, PTL DEF Spec

-----------------------------------------------------------------------------
(* The drill-down.                                                         *)

\* A prefix agrees with the sequence that it begins.
LEMMA PrefixAgrees ==
    ASSUME NEW s, NEW t, Len(s) \in Nat, IsPrefix(s, t)
    PROVE  Len(s) <= Len(t) /\ \A i \in 1..Len(s) : s[i] = t[i]
  <1> DEFINE n == Len(s)
  <1>1. Len(s) <= Len(t) /\ SubSeq(s, 1, n) = SubSeq(t, 1, n)
    BY DEF IsPrefix
  <1> HIDE DEF n
  <1>2. n = Len(s) /\ n \in Int /\ 1 \in Int /\ n - 1 + 1 = n
    BY DEF n
  <1>3. \A i \in 1..n : SubSeq(s, 1, n)[i] = s[1 + i - 1]
    <2> DEFINE S == {s[i] : i \in 1..n}
    <2>1. \A i \in 1..n : s[i] \in S
      OBVIOUS
    <2> HIDE DEF S
    <2> QED
      BY <1>2, <2>1, SubSeqProperties
  <1>4. \A i \in 1..n : SubSeq(t, 1, n)[i] = t[1 + i - 1]
    <2> DEFINE S == {t[i] : i \in 1..n}
    <2>1. \A i \in 1..n : t[i] \in S
      OBVIOUS
    <2> HIDE DEF S
    <2> QED
      BY <1>2, <2>1, SubSeqProperties
  <1>5. \A i \in 1..n : 1 + i - 1 = i
    BY <1>2
  <1> QED
    BY <1>1, <1>2, <1>3, <1>4, <1>5

\* The prefix that handleArchiveOrg asks for.
LEMMA OrgKey ==
    ASSUME NEW k \in Letters
    PROVE  /\ Len(OrgPrefix(Slug[k])) = Len(Slug[k]) + 1
           /\ \A i \in 1..Len(Slug[k]) : OrgPrefix(Slug[k])[i] = Slug[k][i]
           /\ OrgPrefix(Slug[k])[Len(Slug[k]) + 1] = "#"
  <1> DEFINE S == STRING \cup {"#"}
  <1>1. PICK s, t, x : s = Slug[k] /\ t = <<x>> /\ x = "#"
    OBVIOUS
  <1>2. s \in Seq(S) /\ x \in S
    <2>1. s \in Seq(STRING)
      BY <1>1, LettersAssumption
    <2> QED
      BY <1>1, <2>1
  <1> HIDE DEF S
  <1>3. t \in Seq(S) /\ Len(t) = 1 /\ t[1] = x
    BY <1>1, <1>2
  <1>4. Len(s) \in Nat
    BY <1>2
  <1>5. /\ Len(s \o t) = Len(s) + Len(t)
        /\ \A i \in 1..Len(s) + Len(t) :
               (s \o t)[i] = IF i <= Len(s) THEN s[i] ELSE t[i - Len(s)]
    BY <1>2, <1>3, ConcatProperties
  <1>6. OrgPrefix(Slug[k]) = s \o t
    BY <1>1 DEF OrgPrefix
  <1>7. \A i \in 1..Len(s) : i \in 1..Len(s) + Len(t) /\ i <= Len(s)
    BY <1>3, <1>4
  <1>8. /\ Len(s) + 1 \in 1..Len(s) + Len(t)
        /\ ~ (Len(s) + 1 <= Len(s)) /\ Len(s) + 1 - Len(s) = 1
    BY <1>3, <1>4
  <1> QED
    BY <1>1, <1>3, <1>4, <1>5, <1>6, <1>7, <1>8

(***************************************************************************)
(* The "#" after a slug keeps apart the organizations one of whose slugs   *)
(* begins with the other: no slug contains a "#".                          *)
(***************************************************************************)
LEMMA SlugsApart ==
    ASSUME NEW k \in Letters, NEW l \in Letters,
           IsPrefix(OrgPrefix(Slug[k]), OrgYear(l))
    PROVE  Slug[l] = Slug[k]
  <1> PICK s, t, p, o, m, n : /\ s = Slug[k] /\ t = Slug[l]
                              /\ p = OrgPrefix(Slug[k]) /\ o = OrgYear(l)
                              /\ n = Len(Slug[k]) /\ m = Len(Slug[l])
    OBVIOUS
  <1>1. /\ Len(p) = n + 1 /\ p[n + 1] = "#" /\ \A i \in 1..n : p[i] = s[i]
    BY OrgKey
  <1>2. /\ n \in Nat /\ m \in Nat /\ Len(o) = m + 2 /\ o[m + 1] = "#"
        /\ \A i \in 1..m : o[i] = t[i]
    BY SortKey
  <1>3. /\ s \in Seq(STRING) /\ t \in Seq(STRING) /\ Len(s) = n /\ Len(t) = m
        /\ \A i \in 1..n : s[i] # "#"
        /\ \A i \in 1..m : t[i] # "#"
    BY LettersAssumption
  <1>4. n + 1 <= m + 2 /\ \A i \in 1..n + 1 : p[i] = o[i]
    <2>1. Len(p) \in Nat /\ IsPrefix(p, o)
      BY <1>1, <1>2
    <2>2. Len(p) <= Len(o) /\ \A i \in 1..Len(p) : p[i] = o[i]
      BY <2>1, PrefixAgrees
    <2> QED
      BY <1>1, <1>2, <2>2
  <1>5. ~ (n < m)
    <2>1. SUFFICES ASSUME n < m
                   PROVE  FALSE
      OBVIOUS
    <2>2. n + 1 \in 1..m /\ n + 1 \in 1..n + 1
      BY <1>2, <2>1
    <2>3. t[n + 1] = "#"
      BY <1>1, <1>2, <1>4, <2>2
    <2> QED
      BY <1>3, <2>2, <2>3
  <1>6. ~ (m < n)
    <2>1. SUFFICES ASSUME m < n
                   PROVE  FALSE
      OBVIOUS
    <2>2. m + 1 \in 1..n /\ m + 1 \in 1..n + 1
      BY <1>2, <2>1
    <2>3. s[m + 1] = "#"
      BY <1>1, <1>2, <1>4, <2>2
    <2> QED
      BY <1>3, <2>2, <2>3
  <1>7. n = m
    BY <1>2, <1>5, <1>6
  <1>8. \A i \in 1..Len(s) : s[i] = t[i]
    <2>1. \A i \in 1..n : i \in 1..n + 1
      BY <1>2
    <2> QED
      BY <1>1, <1>2, <1>3, <1>4, <1>7, <2>1
  <1>9. s \in Seq(STRING) /\ t \in Seq(STRING) /\ Len(s) = Len(t)
    BY <1>3, <1>7
  <1>10. s = t
    BY <1>8, <1>9, SeqEqual
  <1> QED
    BY <1>10

(***************************************************************************)
(* What a worker knows of the letters it is about to list, and of the      *)
(* letter it is about to show.                                             *)
(***************************************************************************)
ListKnows(w) ==
    /\ pc[w] \in ListingSteps => \A l \in local[w].found : Owner[l] = job[w].chat
    /\ pc[w] = "archorg_send" =>
           \A l \in local[w].found : Slug[l] = job[w].ask.slug
    /\ pc[w] = "view_send" => Owner[job[w].ask.letter] = job[w].chat

ListInv == NoDeadEnds /\ \A w \in Workers : ListKnows(w)

ShowSteps == ListingSteps \cup {"view_send"}

\* A stale item names the same owner.
LEMMA SeenOwner ==
    ASSUME DeletionInv, NEW stale \in SUBSET Letters, NEW l \in Letters,
           Seen(stale)[l] # NoItem
    PROVE  Seen(stale)[l].chat = Owner[l]
  <1>1. CASE l \in stale
    BY <1>1 DEF Seen, SavedItem
  <1>2. CASE l \notin stale
    <2>1. Seen(stale)[l] = letters[l]
      BY <1>2 DEF Seen
    <2> QED
      BY <2>1 DEF DeletionInv, ItemsAsWritten
  <1> QED
    BY <1>1, <1>2

\* One worker moves, and what the others know stays true.
LEMMA ListMoves ==
    ASSUME TypeInv, ListInv, NEW w \in Workers, NEW to \in Steps,
           pc' = [pc EXCEPT ![w] = to],
           \A v \in Workers \ {w} : job'[v] = job[v] /\ local'[v] = local[v],
           to \in ShowSteps => ListKnows(w)'
    PROVE  \A v \in Workers : ListKnows(v)'
  <1>1. pc'[w] = to /\ \A v \in Workers \ {w} : pc'[v] = pc[v]
    BY DEF TypeInv, TypeOK, WorkersOK
  <1>2. ASSUME to \notin ShowSteps
        PROVE  ListKnows(w)'
    BY <1>1, <1>2 DEF ListKnows, ShowSteps, ListingSteps
  <1>3. ASSUME NEW v \in Workers \ {w}
        PROVE  ListKnows(v)'
    <2>1. pc'[v] = pc[v] /\ job'[v] = job[v] /\ local'[v] = local[v] /\ ListKnows(v)
      BY <1>1, <1>3 DEF ListInv
    <2> QED
      BY <2>1 DEF ListKnows
  <1> QED
    BY <1>2, <1>3

\* What the three queries find belongs to the chat, and to the organization.
LEMMA QueriesKnow ==
    ASSUME TypeInv, DeletionInv, ListInv, NEW w \in Workers,
           QueryOrganizations(w) \/ QueryYears(w) \/ QueryByOrgYear(w)
    PROVE  ListInv'
  <1>1. PICK stale, prefix, from, to :
            /\ stale \in SUBSET MayBeStale /\ to \in ListingSteps
            /\ Find(w, from, to, queryOrgYear(Seen(stale), job[w].chat, prefix))
            /\ to = "archorg_send" =>
                   from = "archorg" /\ prefix = OrgPrefix(job[w].ask.slug)
    <2>1. CASE QueryOrganizations(w)
      <3>1. PICK stale \in SUBSET MayBeStale :
                Find(w, "archive", "archive_send",
                     queryOrgYear(Seen(stale), job[w].chat, AnyPrefix))
        BY <2>1 DEF QueryOrganizations
      <3> WITNESS stale, AnyPrefix, "archive", "archive_send"
      <3> QED
        BY <3>1 DEF ListingSteps
    <2>2. CASE QueryYears(w)
      <3>1. PICK stale \in SUBSET MayBeStale :
                Find(w, "archorg", "archorg_send",
                     queryOrgYear(Seen(stale), job[w].chat,
                                  OrgPrefix(job[w].ask.slug)))
        BY <2>2 DEF QueryYears
      <3> WITNESS stale, OrgPrefix(job[w].ask.slug), "archorg", "archorg_send"
      <3> QED
        BY <3>1 DEF ListingSteps
    <2>3. CASE QueryByOrgYear(w)
      <3>1. PICK stale \in SUBSET MayBeStale :
                Find(w, "archyr", "archyr_send",
                     queryOrgYear(Seen(stale), job[w].chat,
                                  OrgYearPrefix(job[w].ask.slug, job[w].ask.year)))
        BY <2>3 DEF QueryByOrgYear
      <3> WITNESS stale, OrgYearPrefix(job[w].ask.slug, job[w].ask.year),
                  "archyr", "archyr_send"
      <3> QED
        BY <3>1 DEF ListingSteps
    <2> QED
      BY <2>1, <2>2, <2>3
  <1> PICK found, c : /\ found = queryOrgYear(Seen(stale), job[w].chat, prefix)
                      /\ c = job[w].chat
    OBVIOUS
  <1>2. /\ pc[w] = from /\ pc' = [pc EXCEPT ![w] = to] /\ job' = job
        /\ local' = [local EXCEPT ![w].found = found] /\ buttons' = buttons
    BY <1>1 DEF Find, Goto, Advance
  <1>3. /\ local'[w].found = found
        /\ \A v \in Workers \ {w} : local'[v] = local[v]
        /\ to \in Steps /\ pc'[w] = to
    BY <1>1, <1>2 DEF TypeInv, TypeOK, WorkersOK, Local, ListingSteps, Steps
  <1>4. \A l \in found : Owner[l] = c
    <2> SUFFICES ASSUME NEW l \in found
                 PROVE  Owner[l] = c
      OBVIOUS
    <2>1. l \in Items(Seen(stale), c)
      BY QueriesFindLetters
    <2>2. stale \in SUBSET Letters
      BY <1>1 DEF MayBeStale
    <2> QED
      BY <2>1, <2>2, SeenOwner DEF Items
  <1>5. ASSUME to = "archorg_send", NEW l \in found
        PROVE  Slug[l] = job[w].ask.slug
    <2>1. pc[w] = "archorg"
      BY <1>1, <1>2, <1>5
    <2>2. job[w].ask \in Asks /\ job[w].ask.kind = "archorg"
      BY <2>1, JobTyped DEF Fit
    <2>3. PICK k \in Letters : Slug[k] = job[w].ask.slug
      BY <2>2, AskTyped DEF Slugs
    <2>4. l \in Letters /\ IsPrefix(OrgPrefix(Slug[k]), OrgYear(l))
      BY <1>1, <1>5, <2>3 DEF queryOrgYear, NotDeleted, FirstOf, Items
    <2> QED
      BY <2>3, <2>4, SlugsApart
  <1>6. ListKnows(w)'
    BY <1>1, <1>2, <1>3, <1>4, <1>5 DEF ListKnows, ListingSteps
  <1>7. \A v \in Workers : ListKnows(v)'
    BY <1>2, <1>3, <1>6, ListMoves
  <1> QED
    BY <1>2, <1>7 DEF ListInv, NoDeadEnds

\* The rows of a listing lead to letters of the chat.
LEMMA RowsLead ==
    ASSUME TypeInv, ListInv, NEW w \in Workers, pc[w] \in ListingSteps,
           NEW ask \in Rows(w)
    PROVE  Below(job[w].chat, ask) # {}
  <1> PICK c, found, slug : /\ c = job[w].chat /\ found = local[w].found
                            /\ slug = job[w].ask.slug
    OBVIOUS
  <1>1. found \in SUBSET Letters
    BY JobTyped DEF ListingSteps
  <1>2. \A l \in found : Owner[l] = c
    BY DEF ListInv, ListKnows
  <1>3. CASE pc[w] = "archive_send"
    <2>1. PICK l \in found : ask = [kind |-> "archorg", slug |-> Slug[l]]
      BY <1>3 DEF Rows, OrganizationRows, Organizations
    <2>2. l \in Below(c, ask)
      BY <1>1, <1>2, <2>1 DEF Below
    <2> QED
      BY <2>2
  <1>4. CASE pc[w] = "archorg_send"
    <2>1. PICK l \in found :
              ask = [kind |-> "archyr", slug |-> slug, year |-> YearOf(l)]
      BY <1>4 DEF Rows, YearRows, YearsOf
    <2>2. YearOf(l) = Year[l] /\ Slug[l] = slug
      BY <1>1, <1>4, <2>1, YearInKey DEF ListInv, ListKnows
    <2>3. l \in Below(c, ask)
      BY <1>1, <1>2, <2>1, <2>2 DEF Below
    <2> QED
      BY <2>3
  <1>5. CASE pc[w] = "archyr_send"
    <2>1. PICK l \in found : ask = [kind |-> "view", letter |-> l]
      BY <1>5 DEF Rows, LetterRows
    <2>2. l \in Below(c, ask)
      BY <1>1, <1>2, <2>1 DEF Below, LetterButtons
    <2> QED
      BY <2>2
  <1> QED
    BY <1>3, <1>4, <1>5 DEF ListingSteps

\* What is offered beyond this leads to letters, too.
LEMMA OffersLead ==
    ASSUME TypeInv, ListInv, NEW c \in Chats, NEW asks,
           buttons' = [buttons EXCEPT ![c] = @ \cup asks],
           \A ask \in asks : ask.kind \in DrillButtons \cup LetterButtons =>
               Below(c, ask) # {}
    PROVE  NoDeadEnds'
  <1>1. \A d \in Chats :
            buttons'[d] = IF d = c THEN buttons[d] \cup asks ELSE buttons[d]
    BY DEF TypeInv, TypeOK, UsersOK
  <1>2. \A d \in Chats : \A ask \in buttons[d] :
            ask.kind \in DrillButtons \cup LetterButtons => Below(d, ask) # {}
    BY DEF ListInv, NoDeadEnds
  <1>3. \A d \in Chats : \A ask \in buttons'[d] :
            ask.kind \in DrillButtons \cup LetterButtons => Below(d, ask) # {}
    BY <1>1, <1>2
  <1> QED
    BY <1>3 DEF NoDeadEnds, Below

\* The steps that offer buttons.
LEMMA OfferKeeps ==
    ASSUME TypeInv, DeletionInv, ListInv, NEW w \in Workers,
           \/ SendListing(w) \/ ListReminders(w) \/ ViewLetter(w)
           \/ ViewReminder(w)
    PROVE  ListInv'
  <1>1. PICK asks : buttons' = [buttons EXCEPT ![job[w].chat] = @ \cup asks]
                    /\ \/ SendListing(w) /\ asks = Rows(w)
                       \/ ViewLetter(w)
                          /\ asks = [kind : {"pdf", "delete"},
                                     letter : {job[w].ask.letter}]
                       \/ (ListReminders(w) \/ ViewReminder(w))
                          /\ \A ask \in asks : ask.kind \in ReminderButtons
    <2>1. CASE SendListing(w)
      BY <2>1 DEF SendListing, Offer
    <2>2. CASE ViewLetter(w)
      BY <2>2 DEF ViewLetter, Offer
    <2>3. CASE ListReminders(w)
      <3> DEFINE new == {[kind |-> "remview", letter |-> r.letter, rem |-> r.rem] :
                             r \in Pending(local[w].found)}
      <3>1. buttons' = [buttons EXCEPT ![job[w].chat] = @ \cup new]
        BY <2>3 DEF ListReminders, Offer
      <3>2. \A ask \in new : ask.kind \in ReminderButtons
        BY DEF ReminderButtons
      <3> HIDE DEF new
      <3> QED
        BY <2>3, <3>1, <3>2
    <2>4. CASE ViewReminder(w)
      <3> DEFINE new == {[job[w].ask EXCEPT !.kind = "cancelrem"]}
      <3>1. /\ buttons' = [buttons EXCEPT ![job[w].chat] = @ \cup new]
            /\ pc[w] = "remview_send"
        BY <2>4 DEF ViewReminder, Offer, Goto, Advance
      <3>2. job[w].ask \in Asks /\ job[w].ask.kind \in ReminderButtons
        BY <3>1, JobTyped DEF Fit, ReminderSteps
      <3>3. [job[w].ask EXCEPT !.kind = "cancelrem"] \in Asks
        BY <3>2, AskTyped
      <3>4. \A ask \in new : ask.kind \in ReminderButtons
        BY <3>2 DEF Asks, ReminderButtons, Commands, LetterButtons
      <3> HIDE DEF new
      <3> QED
        BY <2>4, <3>1, <3>4
    <2> QED
      BY <2>1, <2>2, <2>3, <2>4
  <1>2. /\ pc[w] \in ShowSteps \cup {"reminders_send", "remview_send"}
        /\ pc' = [pc EXCEPT ![w] = "finish"] /\ job' = job /\ local' = local
    BY DEF SendListing, ListReminders, ViewLetter, ViewReminder, Goto, Advance,
           ShowSteps
  <1>3. job[w].chat \in Chats
    <2>1. pc[w] # "idle"
      BY <1>2 DEF ShowSteps, ListingSteps
    <2> QED
      BY <2>1, JobTyped
  <1>4. ASSUME NEW ask \in asks, ask.kind \in DrillButtons \cup LetterButtons
        PROVE  Below(job[w].chat, ask) # {}
    <2>1. CASE SendListing(w) /\ asks = Rows(w)
      BY <2>1, RowsLead DEF SendListing
    <2>2. CASE ViewLetter(w) /\ asks = [kind : {"pdf", "delete"},
                                        letter : {job[w].ask.letter}]
      <3>1. pc[w] = "view_send"
        BY <2>2 DEF ViewLetter, Goto, Advance
      <3>2. /\ job[w].ask.letter \in Letters
            /\ Owner[job[w].ask.letter] = job[w].chat
        BY <3>1, JobTyped DEF HeldSteps, LetterSteps, ListInv, ListKnows
      <3>3. job[w].ask.letter \in Below(job[w].chat, ask)
        BY <2>2, <3>2 DEF Below, LetterButtons
      <3> QED
        BY <3>3
    <2>3. CASE \A a \in asks : a.kind \in ReminderButtons
      BY <1>4, <2>3 DEF ReminderButtons, DrillButtons, LetterButtons
    <2> QED
      BY <1>1, <2>1, <2>2, <2>3
  <1>5. NoDeadEnds'
    BY <1>1, <1>3, <1>4, OffersLead
  <1>6. \A v \in Workers : ListKnows(v)'
    <2>1. "finish" \in Steps \ ShowSteps
      BY DEF Steps, ShowSteps, ListingSteps
    <2> QED
      BY <1>2, <2>1, ListMoves
  <1> QED
    BY <1>5, <1>6 DEF ListInv

\* The letter that is shown belongs to the chat.
LEMMA GetKnows ==
    ASSUME TypeInv, DeletionInv, ListInv, NEW w \in Workers, GetLetter(w)
    PROVE  ListInv'
  <1> PICK k, to : k = job[w].ask.letter /\ to = AfterGet[job[w].ask.kind]
    OBVIOUS
  <1>1. /\ pc[w] = "get" /\ pc' = [pc EXCEPT ![w] = to] /\ job' = job
        /\ buttons' = buttons
    BY DEF GetLetter, Goto, Advance
  <1>2. PICK stale \in SUBSET (MayBeStale \cap {k}) :
            /\ Owned(Seen(stale), job[w].chat, k)
            /\ local' = [local EXCEPT ![w].key = Seen(stale)[k].key]
    BY DEF GetLetter
  <1>3. k \in Letters /\ job[w].ask.kind \in LetterButtons \cup ReminderButtons
    BY <1>1, JobTyped DEF Fit
  <1>4. Owner[k] = job[w].chat
    <2>1. stale \in SUBSET Letters
      BY <1>2 DEF MayBeStale
    <2> QED
      BY <1>2, <1>3, <2>1, SeenOwner DEF Owned
  <1>5. to \in Steps \ ListingSteps
    BY <1>3 DEF AfterGet, Steps, ListingSteps, LetterButtons, ReminderButtons
  <1>6. /\ \A v \in Workers \ {w} : local'[v] = local[v]
        /\ pc'[w] = to
    BY <1>1, <1>2, <1>5 DEF TypeInv, TypeOK, WorkersOK
  <1>7. ListKnows(w)'
    BY <1>1, <1>4, <1>5, <1>6 DEF ListKnows, ListingSteps
  <1>8. \A v \in Workers : ListKnows(v)'
    BY <1>1, <1>5, <1>6, <1>7, ListMoves
  <1> QED
    BY <1>1, <1>8 DEF ListInv, NoDeadEnds

(***************************************************************************)
(* Every step keeps what is known of listings: what a query has found is   *)
(* the chat's, now or before it was deleted, and so is what is offered.    *)
(***************************************************************************)
LEMMA ListStep == TypeInv /\ DeletionInv /\ ListInv /\ [Next]_vars => ListInv'
  <1> SUFFICES ASSUME TypeInv, DeletionInv, ListInv, [Next]_vars
               PROVE  ListInv'
    OBVIOUS
  <1>1. /\ pc \in [Workers -> Steps]
        /\ job \in [Workers -> Message \cup {NoMessage}]
        /\ local \in [Workers -> Local]
        /\ queue \subseteq Message
    BY DEF TypeInv, TypeOK, WorkersOK, MessagesOK
  <1>2. ASSUME NEW w \in Workers, NEW to \in Steps \ ShowSteps,
               pc' = [pc EXCEPT ![w] = to], buttons' = buttons,
               \A v \in Workers \ {w} : job'[v] = job[v] /\ local'[v] = local[v]
        PROVE  ListInv'
    <2>1. \A v \in Workers : ListKnows(v)'
      BY <1>2, ListMoves
    <2> QED
      BY <1>2, <2>1 DEF ListInv, NoDeadEnds
  <1>3. ASSUME UNCHANGED <<pc, job, local, buttons>>
        PROVE  ListInv'
    BY <1>3 DEF ListInv, NoDeadEnds, ListKnows
  <1>4. ASSUME NEW w \in Workers,
               \/ Finish(w) \/ Fail(w) \/ ListingRefused(w) \/ PdfMissing(w)
               \/ DeleteMissing(w)
        PROVE  ListInv'
    <2>1. /\ pc' = [pc EXCEPT ![w] = "idle"] /\ buttons' = buttons
          /\ \A v \in Workers \ {w} : job'[v] = job[v] /\ local'[v] = local[v]
      BY <1>1, <1>4 DEF Finish, Fail, ListingRefused, PdfMissing,
                        DeleteMissing, GiveBack, Return, Rest, userVars
    <2>2. "idle" \in Steps \ ShowSteps
      BY DEF Steps, ShowSteps, ListingSteps
    <2> QED
      BY <1>2, <2>1, <2>2
  <1>5. ASSUME NEW w \in Workers, QueryReminders(w)
        PROVE  ListInv'
    <2>1. PICK found : Find(w, "reminders", "reminders_send", found)
      BY <1>5 DEF QueryReminders
    <2>2. /\ pc' = [pc EXCEPT ![w] = "reminders_send"] /\ buttons' = buttons
          /\ \A v \in Workers \ {w} : job'[v] = job[v] /\ local'[v] = local[v]
      BY <1>1, <2>1 DEF Find, Goto, Advance
    <2>3. "reminders_send" \in Steps \ ShowSteps
      BY DEF Steps, ShowSteps, ListingSteps
    <2> QED
      BY <1>2, <2>2, <2>3
  <1>6. ASSUME NEW w \in Workers,
               \/ LetterNotFound(w) \/ RequestPdf(w) \/ DeleteCopy(w)
               \/ DeleteRemove(w) \/ DeleteMark(w) \/ DeleteAck(w)
               \/ CancelReminder(w) \/ CancelAck(w)
        PROVE  ListInv'
    <2>1. \E to \in Steps \ ShowSteps : pc' = [pc EXCEPT ![w] = to]
      BY <1>6 DEF LetterNotFound, RequestPdf, DeleteCopy, DeleteRemove,
                  DeleteMark, DeleteAck, CancelReminder, CancelAck, Goto,
                  Advance, Steps, ShowSteps, ListingSteps
    <2>2. job' = job /\ local' = local /\ buttons' = buttons
      BY <1>6 DEF LetterNotFound, RequestPdf, DeleteCopy, DeleteRemove,
                  DeleteMark, DeleteAck, CancelReminder, CancelAck, Goto,
                  Advance, reminderVars
    <2> QED
      BY <1>2, <2>1, <2>2
  <1>7. ASSUME NEW w \in Workers, NEW m \in queue, Receive(w, m)
        PROVE  ListInv'
    <2>1. m.ask.kind \in Requests
      BY <1>1, AskTyped DEF Message
    <2>2. Entry(m.ask.kind) \in Steps \ ShowSteps
      BY <2>1 DEF Entry, Requests, Commands, DrillButtons, Steps, ShowSteps,
                  ListingSteps
    <2>3. /\ pc' = [pc EXCEPT ![w] = Entry(m.ask.kind)] /\ buttons' = buttons
          /\ \A v \in Workers \ {w} : job'[v] = job[v] /\ local'[v] = local[v]
      BY <1>1, <1>7 DEF Receive, Deliver, userVars
    <2> QED
      BY <1>2, <2>2, <2>3
  <1>8. ASSUME \/ \E c \in Chats : \E ask \in buttons[c] : Ask(c, ask)
               \/ \E r \in Reminder : Fire(r) \/ SendReminder(r) \/ SendFails(r)
               \/ \E l \in Letters : Purge(l) \/ Reap(l)
               \/ UNCHANGED vars
        PROVE  ListInv'
    BY <1>3, <1>8 DEF Ask, Fire, SendReminder, SendFails, Purge, Reap, vars,
                      workerVars, userVars
  <1> QED
    BY <1>4, <1>5, <1>6, <1>7, <1>8, QueriesKnow, OfferKeeps, GetKnows
    DEF Next, WorkerStep

(***************************************************************************)
(* No button of the drill-down is a dead end, whatever organizations the   *)
(* letters come from and whatever reads are stale: below it there is a     *)
(* letter of that chat, deleted since or not.                              *)
(***************************************************************************)
THEOREM ButtonsLeadToLetters == Spec => []NoDeadEnds
  <1>1. Init => ListInv
    <2> SUFFICES ASSUME Init
                 PROVE  ListInv
      OBVIOUS
    <2>1. \A w \in Workers : ListKnows(w)
      BY DEF Init, InvocationsInit, ListKnows, ListingSteps
    <2>2. \A c \in Chats : \A ask \in buttons[c] :
              ask.kind \notin DrillButtons \cup LetterButtons
      BY DEF Init, Commands, DrillButtons, LetterButtons
    <2> QED
      BY <2>1, <2>2 DEF ListInv, NoDeadEnds
  <1>2. ListInv => NoDeadEnds
    BY DEF ListInv
  <1> QED
    BY <1>1, <1>2, TypeInit, TypeStep, DeletionInit, DeletionStep, ListStep,
       PTL DEF Spec

-----------------------------------------------------------------------------
(* Letters with their PDF.                                                 *)

\* Without a failure, a worker that has moved a PDF goes on to mark the item.
LEMMA MarkersStay ==
    ASSUME TypeInv, [Next]_vars, failures' = 0,
           NEW v \in Workers, pc[v] = "delete_mark", ~DeleteMark(v)
    PROVE  pc'[v] = "delete_mark" /\ job'[v] = job[v] /\ failures = 0
  <1> DEFINE Goal == pc'[v] = pc[v] /\ job'[v] = job[v] /\ failures = 0
  <1>1. /\ pc \in [Workers -> Steps]
        /\ job \in [Workers -> Message \cup {NoMessage}]
        /\ failures \in 0..MaxFailures /\ MaxFailures \in Nat
    BY InvocationsAssumption DEF TypeInv, TypeOK, WorkersOK, MessagesOK
  <1>2. ASSUME NEW w \in Workers \ {v}, NEW to, NEW held,
               pc' = [pc EXCEPT ![w] = to], job' = [job EXCEPT ![w] = held],
               failures' = failures
        PROVE  Goal
    BY <1>1, <1>2
  <1>3. ASSUME UNCHANGED <<pc, job, failures>>
        PROVE  Goal
    BY <1>3
  <1>4. ASSUME \/ \E w \in Workers : Fail(w)
               \/ \E r \in Reminder : SendFails(r)
        PROVE  FALSE
    BY <1>1, <1>4 DEF Fail, SendFails
  <1> HIDE DEF Goal
  <1>5. ASSUME NEW w \in Workers,
               \/ Finish(w) \/ ListingRefused(w) \/ PdfMissing(w)
               \/ DeleteMissing(w)
        PROVE  Goal
    <2>1. /\ pc' = [pc EXCEPT ![w] = "idle"] /\ failures' = failures
          /\ job' = [job EXCEPT ![w] = NoMessage]
      BY <1>5 DEF Finish, ListingRefused, PdfMissing, DeleteMissing, GiveBack,
                  Return, Rest
    <2>2. w # v
      BY <1>5 DEF Finish, ListingRefused, ListingSteps, PdfMissing, DeleteMissing
    <2> QED
      BY <1>2, <2>1, <2>2
  <1>6. ASSUME NEW w \in Workers, NEW from, NEW to, Goto(w, from, to),
               from # "delete_mark"
        PROVE  Goal
    <2>1. /\ pc[w] = from /\ pc' = [pc EXCEPT ![w] = to] /\ failures' = failures
          /\ job' = [job EXCEPT ![w] = job[w]]
      BY <1>1, <1>6 DEF Goto, Advance
    <2> QED
      BY <1>2, <1>6, <2>1
  <1>7. ASSUME NEW w \in Workers,
               \/ QueryOrganizations(w) \/ QueryYears(w) \/ QueryByOrgYear(w)
               \/ QueryReminders(w)
        PROVE  Goal
    BY <1>6, <1>7 DEF QueryOrganizations, QueryYears, QueryByOrgYear,
                      QueryReminders, Find
  <1>8. ASSUME NEW w \in Workers,
               \/ SendListing(w) \/ ListReminders(w) \/ GetLetter(w)
               \/ LetterNotFound(w) \/ ViewLetter(w) \/ RequestPdf(w)
               \/ ViewReminder(w) \/ CancelReminder(w) \/ CancelAck(w)
               \/ DeleteCopy(w) \/ DeleteRemove(w) \/ DeleteAck(w)
        PROVE  Goal
    <2>1. CASE SendListing(w)
      BY <1>6, <2>1 DEF SendListing, ListingSteps
    <2>2. CASE ~SendListing(w)
      BY <1>6, <1>8, <2>2
      DEF ListReminders, GetLetter, LetterNotFound, ViewLetter, RequestPdf,
          ViewReminder, CancelReminder, CancelAck, DeleteCopy, DeleteRemove,
          DeleteAck
    <2> QED
      BY <2>1, <2>2
  <1>9. ASSUME NEW w \in Workers, DeleteMark(w)
        PROVE  Goal
    <2>1. /\ pc' = [pc EXCEPT ![w] = "delete_ack"] /\ failures' = failures
          /\ job' = [job EXCEPT ![w] = job[w]]
      BY <1>1, <1>9 DEF DeleteMark, Goto, Advance
    <2>2. w # v
      BY <1>9
    <2> QED
      BY <1>2, <2>1, <2>2
  <1>10. ASSUME NEW w \in Workers, NEW m \in queue, Receive(w, m)
         PROVE  Goal
    <2>1. /\ pc[w] = "idle" /\ failures' = failures
          /\ pc' = [pc EXCEPT ![w] = Entry(m.ask.kind)]
          /\ job' = [job EXCEPT ![w] = [m EXCEPT !.receives = @ + 1]]
      BY <1>10 DEF Receive, Deliver
    <2>2. w # v
      BY <2>1
    <2> QED
      BY <1>2, <2>1, <2>2
  <1>11. ASSUME \/ \E c \in Chats : \E ask \in buttons[c] : Ask(c, ask)
                \/ \E r \in Reminder : Fire(r) \/ SendReminder(r)
                \/ \E l \in Letters : Purge(l) \/ Reap(l)
                \/ UNCHANGED vars
         PROVE  Goal
    BY <1>3, <1>11 DEF Ask, Fire, SendReminder, Purge, Reap, vars, workerVars
  <1>12. Goal
    BY <1>4, <1>5, <1>7, <1>8, <1>9, <1>10, <1>11 DEF Next, WorkerStep
  <1> QED
    BY <1>12 DEF Goal

\* A failure is counted, and nothing else is.
LEMMA FailuresCount ==
    ASSUME [Next]_vars
    PROVE  failures' = failures \/ failures' = failures + 1
  <1>1. ASSUME \/ \E w \in Workers : Fail(w)
               \/ \E r \in Reminder : SendFails(r)
        PROVE  failures' = failures + 1
    BY <1>1 DEF Fail, SendFails
  <1>2. ASSUME NEW w \in Workers,
               \/ Finish(w) \/ ListingRefused(w) \/ PdfMissing(w)
               \/ DeleteMissing(w)
        PROVE  failures' = failures
    BY <1>2 DEF Finish, ListingRefused, PdfMissing, DeleteMissing
  <1>3. ASSUME NEW w \in Workers, NEW from, NEW to, Goto(w, from, to)
        PROVE  failures' = failures
    BY <1>3 DEF Goto, Advance
  <1>4. ASSUME NEW w \in Workers,
               \/ QueryOrganizations(w) \/ QueryYears(w) \/ QueryByOrgYear(w)
               \/ QueryReminders(w)
        PROVE  failures' = failures
    BY <1>3, <1>4 DEF QueryOrganizations, QueryYears, QueryByOrgYear,
                      QueryReminders, Find
  <1>5. ASSUME NEW w \in Workers,
               \/ SendListing(w) \/ ListReminders(w) \/ GetLetter(w)
               \/ LetterNotFound(w) \/ ViewLetter(w) \/ RequestPdf(w)
               \/ ViewReminder(w) \/ CancelReminder(w) \/ CancelAck(w)
               \/ DeleteCopy(w) \/ DeleteRemove(w) \/ DeleteMark(w)
               \/ DeleteAck(w)
        PROVE  failures' = failures
    BY <1>3, <1>5 DEF SendListing, ListReminders, GetLetter, LetterNotFound,
                      ViewLetter, RequestPdf, ViewReminder, CancelReminder,
                      CancelAck, DeleteCopy, DeleteRemove, DeleteMark, DeleteAck
  <1>6. ASSUME \/ \E c \in Chats : \E ask \in buttons[c] : Ask(c, ask)
               \/ \E w \in Workers, m \in queue : Receive(w, m)
               \/ \E r \in Reminder : Fire(r) \/ SendReminder(r)
               \/ \E l \in Letters : Purge(l) \/ Reap(l)
               \/ UNCHANGED vars
        PROVE  failures' = failures
    BY <1>6 DEF Ask, Receive, Fire, SendReminder, Purge, Reap, vars, workerVars
  <1> QED
    BY <1>1, <1>2, <1>4, <1>5, <1>6 DEF Next, WorkerStep

\* An archived PDF is taken away by Move only, and no letter becomes active.
LEMMA ArchivedStay ==
    ASSUME TypeInv, DeletionInv, [Next]_vars, NEW l \in Letters
    PROVE  /\ Active(l)' => Active(l)
           /\ ArchiveKey(l) \in DOMAIN bucket =>
                  \/ ArchiveKey(l) \in DOMAIN bucket'
                  \/ \E w \in Workers : DeleteRemove(w) /\ job[w].ask.letter = l
  <1>1. CASE \E k \in Letters : Purge(k) \/ Reap(k)
    <2>1. PICK k \in Letters : Purge(k) \/ Reap(k)
      BY <1>1
    <2>2. CASE Purge(k)
      BY <2>2, KeysDiffer DEF Purge, DeleteObject, Active
    <2>3. CASE Reap(k)
      BY <2>3 DEF Reap, Active, NoItem, TypeInv, TypeOK, StoresOK
    <2> QED
      BY <2>1, <2>2, <2>3
  <1>2. ASSUME NEW w \in Workers, DeleteCopy(w)
        PROVE  /\ Active(l)' => Active(l)
               /\ ArchiveKey(l) \in DOMAIN bucket => ArchiveKey(l) \in DOMAIN bucket'
    BY <1>2 DEF DeleteCopy, CopyObject, PutObject, Active
  <1>3. ASSUME NEW w \in Workers, DeleteRemove(w),
               ArchiveKey(l) \in DOMAIN bucket, ArchiveKey(l) \notin DOMAIN bucket'
        PROVE  job[w].ask.letter = l
    <2> PICK k : k = job[w].ask.letter
      OBVIOUS
    <2>1. /\ Goto(w, "delete_remove", "delete_mark") /\ local' = local
          /\ bucket' = DeleteObject(bucket, local[w].key)
      BY <1>3 DEF DeleteRemove
    <2>2. "delete_remove" \in LetterSteps /\ "delete_mark" \in Steps
      BY DEF LetterSteps, Steps
    <2>3. k \in Letters /\ Knows(w, k)
      BY <2>1, <2>2, DeletionMoves
    <2>4. ArchiveKey(l) = ArchiveKey(k)
      BY <1>3, <2>1, <2>3 DEF DeleteObject, Knows
    <2> QED
      BY <2>3, <2>4, KeysDiffer
  <1>4. ASSUME NEW w \in Workers, DeleteMark(w)
        PROVE  (Active(l)' => Active(l)) /\ bucket' = bucket
    <2> PICK k : k = job[w].ask.letter
      OBVIOUS
    <2>1. /\ bucket' = bucket
          /\ letters' = [letters EXCEPT ![k].status = "pending_deletion",
                                        ![k].key = PendingKey(k)]
      BY <1>4 DEF DeleteMark
    <2>2. CASE k = l
      <3>1. letters[l] \in Item
        BY <1>4, <2>2, JobTyped DEF DeleteMark, Goto, Advance, HeldSteps, LetterSteps
      <3>2. letters'[l].status = "pending_deletion"
        BY <2>1, <2>2, <3>1 DEF TypeInv, TypeOK, StoresOK, Item
      <3> QED
        BY <2>1, <3>2 DEF Active
    <2>3. CASE k # l
      BY <2>1, <2>3 DEF Active, TypeInv, TypeOK, StoresOK
    <2> QED
      BY <2>2, <2>3, <2>1
  <1>5. ASSUME \E w \in Workers : DeleteAck(w) \/ DeleteRemove(w)
        PROVE  letters' = letters /\ (bucket' = bucket \/ \E w \in Workers : DeleteRemove(w))
    BY <1>5 DEF DeleteAck, DeleteRemove
  <1>6. ASSUME ~ \E w \in Workers : \/ DeleteCopy(w) \/ DeleteRemove(w)
                                    \/ DeleteMark(w) \/ DeleteAck(w),
               ~ \E k \in Letters : Purge(k) \/ Reap(k)
        PROVE  bucket' = bucket /\ letters' = letters
    BY <1>6, ArchiveStays
  <1> QED
    BY <1>1, <1>2, <1>3, <1>4, <1>5, <1>6 DEF Active

\* Without failures, a PDF that has been moved has a worker that will mark it.
LEMMA PdfStep ==
    TypeInv /\ DeletionInv /\ DeletionInv' /\ ActiveHasPdf /\ [Next]_vars
        => ActiveHasPdf'
  <1> SUFFICES ASSUME TypeInv, DeletionInv, DeletionInv', ActiveHasPdf,
                      [Next]_vars, failures' = 0, NEW l \in Letters, Active(l)'
               PROVE  \/ letters'[l].key \in DOMAIN bucket'
                      \/ \E w \in Workers : Deleting(w, l)'
    BY DEF ActiveHasPdf
  <1>1. failures = 0
    BY FailuresCount DEF TypeInv, TypeOK, MessagesOK
  <1>2. Active(l) /\ letters[l].key = ArchiveKey(l) /\ letters'[l].key = ArchiveKey(l)
    <2>1. Active(l)
      BY ArchivedStay
    <2>2. letters[l] # NoItem /\ letters'[l] # NoItem
      BY <2>1 DEF Active, NoItem
    <2> QED
      BY <2>1, <2>2 DEF DeletionInv, ItemsAsWritten, Active
  <1>3. CASE ArchiveKey(l) \in DOMAIN bucket
    <2>1. CASE ArchiveKey(l) \in DOMAIN bucket'
      BY <1>2, <2>1
    <2>2. CASE \E w \in Workers : DeleteRemove(w) /\ job[w].ask.letter = l
      <3>1. PICK w \in Workers : DeleteRemove(w) /\ job[w].ask.letter = l
        BY <2>2
      <3>2. pc'[w] = "delete_mark" /\ job'[w].ask.letter = l
        BY <3>1 DEF DeleteRemove, Goto, Advance, TypeInv, TypeOK, WorkersOK
      <3> QED
        BY <3>2 DEF Deleting
    <2> QED
      BY <1>3, <2>1, <2>2, ArchivedStay
  <1>4. CASE \E w \in Workers : Deleting(w, l)
    <2>1. PICK w \in Workers : pc[w] = "delete_mark" /\ job[w].ask.letter = l
      BY <1>4 DEF Deleting
    <2>2. ~DeleteMark(w)
      <3>1. SUFFICES ASSUME DeleteMark(w)
                     PROVE  FALSE
        OBVIOUS
      <3>2. letters' = [letters EXCEPT ![l].status = "pending_deletion",
                                       ![l].key = PendingKey(l)]
        BY <2>1, <3>1 DEF DeleteMark
      <3>3. letters[l] \in Item
        BY <2>1, JobTyped DEF HeldSteps, LetterSteps
      <3>4. letters'[l].status = "pending_deletion"
        BY <3>2, <3>3 DEF TypeInv, TypeOK, StoresOK, Item
      <3> QED
        BY <3>4 DEF Active
    <2>3. pc'[w] = "delete_mark" /\ job'[w] = job[w]
      BY <2>1, <2>2, MarkersStay
    <2> QED
      BY <2>1, <2>3 DEF Deleting
  <1> QED
    BY <1>1, <1>2, <1>3, <1>4 DEF ActiveHasPdf

(***************************************************************************)
(* As long as nothing fails, every letter that is not deleted has its PDF, *)
(* except between the two halves of a deletion.                            *)
(***************************************************************************)
THEOREM ActiveLettersHavePdfs == Spec => []ActiveHasPdf
  <1>1. Init => ActiveHasPdf
    <2> SUFFICES ASSUME Init, NEW l \in Letters
                 PROVE  letters[l].key \in DOMAIN bucket
      BY DEF ActiveHasPdf
    <2>1. letters[l] = SavedItem(l) /\ ArchiveKey(l) \in DOMAIN bucket
      BY DEF Init
    <2> QED
      BY <2>1 DEF SavedItem
  <1> QED
    BY <1>1, PdfStep, TypeInit, TypeStep, DeletionInit, DeletionStep, PTL
    DEF Spec

-----------------------------------------------------------------------------
(* The way to each letter.                                                 *)

\* A page that is large enough holds all that there is.
LEMMA FullPage ==
    ASSUME NEW found \in SUBSET Letters, NEW position \in [Letters -> Int],
           NEW n \in Nat, Cardinality(found) <= n
    PROVE  FirstOf(found, position, n) = found
  <1>1. IsFiniteSet(found) /\ Cardinality(found) \in Nat
    BY LettersAssumption, FS_Subset, FS_CardinalityType
  <1>2. ASSUME NEW l \in found
        PROVE  Cardinality({k \in found : position[k] < position[l]}) < n
    <2> PICK before : before = {k \in found : position[k] < position[l]}
      OBVIOUS
    <2>1. before \in SUBSET (found \ {l})
      <3>1. position[l] \in Int
        OBVIOUS
      <3>2. ~ (position[l] < position[l])
        BY <3>1
      <3> QED
        BY <3>2
    <2>2. /\ IsFiniteSet(found \ {l})
          /\ Cardinality(found \ {l}) = Cardinality(found) - 1
      BY <1>1, FS_RemoveElement
    <2>3. IsFiniteSet(before) /\ Cardinality(before) <= Cardinality(found \ {l})
      BY <2>1, <2>2, FS_Subset
    <2>4. Cardinality(before) \in Nat
      BY <2>3, FS_CardinalityType
    <2> QED
      BY <1>1, <2>2, <2>3, <2>4
  <1> QED
    BY <1>2 DEF FirstOf

\* What agrees with the beginning of a sequence is a prefix of it.
LEMMA AgreeingIsPrefix ==
    ASSUME NEW s, NEW t, Len(s) \in Nat, Len(s) <= Len(t),
           \A i \in 1..Len(s) : s[i] = t[i]
    PROVE  IsPrefix(s, t)
  <1> DEFINE n == Len(s)
             S == {s[i] : i \in 1..n}
  <1>1. /\ \A i \in 1..n : s[i] \in S /\ s[i] = t[i]
        /\ n \in Int /\ 1 \in Int /\ n = Len(s) /\ n \in Nat
    OBVIOUS
  <1> HIDE DEF n, S
  <1>2. /\ (IF 1 <= n THEN n - 1 + 1 ELSE 0) = n /\ n - 1 + 1 = n
        /\ \A i \in 1..n : 1 + i - 1 = i
    BY <1>1
  <1>3. /\ SubSeq(s, 1, n) \in Seq(S) /\ Len(SubSeq(s, 1, n)) = n
        /\ \A i \in 1..n : SubSeq(s, 1, n)[i] = s[i]
    BY <1>1, <1>2, SubSeqProperties
  <1>4. /\ SubSeq(t, 1, n) \in Seq(S) /\ Len(SubSeq(t, 1, n)) = n
        /\ \A i \in 1..n : SubSeq(t, 1, n)[i] = t[i]
    <2>1. \A i \in 1..n : t[i] \in S
      BY <1>1
    <2> QED
      BY <1>1, <1>2, <2>1, SubSeqProperties
  <1>5. SubSeq(s, 1, n) = SubSeq(t, 1, n)
    BY <1>1, <1>3, <1>4, SeqEqual
  <1> QED
    BY <1>1, <1>5 DEF IsPrefix

(***************************************************************************)
(* What the prefixes of the three levels are prefixes of: all sort keys,   *)
(* those of the organization, and those of the organization and year.      *)
(***************************************************************************)
LEMMA PrefixesSelect ==
    ASSUME NEW k \in Letters, NEW j \in Letters, NEW l \in Letters
    PROVE  /\ IsPrefix(AnyPrefix, OrgYear(l))
           /\ IsPrefix(OrgPrefix(Slug[k]), OrgYear(l)) <=> Slug[l] = Slug[k]
           /\ IsPrefix(OrgYearPrefix(Slug[k], Year[j]), OrgYear(l)) <=>
                  Slug[l] = Slug[k] /\ Year[l] = Year[j]
  <1> PICK s, p, q, o, n : /\ s = Slug[k] /\ p = OrgPrefix(Slug[k])
                           /\ q = OrgYearPrefix(Slug[k], Year[j])
                           /\ o = OrgYear(l) /\ n = Len(Slug[k])
    OBVIOUS
  <1>1. /\ Len(p) = n + 1 /\ p[n + 1] = "#" /\ \A i \in 1..n : p[i] = s[i]
    BY OrgKey
  <1>2. /\ n \in Nat /\ Len(q) = n + 2 /\ q[n + 1] = "#" /\ q[n + 2] = Year[j]
        /\ \A i \in 1..n : q[i] = s[i]
    BY YearKey
  <1>3. ASSUME Slug[l] = Slug[k]
        PROVE  /\ Len(o) = n + 2 /\ o[n + 1] = "#" /\ o[n + 2] = Year[l]
               /\ \A i \in 1..n : o[i] = s[i]
    BY <1>3, SortKey
  <1>4. /\ \A i \in 1..n + 1 : i \in 1..n \/ i = n + 1
        /\ \A i \in 1..n + 2 : i \in 1..n \/ i = n + 1 \/ i = n + 2
        /\ n + 1 \in Nat /\ n + 2 \in Nat /\ n + 1 <= n + 2 /\ n + 2 <= n + 2
        /\ \A i \in 1..n + 1 : i \in 1..n + 2
    BY <1>2
  <1>5. IsPrefix(AnyPrefix, o)
    <2>1. AnyPrefix = <<>> /\ Len(AnyPrefix) = 0 /\ Len(o) \in Nat
      BY SortKey DEF AnyPrefix
    <2>2. Len(AnyPrefix) \in Nat /\ Len(AnyPrefix) <= Len(o)
          /\ \A i \in 1..Len(AnyPrefix) : AnyPrefix[i] = o[i]
      BY <2>1
    <2> QED
      BY <2>2, AgreeingIsPrefix
  <1>6. ASSUME Slug[l] = Slug[k]
        PROVE  IsPrefix(p, o)
    <2>1. Len(p) \in Nat /\ Len(p) <= Len(o)
      BY <1>1, <1>3, <1>4, <1>6
    <2>2. \A i \in 1..Len(p) : p[i] = o[i]
      BY <1>1, <1>3, <1>4, <1>6
    <2> QED
      BY <2>1, <2>2, AgreeingIsPrefix
  <1>7. ASSUME Slug[l] = Slug[k], Year[l] = Year[j]
        PROVE  IsPrefix(q, o)
    <2>1. Len(q) \in Nat /\ Len(q) <= Len(o)
      BY <1>2, <1>3, <1>4, <1>7
    <2>2. \A i \in 1..Len(q) : q[i] = o[i]
      BY <1>2, <1>3, <1>4, <1>7
    <2> QED
      BY <2>1, <2>2, AgreeingIsPrefix
  <1>8. ASSUME IsPrefix(q, o)
        PROVE  Slug[l] = Slug[k] /\ Year[l] = Year[j]
    <2>1. n + 2 <= Len(o) /\ \A i \in 1..n + 2 : q[i] = o[i]
      <3>1. Len(q) \in Nat
        BY <1>2, <1>4
      <3> QED
        BY <1>2, <1>8, <3>1, PrefixAgrees
    <2>2. Len(o) \in Nat
      BY SortKey
    <2>3. Len(p) \in Nat /\ Len(p) <= Len(o)
      BY <1>1, <1>2, <2>1, <2>2
    <2>4. \A i \in 1..n : i \in 1..n + 2
      BY <1>2
    <2>5. \A i \in 1..Len(p) : p[i] = o[i]
      BY <1>1, <1>2, <1>4, <2>1, <2>4
    <2>6. IsPrefix(p, o)
      BY <2>3, <2>5, AgreeingIsPrefix
    <2>7. Slug[l] = Slug[k]
      BY <2>6, SlugsApart
    <2>8. n + 2 \in 1..n + 2
      BY <1>2
    <2> QED
      BY <1>2, <1>3, <2>1, <2>7, <2>8
  <1>9. IsPrefix(p, o) => Slug[l] = Slug[k]
    BY SlugsApart
  <1> QED
    BY <1>5, <1>6, <1>7, <1>8, <1>9

\* What the queries of the drill-down return to a chat with few letters.
LEMMA FullListing ==
    ASSUME TypeOK, NEW c, NEW prefix, Cardinality(Items(letters, c)) <= PageLimit
    PROVE  queryOrgYear(letters, c, prefix) =
               {l \in Visible(c) : IsPrefix(prefix, OrgYear(l))}
  <1> PICK found : found = {l \in Items(letters, c) : IsPrefix(prefix, OrgYear(l))}
    OBVIOUS
  <1>1. found \in SUBSET Letters /\ found \in SUBSET Items(letters, c)
        /\ Items(letters, c) \in SUBSET Letters
    BY DEF Items
  <1>2. Cardinality(found) <= PageLimit
    <2>1. IsFiniteSet(Items(letters, c))
      BY <1>1, LettersAssumption, FS_Subset
    <2>2. Cardinality(found) <= Cardinality(Items(letters, c))
      BY <1>1, <2>1, FS_Subset
    <2>3. IsFiniteSet(found)
      BY <1>1, <2>1, FS_Subset
    <2>4. /\ Cardinality(found) \in Nat
          /\ Cardinality(Items(letters, c)) \in Nat /\ PageLimit \in Nat
      BY <2>1, <2>3, FS_CardinalityType, LettersAssumption
    <2> QED
      BY <2>2, <2>4
  <1>3. FirstOf(found, IndexOrder, PageLimit) = found
    <2>1. IndexOrder \in [Letters -> Int] /\ PageLimit \in Nat
      BY LettersAssumption
    <2> QED
      BY <1>1, <1>2, <2>1, FullPage
  <1>4. ASSUME NEW l \in Letters
        PROVE  l \in Visible(c) <=>
                   l \in Items(letters, c) /\ letters[l].status # "pending_deletion"
    <2>1. letters[l] \in Item \/ letters[l] = NoItem
      BY DEF TypeOK, StoresOK
    <2> QED
      BY <2>1 DEF Visible, Items, Item, NoItem
  <1>5. queryOrgYear(letters, c, prefix) =
            {l \in found : letters[l].status # "pending_deletion"}
    BY <1>3 DEF queryOrgYear, NotDeleted
  <1>6. Visible(c) \subseteq Letters
    BY DEF Visible
  <1> QED
    BY <1>1, <1>4, <1>5, <1>6

\* Whether a year button can be sent depends on its organization only.
LEMMA YearRowsFit ==
    ASSUME NEW l \in Letters, Fits(YearRows(Slug[l], {l})), NEW found
    PROVE  Fits(YearRows(Slug[l], found))
  <1>1. [kind |-> "archyr", slug |-> Slug[l], year |-> YearOf(l)]
            \in YearRows(Slug[l], {l})
    BY DEF YearRows, YearsOf
  <1>2. 12 + SlugBytes[Slug[l]] <= ButtonDataLimit
    BY <1>1 DEF Fits, DataBytes
  <1>3. \A ask \in YearRows(Slug[l], found) :
            ask.kind = "archyr" /\ ask.slug = Slug[l]
    BY DEF YearRows
  <1> QED
    BY <1>2, <1>3 DEF Fits, DataBytes

(***************************************************************************)
(* One year button and only one leads to a letter, because the sort key    *)
(* tells its organization and its year apart from all others.              *)
(***************************************************************************)
LEMMA OneWay ==
    ASSUME TypeOK, NEW c \in Chats,
           Cardinality(Items(letters, c)) <= PageLimit,
           Fits(OrganizationRows(Visible(c))),
           NEW l \in Visible(c), Fits(YearRows(Slug[l], {l}))
    PROVE  Cardinality({ask \in DOMAIN Ways(c) : l \in Ways(c)[ask]}) = 1
  <1> PICK seen, way : /\ seen = Visible(c)
                       /\ way = [kind |-> "archyr", slug |-> Slug[l],
                                 year |-> Year[l]]
    OBVIOUS
  <1>1. seen \subseteq Letters /\ l \in Letters /\ l \in seen
    BY DEF Visible
  <1>2. queryOrgYear(letters, c, AnyPrefix) = seen
    BY <1>1, FullListing, PrefixesSelect
  <1>3. ASSUME NEW k \in Letters
        PROVE  queryOrgYear(letters, c, OrgPrefix(Slug[k])) =
                   {i \in seen : Slug[i] = Slug[k]}
    BY <1>1, FullListing, PrefixesSelect
  <1>4. ASSUME NEW k \in Letters, NEW j \in Letters
        PROVE  queryOrgYear(letters, c, OrgYearPrefix(Slug[k], Year[j])) =
                   {i \in seen : Slug[i] = Slug[k] /\ Year[i] = Year[j]}
    BY <1>1, FullListing, PrefixesSelect
  <1>5. /\ \A k \in seen : [kind |-> "archorg", slug |-> Slug[k]]
                              \in Sendable(OrganizationRows(seen))
        /\ \A row \in Sendable(OrganizationRows(seen)) :
               \E k \in seen : row.slug = Slug[k]
    BY DEF Sendable, OrganizationRows, Organizations
  <1>6. YearButtons(c) =
            UNION {Sendable(YearRows(row.slug,
                                queryOrgYear(letters, c, OrgPrefix(row.slug)))) :
                       row \in Sendable(OrganizationRows(seen))}
    BY <1>2 DEF YearButtons
  <1>7. way \in YearButtons(c)
    <2> DEFINE row == [kind |-> "archorg", slug |-> Slug[l]]
               mine == queryOrgYear(letters, c, OrgPrefix(row.slug))
    <2>1. row \in Sendable(OrganizationRows(seen)) /\ row.slug = Slug[l]
      BY <1>1, <1>5
    <2>2. l \in mine
      BY <1>1, <1>3, <2>1
    <2>3. way \in YearRows(row.slug, mine)
      BY <1>1, <2>1, <2>2, YearInKey DEF YearRows, YearsOf
    <2>4. Sendable(YearRows(row.slug, mine)) = YearRows(row.slug, mine)
      BY <1>1, <2>1, YearRowsFit DEF Sendable
    <2> HIDE DEF row, mine
    <2>5. way \in Sendable(YearRows(row.slug, mine))
      BY <2>3, <2>4
    <2> QED
      BY <1>6, <2>1, <2>5 DEF mine
  <1>8. ASSUME NEW ask \in YearButtons(c)
        PROVE  \E k \in Letters, j \in Letters :
                   ask = [kind |-> "archyr", slug |-> Slug[k], year |-> Year[j]]
    <2>1. PICK row \in Sendable(OrganizationRows(seen)) :
              ask \in Sendable(YearRows(row.slug,
                          queryOrgYear(letters, c, OrgPrefix(row.slug))))
      BY <1>6, <1>8
    <2>2. PICK k \in seen : row.slug = Slug[k]
      BY <1>5, <2>1
    <2> PICK found : found = queryOrgYear(letters, c, OrgPrefix(row.slug))
      OBVIOUS
    <2>3. found \subseteq Letters
      BY QueriesFindLetters
    <2>4. ask \in YearRows(Slug[k], found)
      BY <2>1, <2>2 DEF Sendable
    <2>5. PICK j \in found : ask = [kind |-> "archyr", slug |-> Slug[k],
                                    year |-> YearOf(j)]
      BY <2>4 DEF YearRows, YearsOf
    <2>6. YearOf(j) = Year[j]
      BY <2>3, YearInKey
    <2> QED
      BY <1>1, <2>3, <2>5, <2>6
  <1>9. DOMAIN Ways(c) = YearButtons(c)
        /\ \A ask \in YearButtons(c) : Ways(c)[ask] =
               queryOrgYear(letters, c, OrgYearPrefix(ask.slug, ask.year))
    BY DEF Ways
  <1>10. l \in Ways(c)[way]
    BY <1>1, <1>4, <1>7, <1>9
  <1>11. ASSUME NEW ask \in YearButtons(c), l \in Ways(c)[ask]
         PROVE  ask = way
    <2>1. PICK k \in Letters, j \in Letters :
              ask = [kind |-> "archyr", slug |-> Slug[k], year |-> Year[j]]
      BY <1>8, <1>11
    <2>2. l \in queryOrgYear(letters, c, OrgYearPrefix(Slug[k], Year[j]))
      BY <1>9, <1>11, <2>1
    <2>3. Slug[l] = Slug[k] /\ Year[l] = Year[j]
      BY <1>4, <2>2
    <2> QED
      BY <2>1, <2>3
  <1>12. {ask \in DOMAIN Ways(c) : l \in Ways(c)[ask]} = {way}
    BY <1>7, <1>9, <1>10, <1>11
  <1> QED
    BY <1>12, FS_Singleton

(***************************************************************************)
(* The drill-down leads to every letter a chat still has, by one button of *)
(* each level, as long as its letters fit into a page of the index and the *)
(* slugs into the buttons.                                                 *)
(***************************************************************************)
THEOREM LettersAreReachable == Spec => []EveryLetterReachable
  <1>1. TypeOK => EveryLetterReachable
    BY OneWay DEF EveryLetterReachable
  <1> QED
    BY <1>1, TypeCorrect, PTL
=============================================================================
