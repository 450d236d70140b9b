---------------------------- MODULE SessionStore ----------------------------
(***************************************************************************)
(* The DynamoDB table of upload sessions (internal/session/session.go): one*)
(* item per chat, changed by single-item calls that DynamoDB applies one at*)
(* a time.  An operator takes the item a chat has before a call and gives  *)
(* the item it has after it; the condition of a conditional update is an   *)
(* operator of its own.                                                    *)
(*                                                                         *)
(* An item is a record of its attributes.  The absent item is the record   *)
(* in which every attribute is absent, because UpdateItem treats both the  *)
(* same way: it creates the item, and a condition sees no attribute.       *)
(***************************************************************************)
EXTENDS Integers, Sequences

CONSTANT Chats          \* the chats (one per user) that talk to the bot

Statuses == {"none", "awaiting_processing", "pending_confirmation", "saving"}

(***************************************************************************)
(* The expiry of an item: expires_at is not there, lies in the future, or  *)
(* has passed.  DynamoDB deletes an item some time after expires_at, and   *)
(* never one that lacks the attribute.                                     *)
(***************************************************************************)
Expiries == {"unset", "live", "expired"}

\* The key of a stored raw photo: raw/<chat>/<time of arrival>.jpg.
RawKey == [chat : Chats, at : Nat \ {0}]

\* What the LLM said about a letter: the file name it chose, for these pages.
Classification == [name : Nat, pages : Seq(RawKey)]

NoClassification == [name |-> 0, pages |-> <<>>]

Item == [raw    : Seq(RawKey),
         status : Statuses,
         pdf    : Nat,
         class  : Classification,
         ttl    : Expiries]

NoItem == [raw    |-> <<>>,
           status |-> "none",
           pdf    |-> 0,
           class  |-> NoClassification,
           ttl    |-> "unset"]

\* Get: an absent session and one past its expiry are both reported as nil.
\* A missing expires_at reads as 0, which is always in the past.
Get(s) == IF s.ttl = "live" THEN s ELSE NoItem

\* AppendRawKey: no condition, the status stays what it is.
AppendRawKey(s, key) ==
    [s EXCEPT !.raw = Append(@, key), !.ttl = "live"]

\* Variant, for mutation: the update has no condition.
CanMarkAlways(s) == TRUE

\* MarkAwaitingProcessing: only if the item has no status; expires_at stays.
CanMarkAwaitingProcessing(s) == s.status = "none"

MarkAwaitingProcessing(s) == [s EXCEPT !.status = "awaiting_processing"]

\* Variant, for mutation: a repeated Save passes.
CanMarkSavingAgain(s) == s.status \in {"pending_confirmation", "saving"}

\* MarkSaving: only from pending_confirmation, whatever the expiry says.
CanMarkSaving(s) == s.status = "pending_confirmation"

MarkSaving(s) == [s EXCEPT !.status = "saving"]

\* Variant, for mutation: a status outside the constants.
SetPendingMisspelt(s, pdf, class) ==
    [s EXCEPT !.status = "pending",
              !.pdf    = pdf,
              !.class  = class,
              !.ttl    = "live"]

\* Variant, for mutation: the first pdf_key stays (if_not_exists).
SetPendingKeepsPdf(s, pdf, class) ==
    [s EXCEPT !.status = "pending_confirmation",
              !.pdf    = IF s.pdf = 0 THEN pdf ELSE s.pdf,
              !.class  = class,
              !.ttl    = "live"]

\* SetPendingConfirmation: no condition, the pages stay what they are.
SetPendingConfirmation(s, pdf, class) ==
    [s EXCEPT !.status = "pending_confirmation",
              !.pdf    = pdf,
              !.class  = class,
              !.ttl    = "live"]

\* Clear: DeleteItem, no condition.
Clear(s) == NoItem

\* Time passes beyond expires_at, and DynamoDB gets round to the deletion.
Lapse(s) == [s EXCEPT !.ttl = "expired"]
=============================================================================
