----------------------------- MODULE LetterLife -----------------------------
(***************************************************************************)
(* What the upload of letters promises, without sessions, queues, workers  *)
(* and failures: the pages a chat has photographed are sent to processing  *)
(* in batches without a page in common, a PDF is made of one whole batch   *)
(* and never changes, and a PDF becomes one letter at most, which is made  *)
(* of the pages of its PDF.                                                *)
(***************************************************************************)
EXTENDS Naturals, Sequences

CONSTANT Chats

VARIABLES
    photos,             \* the number of pages of each chat
    sent,               \* the batches of each chat, as sets of pages
    pdfs,               \* the batch each PDF of a chat is made of
    archived            \* the letters of each chat: their PDF and its pages

vars == <<photos, sent, pdfs, archived>>

Init ==
    /\ photos = [c \in Chats |-> 0]
    /\ sent = [c \in Chats |-> {}]
    /\ pdfs = [c \in Chats |-> <<>>]
    /\ archived = [c \in Chats |-> <<>>]

Photograph(c) ==
    /\ photos' = [photos EXCEPT ![c] = @ + 1]
    /\ UNCHANGED <<sent, pdfs, archived>>

\* An empty batch is possible, too: nothing will ever be made of it.
Send(c) ==
    /\ \E batch \in SUBSET (1..photos[c] \ UNION sent[c]) :
        sent' = [sent EXCEPT ![c] = @ \cup {batch}]
    /\ UNCHANGED <<photos, pdfs, archived>>

\* The same batch may be processed several times.
MakePdf(c) ==
    /\ \E batch \in sent[c] \ {{}} :
        pdfs' = [pdfs EXCEPT ![c] = Append(@, batch)]
    /\ UNCHANGED <<photos, sent, archived>>

Archive(c) ==
    /\ \E n \in DOMAIN pdfs[c] :
        /\ \A i \in DOMAIN archived[c] : archived[c][i].pdf # n
        /\ archived' = [archived EXCEPT
               ![c] = Append(@, [pdf |-> n, pages |-> pdfs[c][n]])]
    /\ UNCHANGED <<photos, sent, pdfs>>

Next == \E c \in Chats : Photograph(c) \/ Send(c) \/ MakePdf(c) \/ Archive(c)

Spec == Init /\ [][Next]_vars
=============================================================================
