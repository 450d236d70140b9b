------------------------------ MODULE MCArchive -----------------------------
(***************************************************************************)
(* Instances of Archive for TLC: how often each thing may be asked for, and*)
(* whose the letters are.                                                  *)
(***************************************************************************)
EXTENDS Archive, TLC, SequencesExt

\* Every letter belongs to one chat.
OneOwner == [l \in Letters |-> CHOOSE c \in Chats : TRUE]

\* Some order in which the letters were received.
SomeOrder ==
    LET order == SetToSeq(Letters) IN
    [l \in Letters |-> CHOOSE i \in DOMAIN order : order[i] = l]

\* Four letters of two organizations, one of whose slugs begins with the
\* other's and is too long for a year button.
TwoOrganizations ==
    [l \in Letters |-> IF SomeOrder[l] = 4 THEN <<"tk", "hh">> ELSE <<"tk">>]
TwoAndOne ==
    [l \in Letters |-> <<"2025", "2025", "2026", "2024">>[SomeOrder[l]]]
LongSlug == [s \in Slugs |-> IF s = <<"tk">> THEN 2 ELSE 54]

\* In the other runs all letters are found below one button.
OneOrganization == [l \in Letters |-> <<"tk">>]
OneYear == [l \in Letters |-> "2026"]
ShortSlug == [s \in Slugs |-> 2]

\* How often to ask for the archive, its years and its letters, to press the
\* buttons of a letter, and to ask for the reminders and press theirs.
Asked(archive, year, view, pdf, delete, rem) ==
    [archive |-> archive, archorg |-> archive, archyr |-> year, view |-> view,
     pdf |-> pdf, delete |-> delete, reminders |-> rem, remview |-> rem,
     cancelrem |-> rem]

DeleteTaps == Asked(1, 1, 2, 0, 2, 0)
SettleTaps == Asked(1, 1, 1, 1, 2, 0)
ListTaps == Asked(1, 1, 2, 0, 1, 1)
ReminderTaps == Asked(1, 1, 1, 1, 1, 1)

WorkerSymmetry == Permutations(Workers)
=============================================================================
