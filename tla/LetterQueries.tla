---------------------------- MODULE LetterQueries ---------------------------
(***************************************************************************)
(* What the bot reads from the letters table (internal/letters/letters.go):*)
(* a letter by its id, the newest letters of a chat, and the three queries *)
(* of the drill-down from organization to year to letter.                  *)
(*                                                                         *)
(* The table is an argument of every operator.  Of a letter, only its      *)
(* status and key change once it has been saved; the rest are constants.   *)
(* An organization stands here for its slug, which SanitizeForKey makes of *)
(* its name: a sequence of tokens, so that a slug can be a prefix of       *)
(* another ("tk" and "tk-hh"), and names that share a slug are one.        *)
(***************************************************************************)
EXTENDS Integers, Sequences, FiniteSets, SequencesExt

CONSTANTS
    Letters,            \* the ids of the letters that have been saved
    Received,           \* the order in which the letters were received
    Slug,               \* the slug of each letter's organization
    Year,               \* the year each letter was received in
    IndexOrder,         \* their places in the drill-down index, by sort key
    QueryLimit,         \* how many letters /reminders looks at
    PageLimit           \* how many letters fit into a page of a query, 1 MB

ASSUME LettersAssumption ==
    /\ IsFiniteSet(Letters)
    /\ Received \in [Letters -> Nat]
    /\ \A k, l \in Letters : Received[k] = Received[l] => k = l
    /\ IndexOrder \in [Letters -> Nat]
    /\ Slug \in [Letters -> Seq(STRING)]
    /\ Year \in [Letters -> STRING]
    /\ \A l \in Letters : \A i \in DOMAIN Slug[l] : Slug[l][i] # "#"
    /\ {QueryLimit, PageLimit} \subseteq Nat

Slugs == {Slug[l] : l \in Letters}

Years == {Year[l] : l \in Letters}

NoItem == [status |-> "absent"]

\* The sort key of the drill-down index, and what its three levels ask for.
OrgYear(l) == Slug[l] \o <<"#", Year[l]>>

AnyPrefix == <<>>

\* Variant, for mutation: the slug alone, which may go on in another slug.
OrgPrefixOpen(slug) == slug

OrgPrefix(slug) == slug \o <<"#">>

\* Variant, for mutation: the year is forgotten.
OrgYearPrefixOpen(slug, year) == slug \o <<"#">>

OrgYearPrefix(slug, year) == slug \o <<"#", year>>

\* The items of a chat, deleted or not: what an index of the table holds.
Items(table, c) == {l \in Letters : table[l] # NoItem /\ table[l].chat = c}

\* The filter of both queries.
NotDeleted(table, found) == {l \in found : table[l].status # "pending_deletion"}

\* Variant, for mutation: the limit is one short.
FirstButOne(found, position, n) ==
    {l \in found : Cardinality({k \in found : position[k] < position[l]}) + 1 < n}

\* The first n letters in the order of an index.
FirstOf(found, position, n) ==
    {l \in found : Cardinality({k \in found : position[k] < position[l]}) < n}

NewestFirst == [l \in Letters |-> -Received[l]]

(***************************************************************************)
(* Query: DynamoDB takes the newest letters of the chat first, the deleted *)
(* ones among them, and then applies the filter.                           *)
(***************************************************************************)
Query(table, c) ==
    NotDeleted(table, FirstOf(Items(table, c), NewestFirst, QueryLimit))

(***************************************************************************)
(* queryOrgYear: of the letters whose sort key begins with the prefix, the *)
(* first page in the order of the index.  No further page is asked for.    *)
(***************************************************************************)
queryOrgYear(table, c, prefix) ==
    LET found == {l \in Items(table, c) : IsPrefix(prefix, OrgYear(l))} IN
    NotDeleted(table, FirstOf(found, IndexOrder, PageLimit))

\* The rows of QueryOrganizations, without the number of letters beside each.
Organizations(found) == {Slug[l] : l \in found}

\* yearFromOrgYear: what follows the last "#" of the sort key.
YearOf(l) == Last(OrgYear(l))

\* The rows of QueryYears.
YearsOf(found) == {YearOf(l) : l \in found}

\* Variant, for mutation: a letter that is pending deletion is found, too.
OwnedWhateverStatus(table, c, l) == table[l] # NoItem /\ table[l].chat = c

\* getOwnedLetter: nil for a letter that is gone, another's, or deleted.
Owned(table, c, l) ==
    /\ table[l] # NoItem
    /\ table[l].chat = c
    /\ table[l].status # "pending_deletion"
=============================================================================
