----------------------------- MODULE UserListing -----------------------------
(***************************************************************************)
(* The lists of accounts.  The backend answers one page of one role per    *)
(* request.  An API client may read page after page; the frontend asks for *)
(* the first page of every role in parallel, merges the answers into the   *)
(* query cache and pages through the result by itself.  Accounts come, go  *)
(* and change roles between any two of these requests.                     *)
(***************************************************************************)
EXTENDS Integers, FiniteSets, SequencesExt

CONSTANTS
    Accounts,
    ALL_ROLES,  \* the role codes the frontend asks for, in order
    Matches,    \* the sets of accounts a search or a filter of UsersPage may select
    Limit,      \* accounts per page of the backend
    PAGE_SIZE,  \* rows per page of UsersPage
    Null

ASSUME RolesAssumption == ALL_ROLES \in Seq(Range(ALL_ROLES))

RoleCodes == Range(ALL_ROLES)

ASSUME AccountsAssumption == IsFiniteSet(Accounts)

ASSUME MatchesAssumption == Accounts \in Matches /\ Matches \subseteq SUBSET Accounts

(* The results of Promise.allSettled, and the requests not settled yet.    *)
Answers == [state : {"pending", "failed", "fulfilled"}, rows : Seq(Accounts)]

ASSUME NullAssumption == Null \notin [RoleCodes -> Answers]

ASSUME SizesAssumption == Limit \in Nat \ {0} /\ PAGE_SIZE \in Nat \ {0}

VARIABLES
    born,     \* accounts ever inserted
    live,     \* the accounts that are not deleted
    newer,    \* the pairs of them whose first was created_at a later time than its second
    roles,    \* identity_user_roles
    reader,   \* an API client that reads the pages of one role
    due,      \* history: accounts the reader has a right to expect
    answers,  \* the settled requests of listAllUsers, or Null when none is running
    steady,   \* history: who was on the first page of each role since then
    seen,     \* history: who was visible at some time since then
    cache,    \* the data of the query ['users'], or Null
    view      \* the page number and the filter of UsersPage, or Null when not mounted

tables == <<born, live, newer, roles>>
reading == <<reader, due>>
fetching == <<answers, steady, seen>>
listingVars == <<tables, reading, fetching, cache, view>>

Pending == [state |-> "pending", rows |-> <<>>]
Failed  == [state |-> "failed", rows |-> <<>>]
Fulfilled(rows) == [state |-> "fulfilled", rows |-> rows]

NoReader == [pc |-> "idle", role |-> Null, page |-> 1, got |-> {}]

ListingTypeOK ==
    /\ born \subseteq Accounts
    /\ live \subseteq born
    /\ newer \subseteq live \X live
    /\ roles \in [Accounts -> SUBSET RoleCodes]
    /\ reader \in [pc : {"idle", "reading", "done"}, role : RoleCodes \cup {Null},
                   page : Nat \ {0}, got : SUBSET Accounts]
    /\ due \subseteq Accounts
    /\ answers # Null => answers \in [RoleCodes -> Answers]
    /\ steady \in [RoleCodes -> SUBSET Accounts]
    /\ seen \subseteq Accounts
    /\ cache # Null => cache \in Seq(Accounts)
    /\ view # Null => view \in [page : Nat \ {0}, match : Matches]

ListingInit ==
    /\ born    = {}
    /\ live    = {}
    /\ newer   = {}
    /\ roles   = [a \in Accounts |-> {}]
    /\ reader  = NoReader
    /\ due     = {}
    /\ answers = Null
    /\ steady  = [r \in RoleCodes |-> {}]
    /\ seen    = {}
    /\ cache   = Null
    /\ view    = Null

-----------------------------------------------------------------------------
(* The backend's query                                                     *)

Listed(r) == {a \in live : r \in roles[a]}

Ahead(a, S) == {b \in S : <<b, a>> \in newer}

(* The accounts of S in the order of the query: the newest first.          *)
Ordered(S) == [i \in 1 .. Cardinality(S) |-> CHOOSE a \in S : Cardinality(Ahead(a, S)) = i - 1]

(* The rows in the places from offset + 1 to offset + size, if any.        *)
Slice(s, size, offset) ==
    SubSeq(s, offset + 1, IF offset + size < Len(s) THEN offset + size ELSE Len(s))

(* Mutant: the pages are counted from zero.                                *)
ListByRoleFromZero(r, page) == Slice(Ordered(Listed(r)), Limit, page * Limit)

(* Mutant: deleted accounts stay on the list.                              *)
ListByRoleWithDeleted(r, page) ==
    Slice(Ordered(Listed(r)) \o SetToSeq(born \ live), Limit, (page - 1) * Limit)

ListByRole(r, page) == Slice(Ordered(Listed(r)), Limit, (page - 1) * Limit)

-----------------------------------------------------------------------------
(* What happens to accounts meanwhile                                      *)

(* The accounts a role's first page is meant to show.                      *)
Newest(r) == {a \in Listed(r) : Cardinality(Ahead(a, Listed(r))) < Limit}

(* The history that follows from a change of the tables: an account stays  *)
(* due while it is on the reader's list and nobody ahead of it leaves.     *)
Observe ==
    /\ UNCHANGED <<reader, answers, cache, view>>
    /\ due' = {a \in due :
                 {a} \cup Ahead(a, Listed(reader.role)) \subseteq Listed(reader.role)'}
    /\ steady' = [r \in RoleCodes |->
                    IF answers # Null /\ answers[r] = Pending
                    THEN steady[r] \cap Newest(r)'
                    ELSE steady[r]]
    /\ seen' = IF answers # Null THEN seen \cup live' ELSE seen

(* CreateUser inserts an account; its role is a statement of its own.      *)
Insert(a) ==
    /\ a \notin born
    /\ born'  = born \cup {a}
    /\ live'  = live \cup {a}
    /\ newer' = newer \cup ({a} \X live)
    /\ UNCHANGED roles
    /\ Observe

AssignRole(a, r) ==
    /\ a \in live /\ r \notin roles[a]
    /\ roles' = [roles EXCEPT ![a] = @ \cup {r}]
    /\ UNCHANGED <<born, live, newer>>
    /\ Observe

WithdrawRole(a, r) ==
    /\ a \in live /\ r \in roles[a]
    /\ roles' = [roles EXCEPT ![a] = @ \ {r}]
    /\ UNCHANGED <<born, live, newer>>
    /\ Observe

(* The roles of a deleted account are never read again.                    *)
SoftDelete(a) ==
    /\ a \in live
    /\ live'  = live \ {a}
    /\ newer' = newer \cap (live' \X live')
    /\ roles' = [roles EXCEPT ![a] = {}]
    /\ UNCHANGED born
    /\ Observe

-----------------------------------------------------------------------------
(* An API client that reads the pages of a role until one is not full      *)

(* Bound: API clients read while the frontend is not in use; the two meet *)
(* only in the tables.                                                     *)
FrontendIdle == view = Null /\ answers = Null /\ cache = Null

ReaderBegins(r) ==
    /\ reader.pc = "idle"
    /\ FrontendIdle
    /\ reader' = [NoReader EXCEPT !.pc = "reading", !.role = r]
    /\ due'    = Listed(r)
    /\ UNCHANGED <<tables, fetching, cache, view>>

ReadPage ==
    /\ reader.pc = "reading"
    /\ LET rows == ListByRole(reader.role, reader.page)
       IN  reader' = [reader EXCEPT
                        !.got  = @ \cup Range(rows),
                        !.page = IF Len(rows) < Limit THEN @ ELSE @ + 1,
                        !.pc   = IF Len(rows) < Limit THEN "done" ELSE @]
    /\ UNCHANGED <<tables, due, fetching, cache, view>>

ReaderEnds ==
    /\ reader.pc = "done"
    /\ reader' = NoReader
    /\ due'    = {}
    /\ UNCHANGED <<tables, fetching, cache, view>>

-----------------------------------------------------------------------------
(* listAllUsers, behind a query that runs once at a time                   *)

Fetch ==
    /\ answers = Null
    /\ answers' = [r \in RoleCodes |-> Pending]
    /\ steady'  = [r \in RoleCodes |-> Newest(r)]
    /\ seen'    = live
    /\ UNCHANGED <<tables, reading, cache, view>>

(* The query runs when a page that uses it is mounted and when the window  *)
(* gains the focus.                                                        *)
Refetch ==
    /\ view # Null
    /\ Fetch

(* One of the requests is answered, or fails: no network, an expired token. *)
Settle(r) ==
    /\ answers # Null
    /\ answers[r] = Pending
    /\ \E answer \in {Fulfilled(ListByRole(r, 1)), Failed} :
          answers' = [answers EXCEPT ![r] = answer]
    /\ UNCHANGED <<tables, reading, steady, seen, cache, view>>

(* Mutant: the answers are merely strung together.                         *)
AddAll(users, rows) == users \o rows

(* Mutant: the answers are pushed, not the accounts in them.               *)
AddNested(users, rows) == Append(users, rows)

(* The rows that are not on the list yet are put at its end, one by one.   *)
AddNew(users, rows) ==
    LET list[k \in 0 .. Len(rows)] ==
          IF k = 0 THEN users
          ELSE IF rows[k] \in Range(list[k - 1]) THEN list[k - 1]
          ELSE Append(list[k - 1], rows[k])
    IN  list[Len(rows)]

(* Mutant: Promise.all, which is rejected with the first request that is.  *)
RowsOfAllOrNothing(r) ==
    IF \E q \in RoleCodes : answers[q] = Failed THEN <<>> ELSE answers[r].rows

(* A request that failed adds nobody.                                      *)
RowsOf(r) == answers[r].rows

(* One answer after the other, in the order of the roles.                  *)
Merged ==
    LET users[n \in 0 .. Len(ALL_ROLES)] ==
          IF n = 0 THEN <<>> ELSE AddNew(users[n - 1], RowsOf(ALL_ROLES[n]))
    IN  users[Len(ALL_ROLES)]

(* All requests have settled.  The query never fails.                      *)
Store ==
    /\ answers # Null
    /\ \A r \in RoleCodes : answers[r] # Pending
    /\ cache'   = Merged
    /\ answers' = Null
    /\ steady'  = [r \in RoleCodes |-> {}]
    /\ seen'    = {}
    /\ UNCHANGED <<tables, reading, view>>

(* Unused data is dropped after a while.                                   *)
Collect ==
    /\ view = Null /\ answers = Null /\ cache # Null
    /\ cache'  = Null
    /\ UNCHANGED <<tables, reading, fetching, view>>

-----------------------------------------------------------------------------
(* UsersPage                                                               *)

(* The rows of a list that pass a filter, in the order of the list.        *)
Passing(rows, match) ==
    LET kept[k \in 0 .. Len(rows)] ==
          IF k = 0 THEN <<>>
          ELSE IF rows[k] \in match THEN Append(kept[k - 1], rows[k])
          ELSE kept[k - 1]
    IN  kept[Len(rows)]

Filtered == IF cache = Null THEN <<>> ELSE Passing(cache, view.match)

TotalPages == IF Filtered = <<>> THEN 1 ELSE (Len(Filtered) + PAGE_SIZE - 1) \div PAGE_SIZE

(* Mutant: the page number is used as it was left.                         *)
CurrentPageAsLeft == view.page

(* The list may have become shorter since the page number was chosen.      *)
CurrentPage == IF view.page < TotalPages THEN view.page ELSE TotalPages

Rows(page) == Slice(Filtered, PAGE_SIZE, (page - 1) * PAGE_SIZE)

Mount ==
    /\ view = Null
    /\ reader.pc = "idle"
    /\ view' = [page |-> 1, match |-> Accounts]
    /\ UNCHANGED <<tables, reading, fetching, cache>>

Leave ==
    /\ view # Null
    /\ view' = Null
    /\ UNCHANGED <<tables, reading, fetching, cache>>

(* Bound: the filters and the buttons are used between fetches.  They read *)
(* and write nothing that a fetch does before it ends.                     *)
Settled == view # Null /\ answers = Null

(* Every change of the search text or of a filter goes back to page one.   *)
Filter(match) ==
    /\ Settled
    /\ view' = [page |-> 1, match |-> match]
    /\ UNCHANGED <<tables, reading, fetching, cache>>

Turn(page) ==
    /\ view' = [view EXCEPT !.page = page]
    /\ UNCHANGED <<tables, reading, fetching, cache>>

(* The buttons work on the number that was chosen, not on the one shown.   *)
NextPage ==
    /\ Settled
    /\ Filtered # <<>> /\ CurrentPage # TotalPages
    /\ Turn(IF view.page < TotalPages THEN view.page + 1 ELSE TotalPages)

PreviousPage ==
    /\ Settled
    /\ Filtered # <<>> /\ CurrentPage # 1
    /\ Turn(IF view.page > 1 THEN view.page - 1 ELSE 1)

-----------------------------------------------------------------------------
ListingNext ==
    \/ \E a \in Accounts : Insert(a) \/ SoftDelete(a)
    \/ \E a \in Accounts, r \in RoleCodes : AssignRole(a, r) \/ WithdrawRole(a, r)
    \/ \E r \in RoleCodes : ReaderBegins(r) \/ Settle(r)
    \/ ReadPage
    \/ ReaderEnds
    \/ Refetch
    \/ Store
    \/ Collect
    \/ Mount
    \/ Leave
    \/ \E match \in Matches : Filter(match)
    \/ NextPage
    \/ PreviousPage

ListingSpec == ListingInit /\ [][ListingNext]_listingVars

-----------------------------------------------------------------------------
(* Properties                                                              *)

(* Reading page after page, newest account first, misses nobody who had    *)
(* the role all the while, unless somebody newer lost it meanwhile; new    *)
(* accounts may at most make the reader see somebody twice.                *)
PagesMissNobody == reader.pc = "done" => due \subseteq reader.got

(* However accounts change roles between the answers for two roles, the    *)
(* merged list names an account once: rows are keyed by account, and the   *)
(* totals of the dashboard count it once.                                  *)
ListedOnce == cache # Null => IsInjective(cache)

(* Whoever was on the first page of some role from the beginning of a      *)
(* fetch until the answer for that role is on the merged list, unless the  *)
(* request failed.                                                         *)
MergeComplete ==
    answers # Null /\ answers' = Null =>
       \A r \in RoleCodes : answers[r] # Failed => steady[r] \subseteq Range(cache')

NobodyDropped == [][MergeComplete]_listingVars

(* Nobody is put on the list who was deleted before the fetch began.       *)
NobodyRevived ==
    [][answers # Null /\ answers' = Null => Range(cache') \subseteq seen]_listingVars

(* The pages of UsersPage are the filtered list, cut in pieces, and the    *)
(* page on display is not empty while the list is not, also when a refetch *)
(* made the list shorter under a page number chosen before.                *)
PagesCoverList ==
    view # Null =>
       /\ FlattenSeq([page \in 1 .. TotalPages |-> Rows(page)]) = Filtered
       /\ Filtered # <<>> => Rows(CurrentPage) # <<>>

-----------------------------------------------------------------------------
(* The inductive invariant                                                 *)

NewerIsOrder ==
    /\ \A a \in live : <<a, a>> \notin newer
    /\ \A a, b \in live : a # b => <<a, b>> \in newer \/ <<b, a>> \in newer
    /\ \A a, b, c \in live : <<a, b>> \in newer /\ <<b, c>> \in newer => <<a, c>> \in newer

(* An account that is due and has not been read yet is on a later page.    *)
ReaderOnTrack ==
    reader.pc = "reading" =>
       \A a \in due \ reader.got :
          /\ a \in Listed(reader.role)
          /\ Cardinality(Ahead(a, Listed(reader.role))) >= (reader.page - 1) * Limit

(* What the answers to a fetch name, and what they do not name yet.        *)
FetchOnTrack ==
    answers # Null =>
       /\ live \subseteq seen
       /\ \A r \in RoleCodes :
             /\ Range(answers[r].rows) \subseteq seen
             /\ answers[r] = Pending => steady[r] \subseteq Newest(r)
             /\ answers[r] \notin {Pending, Failed} => steady[r] \subseteq Range(answers[r].rows)

ListingInv ==
    /\ ListingTypeOK
    /\ NewerIsOrder
    /\ ReaderOnTrack
    /\ PagesMissNobody
    /\ FetchOnTrack
    /\ ListedOnce
=============================================================================
