---------------------------- MODULE MonitorQueries ----------------------------
(***************************************************************************)
(* The history a monitor pages through (monitor_query_repository.py and    *)
(* the GET /api/monitor endpoints of main.py) while the service goes on    *)
(* writing and the retention sweep deletes old rows.                       *)
(*                                                                         *)
(* A client walks one list to its end: it asks for a page, and for the     *)
(* next one with the cursor or the offset it was given.  Ids and times of  *)
(* translations are allotted when a statement begins, so they are visible  *)
(* in any order, and two rows can have one time.  Sessions are numbered in *)
(* the order of (started_at, session_id).  The languages and the keyword   *)
(* of a search, or the session of a list of pairs, are the set of ids they *)
(* match.                                                                  *)
(***************************************************************************)
EXTENDS Naturals, FiniteSets

CONSTANTS
    MaxRow,      \* bound: ids of app.translations
    MaxSession,  \* bound: rows of app.sessions
    At,          \* created_at of each id
    Filters,     \* what searches may match
    Limits,      \* limits a client may ask for, None when it gives none
    Default, Maximum,  \* the limit of an endpoint, and its cap
    None         \* a value that is no number and no position

Ids     == 1..MaxRow
Listed  == 1..MaxSession
Times   == {At[i] : i \in Ids}

ASSUME QueriesAssumption ==
    /\ MaxRow \in Nat /\ MaxSession \in Nat
    /\ At \in [Ids -> Nat] /\ Filters \subseteq SUBSET Ids
    /\ Limits \subseteq Nat \cup {None}
    /\ Default \in Nat \ {0} /\ Maximum \in Nat \ {0}
    /\ None \notin Nat /\ None \notin [t : Nat, i : Nat]

VARIABLES
    pairs,     \* app.translations: where each id is
    sessions,  \* app.sessions: where each session is
    kind,      \* the list a client walks, "idle" before it begins
    want,      \* the ids its filter matches
    limit,     \* the limit the endpoint uses
    position,  \* the cursor or offset of the next page
    got,       \* the rows it got
    owed,      \* history: the matching rows visible when it began
    repeated,  \* history: a row came twice
    pruned,    \* history: rows deleted since it began
    over       \* history: the client got the last page of its list

tables == <<pairs, sessions>>
walk   == <<kind, want, limit, position, got, owed, repeated, over>>
queryVars == <<tables, walk, pruned>>

Place == {"future", "here", "gone"}

QueriesTypeOK ==
    /\ pairs \in [Ids -> Place] /\ sessions \in [Listed -> Place]
    /\ kind \in {"idle", "sessions", "pairs", "search"}
    /\ want \subseteq Ids /\ limit \in Nat \ {0}
    /\ position \in {None} \cup IF kind = "search" THEN [t : Nat, i : Nat] ELSE Nat
    /\ got \subseteq Nat /\ owed \subseteq Nat /\ pruned \subseteq Nat
    /\ repeated \in BOOLEAN /\ over \in BOOLEAN

QueriesInit ==
    /\ pairs = [i \in Ids |-> "future"] /\ sessions = [s \in Listed |-> "future"]
    /\ kind = "idle" /\ want = {} /\ limit = Default /\ position = None
    /\ got = {} /\ owed = {} /\ pruned = {}
    /\ repeated = FALSE /\ over = FALSE

Here(table) == {r \in DOMAIN table : table[r] = "here"}

-----------------------------------------------------------------------------
(* Mutant: an out-of-range limit is not raised to 1.                        *)
ClampUnchecked(raw) ==
    IF raw = None THEN Default ELSE IF raw > Maximum THEN Maximum ELSE raw

ClampLimit(raw) ==
    IF raw = None THEN Default
    ELSE IF raw < 1 THEN 1
    ELSE IF raw > Maximum THEN Maximum
    ELSE raw

(* A cursor keeps both parts of a position, and what it encodes is read     *)
(* back as it was: the time in ISO 8601 has the microseconds the table has. *)
SearchCursor(i) == [t |-> At[i], i |-> i]

(* (created_at, id) < (cur_t, cur_i), as SQL compares rows.                 *)
RowBelow(a, b) == a.t < b.t \/ (a.t = b.t /\ a.i < b.i)

(* The order of each list: started_at and session_id, or created_at and id, *)
(* descending; id ascending.                                                *)
Precedes(k, a, b) ==
    CASE k = "pairs"    -> a < b
      [] k = "search"   -> RowBelow(SearchCursor(b), SearchCursor(a))
      [] k = "sessions" -> b < a

(* LIMIT n: the first n of the rows, or all of them if they are fewer.      *)
FirstRows(k, rows, n) ==
    {P \in SUBSET rows :
       /\ \A r \in P, q \in rows : Precedes(k, q, r) => q \in P
       /\ Cardinality(P) = IF Cardinality(rows) < n THEN Cardinality(rows) ELSE n}

(* Mutant: only the time is compared, id is not.                            *)
PastTimeOnly(i) == position = None \/ At[i] < position.t

(* created_at >= dt_from, created_at <= dt_to, each when it is given.       *)
InRange(i, from, to) ==
    /\ from # None => At[i] >= from
    /\ to # None => At[i] <= to

(* WHERE id > $cursor, and (created_at, id) < $cursor.                      *)
PastId(i)     == position = None \/ i > position
PastSearch(i) == position = None \/ RowBelow(SearchCursor(i), position)

-----------------------------------------------------------------------------
(* An INSERT of the service is committed; the sweep deletes the pairs older *)
(* than a time and ended sessions, which need not be those that began first.*)
CommitPair(i) ==
    /\ pairs[i] = "future" /\ pairs' = [pairs EXCEPT ![i] = "here"]
    /\ UNCHANGED <<sessions, walk, pruned>>

CommitSession(s) ==
    /\ sessions[s] = "future" /\ sessions' = [sessions EXCEPT ![s] = "here"]
    /\ UNCHANGED <<pairs, walk, pruned>>

Delete(table, old) == [r \in DOMAIN table |-> IF r \in old THEN "gone" ELSE table[r]]

Sweep(cutoff, closed) ==
    LET old == {i \in Here(pairs) : At[i] < cutoff} IN
    /\ pairs' = Delete(pairs, old)
    /\ sessions' = Delete(sessions, closed)
    /\ pruned' = IF kind = "sessions" THEN pruned \cup closed ELSE pruned \cup old
    /\ UNCHANGED walk

-----------------------------------------------------------------------------
(* The client begins a walk, with the limit it asks for or none.            *)
Begin(k, matches, raw, first) ==
    /\ kind = "idle"
    /\ kind' = k /\ want' = matches /\ limit' = ClampLimit(raw)
    /\ position' = first
    /\ owed' = IF k = "sessions" THEN Here(sessions) ELSE Here(pairs) \cap matches
    /\ pruned' = {}
    /\ UNCHANGED <<tables, got, repeated, over>>

BeginSessions(raw) == Begin("sessions", {}, raw, 0)
BeginPairs(f, raw) == Begin("pairs", f, raw, None)
BeginSearch(f, from, to, raw) ==
    Begin("search", {i \in f : InRange(i, from, to)}, raw, None)

(* The client takes a page and goes on where the endpoint says, or the list *)
(* is over when it says nothing.                                            *)
TakePage(page, next) ==
    /\ got' = got \cup page
    /\ repeated' = (repeated \/ page \cap got # {})
    /\ position' = next
    /\ over' = (next = None)
    /\ UNCHANGED <<tables, kind, want, limit, owed, pruned>>

IsLast(k, r, page) == r \in page /\ \A q \in page : q = r \/ Precedes(k, q, r)

(* Mutant: the next page begins one row too far.                            *)
OffsetTooFar(page) == IF Cardinality(page) = limit THEN position + limit + 1 ELSE None

(* There is a next page if this one is full.                                *)
NextOffset(page) == IF Cardinality(page) = limit THEN position + limit ELSE None

ListSessions ==
    /\ kind = "sessions" /\ ~over
    /\ \E skipped \in FirstRows("sessions", Here(sessions), position) :
       \E upTo \in FirstRows("sessions", Here(sessions), position + limit) :
         TakePage(upTo \ skipped, NextOffset(upTo \ skipped))

ListSessionTranslations ==
    /\ kind = "pairs" /\ ~over
    /\ \E page \in FirstRows("pairs", {i \in Here(pairs) \cap want : PastId(i)}, limit) :
         IF Cardinality(page) = limit
         THEN \E r \in page : IsLast("pairs", r, page) /\ TakePage(page, r)
         ELSE TakePage(page, None)

SearchTranslations ==
    /\ kind = "search" /\ ~over
    /\ \E page \in FirstRows("search",
                             {i \in Here(pairs) \cap want : PastSearch(i)}, limit) :
         IF Cardinality(page) = limit
         THEN \E r \in page :
                IsLast("search", r, page) /\ TakePage(page, SearchCursor(r))
         ELSE TakePage(page, None)

FetchPage == ListSessions \/ ListSessionTranslations \/ SearchTranslations

QueriesNext ==
    \/ \E i \in Ids : CommitPair(i)
    \/ \E s \in Listed : CommitSession(s)
    \/ \E cutoff \in Times, closed \in SUBSET Here(sessions) : Sweep(cutoff, closed)
    \/ \E raw \in Limits :
         \/ BeginSessions(raw)
         \/ \E f \in Filters :
              \/ BeginPairs(f, raw)
              \/ \E from, to \in Times \cup {None} : BeginSearch(f, from, to, raw)
    \/ FetchPage

QueriesSpec == QueriesInit /\ [][QueriesNext]_queryVars

(* The client asks for the next page as long as there is one.               *)
QueriesFairSpec == QueriesSpec /\ WF_queryVars(FetchPage)

-----------------------------------------------------------------------------
(* A client that walks the pairs of a session or a search to the end got    *)
(* every matching row that was there when it began and was not deleted, no  *)
(* row twice and nothing else, whatever was inserted or deleted meanwhile   *)
(* and whichever rows share a time.                                         *)
KeysetWalkIsComplete ==
    kind \in {"pairs", "search"} =>
      /\ got \subseteq want /\ ~repeated
      /\ over => owed \ pruned \subseteq got

(* A walk of the sessions by offset misses none that was there when it      *)
(* began, unless the sweep deleted one meanwhile, which moves the others up *)
(* (it may repeat some: a new session moves the others down).               *)
OffsetWalkIsComplete ==
    kind = "sessions" /\ over /\ pruned = {} => owed \subseteq got

(* A walk comes to its end, whatever limit the client asked for.            *)
WalkEnds == kind # "idle" ~> over
=============================================================================
