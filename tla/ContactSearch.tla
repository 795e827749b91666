--------------------------- MODULE ContactSearch ---------------------------
(***************************************************************************)
(* feishu_adapter.feishu_contact: the handler that looks for a user in a   *)
(* tree of departments, which unlike the other handlers decides by each    *)
(* reply what it asks for next.                                            *)
(*                                                                         *)
(* Users and departments come page by page; the search stops at a limit    *)
(* of departments, users or matches.  Departments may be moved while it    *)
(* goes on, so that what the lists of children show need not be a tree.    *)
(* Left out: the fields that are compared, of which the outcome is kept.   *)
(***************************************************************************)
EXTENDS Naturals, Sequences, FiniteSets, FiniteSetsExt, ListOps

CONSTANTS
    Root,      \* the department the search starts from
    Charts,    \* what Feishu shows: [children, users], a list for each department
    Wanted,    \* the users that match
    Searches   \* [departments, users, matches, below, page]: the limits, whether
               \* child departments are searched too, the size of a page

ASSUME SearchesAssumption ==
    \A s \in Searches : {s.departments, s.users, s.matches, s.page} \subseteq Nat \ {0}

\* A list of children is of departments, one of users has each of them once.
ASSUME ChartsAssumption ==
    \A c \in Charts :
        LET departments == DOMAIN c.children
            users       == UNION {ToSet(c.users[d]) : d \in departments}
        IN  /\ Root \in departments
            /\ c.children \in [departments -> Seq(departments)]
            /\ c.users \in [departments -> Seq(users)]
            /\ \A d \in departments : IsInjective(c.users[d])

VARIABLES
    chart,
    search,
    doing,         \* "next", "users", "children", "done", "raised"
    queue, visited, current,
    shown,         \* how many items of the current list have been on a page
    scannedUsers,
    matched,
    truncated      \* "no", or the limit that was reached

searchVars ==
    <<chart, search, doing, queue, visited, current, shown, scannedUsers, matched, truncated>>

scannedDepartments == Cardinality(visited)

SearchInit ==
    /\ chart \in Charts /\ search \in Searches
    /\ doing \in {"next", "raised"}  \* the second when there is nothing to compare
    /\ queue = <<Root>> /\ visited = {} /\ current = Root
    /\ shown = 0 /\ scannedUsers = 0
    /\ matched = <<>> /\ truncated = "no"

-----------------------------------------------------------------------------
(* The head of the loop.                                                   *)

LimitAtHead ==
    CASE scannedDepartments >= search.departments -> "departments"
      [] scannedUsers >= search.users             -> "users"
      [] Len(matched) >= search.matches           -> "matches"
      [] OTHER                                    -> "no"

Finish ==
    /\ doing = "next"
    /\ queue # <<>> => LimitAtHead # "no"
    /\ truncated' = IF queue = <<>> THEN "no" ELSE LimitAtHead
    /\ doing' = "done"
    /\ UNCHANGED <<chart, search, queue, visited, current, shown, scannedUsers, matched>>

Visit(department) ==
    /\ visited' = visited \cup {department}
    /\ current' = department
    /\ doing' = "users"

\* MUTANT: a department that was visited stays at the head.
NextDepartmentPeeked ==
    /\ doing = "next" /\ queue # <<>> /\ LimitAtHead = "no"
    /\ Head(queue) \notin visited
    /\ Visit(Head(queue))
    /\ queue' = Tail(queue)
    /\ UNCHANGED <<chart, search, shown, scannedUsers, matched, truncated>>

\* MUTANT: whether a department was visited is not asked.
NextDepartmentAgain ==
    /\ doing = "next" /\ queue # <<>> /\ LimitAtHead = "no"
    /\ Visit(Head(queue))
    /\ queue' = Tail(queue)
    /\ UNCHANGED <<chart, search, shown, scannedUsers, matched, truncated>>

NextDepartment ==
    /\ doing = "next" /\ queue # <<>> /\ LimitAtHead = "no"
    /\ queue' = Tail(queue)
    /\ \/ Head(queue) \notin visited /\ Visit(Head(queue))
       \/ Head(queue) \in visited /\ UNCHANGED <<doing, visited, current>>
    /\ UNCHANGED <<chart, search, shown, scannedUsers, matched, truncated>>

-----------------------------------------------------------------------------
Page(list, size) == SubSeq(list, shown + 1, Min({Len(list), shown + size}))

\* Where the search goes from a page that reached a limit or not.  Feishu is taken
\* to give a page_token with has_more: without one the list ends silently
\* (feishu_contact.py:893).
GoOn(limit, list, page, then) ==
    LET more == shown + Len(page) < Len(list) IN
    /\ truncated' = limit
    /\ shown' = IF limit = "no" /\ more THEN shown + Len(page) ELSE 0
    /\ doing' = IF limit # "no" THEN "done" ELSE IF more THEN doing ELSE then

\* A page of users, of no more than may still be scanned.  The scan ends in the
\* middle of it when a limit is reached.
Hits(users) == Among(users, Wanted)

LimitAfter(users) ==
    IF Len(matched) + Len(Hits(users)) >= search.matches THEN "matches"
    ELSE IF scannedUsers + Len(users) >= search.users THEN "users"
    ELSE "no"

Scanned(page) ==
    LET ends == {n \in DOMAIN page : LimitAfter(SubSeq(page, 1, n)) # "no"}
    IN  SubSeq(page, 1, Min(ends \cup {Len(page)}))

ScanPage(page) ==
    /\ scannedUsers' = scannedUsers + Len(Scanned(page))
    /\ matched' = matched \o [i \in DOMAIN Hits(Scanned(page)) |->
                                <<Hits(Scanned(page))[i], current>>]
    /\ GoOn(LimitAfter(Scanned(page)), chart.users[current], page,
            IF search.below THEN "children" ELSE "next")
    /\ UNCHANGED <<chart, search, queue, visited, current>>

\* MUTANT: a page may hold more users than may still be scanned, and is
\* scanned to its end.
FetchUsersWhole ==
    /\ doing = "users"
    /\ LET page == Page(chart.users[current], search.page) IN
       /\ scannedUsers' = scannedUsers + Len(page)
       /\ matched' = matched \o [i \in DOMAIN Hits(page) |-> <<Hits(page)[i], current>>]
       /\ GoOn(LimitAfter(page), chart.users[current], page,
               IF search.below THEN "children" ELSE "next")
    /\ UNCHANGED <<chart, search, queue, visited, current>>

FetchUsers ==
    /\ doing = "users"
    /\ ScanPage(Page(chart.users[current],
                     Min({search.page, search.users - scannedUsers})))

-----------------------------------------------------------------------------
(* A page of child departments.  What is queued counts against the limit,  *)
(* and reaching it ends the search: the queue is not scanned any more.     *)

Room == search.departments - (scannedDepartments + Len(queue))

NoRoom ==
    /\ doing = "children" /\ scannedDepartments + Len(queue) >= search.departments
    /\ truncated' = "departments"
    /\ doing' = "done"
    /\ UNCHANGED <<chart, search, queue, visited, current, shown, scannedUsers, matched>>

\* MUTANT: the limit ends the page, but not the search.
FetchChildrenOn ==
    /\ doing = "children" /\ scannedDepartments + Len(queue) < search.departments
    /\ LET page == Page(chart.children[current], search.page)
           new  == Among(page, ToSet(page) \ visited)
       IN  /\ queue' = queue \o SubSeq(new, 1, Min({Len(new), Room}))
           /\ truncated' = IF Len(new) >= Room THEN "departments" ELSE truncated
           /\ doing' = "next" /\ shown' = 0
    /\ UNCHANGED <<chart, search, visited, current, scannedUsers, matched>>

FetchChildren ==
    /\ doing = "children" /\ scannedDepartments + Len(queue) < search.departments
    /\ LET page == Page(chart.children[current], search.page)
           new  == Among(page, ToSet(page) \ visited)
       IN  /\ queue' = queue \o SubSeq(new, 1, Min({Len(new), Room}))
           /\ GoOn(IF Len(new) >= Room THEN "departments" ELSE "no",
                   chart.children[current], page, "next")
    /\ UNCHANGED <<chart, search, visited, current, scannedUsers, matched>>

\* A request fails, and with it the search.
SearchFails ==
    /\ doing \in {"users", "children"}
    /\ doing' = "raised"
    /\ UNCHANGED <<chart, search, queue, visited, current, shown, scannedUsers, matched,
                   truncated>>

SearchStep == Finish \/ NextDepartment \/ FetchUsers \/ NoRoom \/ FetchChildren

SearchNext == SearchStep \/ SearchFails

SearchSpec == SearchInit /\ [][SearchNext]_searchVars /\ WF_searchVars(SearchStep)

-----------------------------------------------------------------------------
Departments == DOMAIN chart.children

SearchTypeOK ==
    /\ chart \in Charts /\ search \in Searches
    /\ doing \in {"next", "users", "children", "done", "raised"}
    /\ queue \in Seq(Departments) /\ visited \subseteq Departments /\ current \in Departments
    /\ shown \in Nat /\ scannedUsers \in Nat
    /\ truncated # "no" => doing = "done"

\* No limit is ever passed, though a page may bring more, and one that is named
\* as the reason to stop was reached.
LimitsKept ==
    /\ scannedDepartments <= search.departments
    /\ scannedUsers <= search.users
    /\ Len(matched) <= search.matches
    /\ truncated = "departments" => scannedDepartments + Len(queue) >= search.departments
    /\ truncated = "users" => scannedUsers = search.users
    /\ truncated = "matches" => Len(matched) = search.matches

\* The departments that the lists lead to from the root.
Reached ==
    {d \in Departments : \A ds \in SUBSET Departments :
        Root \in ds /\ (\A e \in ds : ToSet(chart.children[e]) \subseteq ds) => d \in ds}

Searched == IF search.below THEN Reached ELSE {Root}

\* A search that does not say it was truncated has found everybody, and nobody
\* twice in a department, whatever cycles the lists have.
MatchesComplete ==
    /\ IsInjective(matched)
    /\ doing = "done" /\ truncated = "no" =>
          ToSet(matched) = {m \in Wanted \X Searched : m[1] \in ToSet(chart.users[m[2]])}

\* The answer of a search can be relied on: it keeps the limits, says which one it
\* met and stops there, and has everybody if it met none.
AnswerHolds == SearchTypeOK /\ LimitsKept /\ MatchesComplete

\* A search ends, in lists with cycles too.
SearchEnds == <>(doing \in {"done", "raised"})

=============================================================================
