----------------------------- MODULE Inspection -----------------------------
(***************************************************************************)
(* The ToolAgent's inspection of data gaps (agents.tool_agent): how it     *)
(* finds the base in a space of the wiki, and in the base the table for    *)
(* each role, by the replies to the calls that FeishuCalls.Inspect counts. *)
(*                                                                         *)
(* Left out: how names and titles are compared and fields are scored, of   *)
(* which the outcome is kept, and what is found in the records, a function *)
(* of their text.                                                          *)
(***************************************************************************)
EXTENDS Naturals, Sequences, FiniteSets, FiniteSetsExt, ListOps

CONSTANTS
    Top,        \* the parent of the nodes at the top of the space
    Wikis,      \* [below, title]: the nodes below each node, and how the title of each
                \* compares: "exact", "near", or "other", as it is for what is no base
    NodePage,   \* bound: nodes on a page of their list, 50 in the code
    MaxPages,   \* bound: pages that are read of a list, 20 in the code
    MaxNodes,   \* bound: scanned nodes that end the search, 500 in the code
    RoleCount,  \* bound: the roles that tables are looked for, 5 in the code
    TableCount, \* bound: the tables of the base
    MaxScore,   \* bound: what the fields of a table may be worth to a role
    NoNode

ASSUME InspectionAssumption ==
    {NodePage, MaxPages, MaxNodes, RoleCount, TableCount, MaxScore} \subseteq Nat \ {0}

\* The lists of a wiki are of its nodes, and the top of the space is none of them.
ASSUME WikisAssumption ==
    \A w \in Wikis : LET nodes == DOMAIN w.title IN
        /\ IsFiniteSet(nodes) /\ {Top, NoNode} \cap nodes = {}
        /\ w.title \in [nodes -> {"exact", "near", "other"}]
        /\ w.below \in [nodes \cup {Top} -> Seq(nodes)]

VARIABLES
    wiki,
    seeking,   \* "space", "nodes", "tables", "fields", "ranking", "ready", "raised"
    parents,   \* the queue of nodes whose children are to be listed
    page,      \* the pages of the current list that have been read
    scanned,
    fallback,  \* the last node with a title that is near
    base,      \* the node that was chosen
    schemas,   \* the tables whose fields have been read
    score,     \* what they are worth to a role, 0 when it is too little
    named,     \* the table each role has by its name, 0 for none
    assigned   \* and by its fields

wikiVars    == <<parents, page, scanned, fallback>>
tableVars   == <<schemas, score, named, assigned>>
inspectVars == <<wiki, seeking, base, wikiVars, tableVars>>

Roles  == 1..RoleCount
Tables == 1..TableCount
None   == [r \in Roles |-> 0]

InspectInit ==
    /\ wiki \in Wikis
    /\ seeking \in {"space", "tables", "raised"}  \* the second when the app token is
                                                \* given, the third without an executor
    /\ parents = <<Top>> /\ page = 0 /\ scanned = 0 /\ fallback = NoNode
    /\ base = NoNode
    /\ schemas = 0 /\ score = [m \in Roles \X Tables |-> 0]
    /\ named = None /\ assigned = None

-----------------------------------------------------------------------------
(* _find_bitable_app_in_wiki.                                              *)

Raised == seeking' = "raised" /\ UNCHANGED <<wiki, base, wikiVars, tableVars>>

\* The space is looked up by its name.
FindSpace ==
    /\ seeking = "space"
    /\ \/ seeking' = "nodes" /\ UNCHANGED <<wiki, base, wikiVars, tableVars>>
       \/ Raised

Found(node) ==
    /\ base' = node
    /\ seeking' = "tables"
    /\ parents' = <<Top>> /\ page' = 0 /\ scanned' = 0 /\ fallback' = NoNode

Scanning == seeking = "nodes" /\ parents # <<>> /\ scanned < MaxNodes

\* The children that are read, page by page.
Shown ==
    LET all == wiki.below[Head(parents)]
    IN  SubSeq(all, 1, Min({Len(all), MaxPages * NodePage}))

\* There are more exactly as long as has_more comes with a page_token.
LastPage == (page + 1) * NodePage >= Len(Shown)

ReadPage ==
    /\ Scanning /\ ~LastPage
    /\ page' = page + 1
    /\ UNCHANGED <<wiki, seeking, base, parents, scanned, fallback, tableVars>>

Titled(how) == {i \in DOMAIN Shown : wiki.title[Shown[i]] = how}

WithChildren == Among(Shown, {n \in ToSet(Shown) : wiki.below[n] # <<>>})

\* MUTANT: what is near is taken at once.
ScanNodesNear ==
    /\ Scanning /\ LastPage
    /\ LET good == Titled("exact") \cup Titled("near") IN
       IF good # {} THEN Found(Shown[Min(good)])
       ELSE /\ scanned' = scanned + Len(Shown)
            /\ parents' = Tail(parents) \o WithChildren
            /\ page' = 0
            /\ UNCHANGED <<seeking, base, fallback>>
    /\ UNCHANGED <<wiki, tableVars>>

\* MUTANT: the parent stays in the queue.
ScanNodesPeeked ==
    /\ Scanning /\ LastPage
    /\ Titled("exact") = {}
    /\ scanned' = scanned + Len(Shown)
    /\ fallback' = IF Titled("near") = {} THEN fallback ELSE Shown[Max(Titled("near"))]
    /\ parents' = parents \o WithChildren
    /\ page' = 0
    /\ UNCHANGED <<wiki, seeking, base, tableVars>>

\* The list is scanned in its order: an exact title ends the search, what is near
\* is kept for the end of it.
ScanNodes ==
    /\ Scanning /\ LastPage
    /\ \/ Titled("exact") # {} /\ Found(Shown[Min(Titled("exact"))])
       \/ /\ Titled("exact") = {}
          /\ scanned' = scanned + Len(Shown)
          /\ fallback' = IF Titled("near") = {} THEN fallback ELSE Shown[Max(Titled("near"))]
          /\ parents' = Tail(parents) \o WithChildren
          /\ page' = 0
          /\ UNCHANGED <<seeking, base>>
    /\ UNCHANGED <<wiki, tableVars>>

GiveUp ==
    /\ seeking = "nodes" /\ ~Scanning
    /\ \/ fallback # NoNode /\ Found(fallback) /\ UNCHANGED <<wiki, tableVars>>
       \/ fallback = NoNode /\ Raised

-----------------------------------------------------------------------------
(* _resolve_fr02_tables.                                                   *)

Unresolved == {r \in Roles : named[r] = 0}

\* Names are compared role by role: two roles may get the same table.
MatchNames ==
    /\ seeking = "tables"
    /\ named' \in [Roles -> Tables \cup {0}]
    /\ seeking' = IF \E r \in Roles : named'[r] = 0 THEN "fields" ELSE "ready"
    /\ UNCHANGED <<wiki, base, wikiVars, schemas, score, assigned>>

\* MUTANT: one table too many.
ReadSchemaBeyond ==
    /\ seeking = "fields" /\ schemas <= TableCount
    /\ schemas' = schemas + 1
    /\ UNCHANGED <<wiki, seeking, base, wikiVars, score, named, assigned>>

\* The fields of each table are read, and scored for the roles without one.
ReadSchema ==
    /\ seeking = "fields" /\ schemas < TableCount
    /\ schemas' = schemas + 1
    /\ \E worth \in [Unresolved -> 0..MaxScore] :
          score' = [m \in Roles \X Tables |->
                       IF m[1] \in Unresolved /\ m[2] = schemas' THEN worth[m[1]] ELSE score[m]]
    /\ UNCHANGED <<wiki, seeking, base, wikiVars, named, assigned>>

RankSchemas ==
    /\ seeking = "fields" /\ schemas = TableCount
    /\ seeking' = "ranking"
    /\ UNCHANGED <<wiki, base, wikiVars, tableVars>>

\* The matches that are not ruled out.
Eligible == {m \in Unresolved \X Tables : score[m] > 0 /\ \A r \in Roles : named[r] # m[2]}
Free == {m \in Eligible : assigned[m[1]] = 0 /\ \A r \in Roles : assigned[r] # m[2]}

\* MUTANT: what one role has got is not kept from the others.
AssignTaken ==
    /\ seeking = "ranking"
    /\ LET free == {m \in Eligible : assigned[m[1]] = 0} IN
       \/ free = {} /\ seeking' = "ready" /\ UNCHANGED assigned
       \/ /\ \E m \in free : /\ \A o \in free : score[o] <= score[m]
                             /\ assigned' = [assigned EXCEPT ![m[1]] = m[2]]
          /\ UNCHANGED seeking
    /\ UNCHANGED <<wiki, base, wikiVars, schemas, score, named>>

\* MUTANT: the order of the scores does not count.
AssignUnsorted ==
    /\ seeking = "ranking"
    /\ \/ Free = {} /\ seeking' = "ready" /\ UNCHANGED assigned
       \/ /\ \E m \in Free : assigned' = [assigned EXCEPT ![m[1]] = m[2]]
          /\ UNCHANGED seeking
    /\ UNCHANGED <<wiki, base, wikiVars, schemas, score, named>>

\* The order of the sorted list, in which equal scores keep their places.
Ahead(m, o) ==
    \/ score[m] > score[o]
    \/ score[m] = score[o] /\ m[1] < o[1]
    \/ score[m] = score[o] /\ m[1] = o[1] /\ m[2] <= o[2]

Assign ==
    /\ seeking = "ranking"
    /\ \/ Free = {} /\ seeking' = "ready" /\ UNCHANGED assigned
       \/ /\ \E m \in Free : /\ \A o \in Free : Ahead(m, o)
                             /\ assigned' = [assigned EXCEPT ![m[1]] = m[2]]
          /\ UNCHANGED seeking
    /\ UNCHANGED <<wiki, base, wikiVars, schemas, score, named>>

\* A call fails, and with it the intent.
CallFails == seeking \in {"space", "nodes", "tables", "fields"} /\ Raised

InspectStep ==
    \/ FindSpace \/ ReadPage \/ ScanNodes \/ GiveUp
    \/ MatchNames \/ ReadSchema \/ RankSchemas \/ Assign

InspectNext == InspectStep \/ CallFails

InspectSpec == InspectInit /\ [][InspectNext]_inspectVars /\ WF_inspectVars(InspectStep)

-----------------------------------------------------------------------------
Nodes == DOMAIN wiki.title

InspectTypeOK ==
    /\ wiki \in Wikis
    /\ seeking \in {"space", "nodes", "tables", "fields", "ranking", "ready", "raised"}
    /\ parents \in Seq(Nodes \cup {Top}) /\ page \in 0..(MaxPages - 1)
    /\ scanned \in 0..(MaxNodes - 1 + MaxPages * NodePage)
    /\ {base, fallback} \subseteq Nodes \cup {NoNode}
    /\ schemas \in 0..TableCount
    /\ score \in [Roles \X Tables -> 0..MaxScore]
    /\ named \in [Roles -> 0..TableCount] /\ assigned \in [Roles -> 0..TableCount]

\* The nodes that the lists lead to from the top, and where nodes are listed.
InSpace ==
    {n \in DOMAIN wiki.below : \A ns \in SUBSET DOMAIN wiki.below :
        Top \in ns /\ (\A p \in ns : ToSet(wiki.below[p]) \subseteq ns) => n \in ns}
Places == {q \in InSpace \X (1..MaxNodes) : q[2] \in DOMAIN wiki.below[q[1]]}
NodeAt(place) == wiki.below[place[1]][place[2]]

\* The bounds of the search are not met, and each node of the space is listed once.
WithinBounds ==
    /\ \A p \in DOMAIN wiki.below : Len(wiki.below[p]) <= Min({MaxNodes, MaxPages * NodePage})
    /\ \A p, q \in Places : NodeAt(p) = NodeAt(q) => p = q
    /\ Cardinality(Places) <= MaxNodes

\* In a space within the bounds a base whose title is near is taken only if no
\* base has the title itself, wherever in the space it is.
ExactTitleWins ==
    WithinBounds /\ base # NoNode /\ wiki.title[base] = "near" =>
        \A p \in Places : wiki.title[NodeAt(p)] # "exact"

\* No table that was found by its fields plays a second role.
TablesNotShared ==
    \A r, o \in Roles : assigned[r] # 0 =>
        /\ assigned[r] # named[o]
        /\ r # o => assigned[r] # assigned[o]

\* Whatever role a table was refused to, it is with one that it suits at least as
\* well, or that role has one that suits it at least as well; in the end no role
\* goes without while a table for it is left.
BestMatchesFirst ==
    seeking = "ready" =>
        \A m \in Eligible :
            \/ \E r \in Roles : assigned[r] = m[2] /\ score[<<r, m[2]>>] >= score[m]
            \/ assigned[m[1]] # 0 /\ score[<<m[1], assigned[m[1]]>>] >= score[m]

\* The tables given out by their fields are each one role's, the best that could be
\* had for it. Two roles may be given one table by its name (tool_agent.py:276-284).
TablesSuit == TablesNotShared /\ BestMatchesFirst

\* The FR-02 inspection works on the best base and tables that it may find, although
\* it decides on them page by page and match by match.
BestIsFound == InspectTypeOK /\ ExactTitleWins /\ TablesSuit

\* The inspection gets to its tables or fails, in a space with cycles too.
InspectEnds == <>(seeking \in {"ready", "raised"})

=============================================================================
