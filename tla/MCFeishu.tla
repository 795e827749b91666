----------------------------- MODULE MCFeishu -----------------------------
(* Instances for TLC: FeishuCalls, and the two parts that decide by the    *)
(* replies what to ask for next, each on its own, as they only read.       *)
EXTENDS FeishuCalls, ContactSearch, Inspection, TLC

CONSTANTS c1, c2, hq, a, b, u1, u2, u3, top, n1, n2, n3

TwoCalls == {c1, c2}

AllToolsets == {"bitable", "groups", "messages", "documents", "wiki", "contacts",
                "fields", "inspect", "none"}

-----------------------------------------------------------------------------
Lists(x, y, z) == (hq :> x) @@ (a :> y) @@ (b :> z)

\* No child, a tree, a department in two places, and a cycle.
Hierarchies == {Lists(<<>>, <<>>, <<>>), Lists(<<a, b>>, <<>>, <<>>),
                Lists(<<a, b>>, <<b>>, <<>>), Lists(<<a>>, <<b, hq>>, <<a, hq>>)}

Members == {Lists(<<u1, u3>>, <<u3, u2, u1>>, <<u2>>), Lists(<<>>, <<u2, u1>>, <<u1, u3>>)}

SmallCharts == {[children |-> h, users |-> m] : h \in Hierarchies, m \in Members}

SmallSearches == [departments : {1, 2, 3, 6}, users : {2, 3, 7}, matches : {1, 2, 5},
                  below : BOOLEAN, page : 1..2]

-----------------------------------------------------------------------------
Nodes3(x, y, z) == (n1 :> x) @@ (n2 :> y) @@ (n3 :> z)

\* An empty space, a flat one, one of two levels, and a cycle.
Spaces == {(top :> <<>>) @@ Nodes3(<<>>, <<>>, <<>>),
           (top :> <<n1, n2, n3>>) @@ Nodes3(<<>>, <<>>, <<>>),
           (top :> <<n1, n2>>) @@ Nodes3(<<n3>>, <<>>, <<>>),
           (top :> <<n1>>) @@ Nodes3(<<n2>>, <<n1, n3>>, <<>>)}

Titles == {Nodes3("other", "other", "other"), Nodes3("near", "other", "exact"),
           Nodes3("near", "near", "other"), Nodes3("other", "exact", "near"),
           Nodes3("exact", "near", "exact")}

SmallWikis == {[below |-> s, title |-> t] : s \in Spaces, t \in Titles}

-----------------------------------------------------------------------------
One(set) == CHOOSE x \in set : TRUE

SearchRests  == doing = "raised" /\ chart = One(Charts) /\ search = One(Searches)
InspectRests == seeking = "raised" /\ wiki = One(Wikis)

\* A behaviour is about calls, about a search or about an inspection.
MCInit ==
    /\ Init
    /\ \/ toolset # "none" /\ SearchRests /\ InspectRests
       \/ toolset = "none" /\ doing = "next" /\ InspectRests
       \/ toolset = "none" /\ SearchRests /\ seeking \in {"space", "tables"}
    /\ SearchInit /\ InspectInit

MCNext ==
    \/ Next        /\ UNCHANGED <<searchVars, inspectVars>>
    \/ SearchNext  /\ UNCHANGED <<vars, inspectVars>>
    \/ InspectNext /\ UNCHANGED <<vars, searchVars>>

MCSpec ==
    /\ MCInit /\ [][MCNext]_<<vars, searchVars, inspectVars>>
    /\ \A c \in Calls : WF_vars(CallStep(c))
    /\ WF_searchVars(SearchStep) /\ WF_inspectVars(InspectStep)

\* Calls, with fewer workers than calls and callers that go away, come to an end,
\* and so do a search and an inspection in lists with cycles.
EverythingEnds == EveryCallEnds /\ SearchEnds /\ InspectEnds

=============================================================================
