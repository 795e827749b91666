----------------------------- MODULE AgentLoop -----------------------------
(***************************************************************************)
(* One run of an LLMAgent (agents.llm_agent): observe, then think, act and *)
(* verify until the model decides to finish, is blocked or the steps are   *)
(* used up; and the AgentContext it fills, which is compacted when it is   *)
(* rendered for a prompt and has become too long (context.manager).        *)
(* HiveDispatch shows what such a run is part of, and has its outcomes.    *)
(*                                                                         *)
(* Left out: the contents of items but for their length and for what a     *)
(* summary leaves of them, what a decision says besides its calls, and the *)
(* prompt, which is the rendered context cut to its first 12000 characters *)
(* (llm_agent.py:277).                                                     *)
(***************************************************************************)
EXTENDS Naturals, Sequences, FiniteSets, ListOps

CONSTANTS
    MaxSteps,    \* runtime_limits.max_steps
    MaxChars,    \* the ContextBudget
    KeepRecent,
    MaxSummary,
    Heading,     \* the length of the kind and key of an item in a summary
    MaxCalls,    \* bound: tool calls in one decision
    Long         \* bound: the length of a long item; that of the others is 1

Ellipsis == 3    \* the length of what ends a summary that was cut

ASSUME LoopAssumption ==
    /\ {MaxSteps, MaxChars, KeepRecent, Long} \subseteq Nat \ {0}
    /\ {MaxCalls, Heading} \subseteq Nat
    /\ MaxSummary \in Nat /\ MaxSummary > Ellipsis

VARIABLES
    phase,      \* "none", "observing", "thinking", "acting", "verifying", "logging",
                \* "returned", "raised"
    items,      \* the context
    added,      \* how many items were put into it
    iteration,
    decisions,  \* what the model has decided in each iteration
    calls,      \* the tool calls of the last decision still to be carried out
    newIntents, \* what act has collected in this iteration
    newResults,
    intents,    \* all_intents, all_tool_results
    results

contextVars == <<items, added>>
loopVars == <<phase, contextVars, iteration, decisions, calls, newIntents, newResults, intents,
              results>>

-----------------------------------------------------------------------------
(* The context.  An item stands for one addition to it, or when it is a    *)
(* summary for all from the first to the last of those it was made of; it  *)
(* has their text up to that of the last whole one, and maybe a part of    *)
(* the next one's.                                                         *)

Entry(n, pinned, length) ==
    [first |-> n, last |-> n, whole |-> n, pinned |-> pinned, length |-> length]

Length(its) == Total([i \in DOMAIN its |-> its[i].length])

Pinned(its)  == Among(its, {item \in ToSet(its) : item.pinned})
Movable(its) == Among(its, {item \in ToSet(its) : ~item.pinned})

Least(m, n) == IF m < n THEN m ELSE n

\* How long the items from the first one to the n-th are as lines of a summary.
LinesTo(its, n) == Total([i \in 1..n |-> its[i].length + Heading])

\* Those whose lines are not cut.
Uncut(its) ==
    IF LinesTo(its, Len(its)) <= MaxSummary THEN DOMAIN its
    ELSE {n \in DOMAIN its : LinesTo(its, n) <= MaxSummary - Ellipsis}

\* A summary that is too long loses its end, and with it what came last.
SummaryOf(its) ==
    [first |-> its[1].first, last |-> its[Len(its)].last,
     whole |-> its[1].first - 1 + Cardinality(Uncut(its)), pinned |-> TRUE,
     length |-> Least(LinesTo(its, Len(its)), MaxSummary)]

\* MUTANT: the oldest items are kept.
CompactedOldest(its) ==
    LET movable == Movable(its)
        rest    == SubSeq(movable, KeepRecent + 1, Len(movable))
    IN  IF Length(its) <= MaxChars \/ rest = <<>> THEN its
        ELSE Pinned(its) \o <<SummaryOf(rest)>> \o SubSeq(movable, 1, KeepRecent)

\* MUTANT: items are summarised whether pinned or not.
CompactedPinned(its) ==
    LET n == Len(its) - KeepRecent
    IN  IF Length(its) <= MaxChars \/ n <= 0 THEN its
        ELSE <<SummaryOf(SubSeq(its, 1, n))>> \o SubSeq(its, n + 1, Len(its))

\* All but the recent items become one, which is pinned.
Compacted(its) ==
    LET movable == Movable(its)
        old     == SubSeq(movable, 1, Len(movable) - KeepRecent)
        keep    == SubSeq(movable, Len(old) + 1, Len(movable))
    IN  IF Length(its) <= MaxChars \/ old = <<>> THEN its
        ELSE Pinned(its) \o <<SummaryOf(old)>> \o keep

AddTo(its, length) ==
    /\ items' = Append(its, Entry(added + 1, FALSE, length))
    /\ added' = added + 1

LoopInit ==
    /\ phase = "none"
    /\ items = <<>> /\ added = 0
    /\ iteration = 0 /\ decisions = <<>>
    /\ calls = <<>> /\ newIntents = <<>> /\ newResults = <<>>
    /\ intents = <<>> /\ results = <<>>

\* AgentContextManager.build: the event; the prompt, or a note that it could not
\* be read; what the memory store finds, unless its search fails.
Build ==
    /\ phase = "none"
    /\ \E prompt \in BOOLEAN, memories \in 0..2 :
          /\ items' = Compacted(<<Entry(1, TRUE, 1), Entry(2, prompt, 1)>>
                                    \o [i \in 1..memories |-> Entry(2 + i, FALSE, Long)])
          /\ added' = 2 + memories
    /\ phase' = "observing"
    /\ UNCHANGED <<iteration, decisions, calls, newIntents, newResults, intents, results>>

-----------------------------------------------------------------------------
Observe ==
    /\ phase = "observing"
    /\ AddTo(items, 1)
    /\ phase' = "thinking"
    /\ UNCHANGED <<iteration, decisions, calls, newIntents, newResults, intents, results>>

Decisions == [decision : {"continue", "finish", "blocked"},
              calls : SeqOf({"memory", "feishu_intent"}, MaxCalls)]

\* The payload decides, or the model, for which the context is rendered.
Think ==
    /\ phase = "thinking"
    /\ \E decision \in Decisions, model \in BOOLEAN :
          /\ AddTo(IF model THEN Compacted(items) ELSE items, 1)
          /\ decisions' = Append(decisions, decision)
          /\ calls' = decision.calls
    /\ iteration' = iteration + 1
    /\ phase' = "acting"
    /\ newIntents' = <<>> /\ newResults' = <<>>
    /\ UNCHANGED <<intents, results>>

\* The model cannot be reached, or what it says is no decision.
ThinkFails ==
    /\ phase = "thinking"
    /\ \E model \in BOOLEAN : items' = IF model THEN Compacted(items) ELSE items
    /\ phase' = "raised"
    /\ UNCHANGED <<added, iteration, decisions, calls, newIntents, newResults, intents, results>>

\* A memory tool is called, and may fail, which is a result; an intent is taken
\* down.
Act ==
    /\ phase = "acting" /\ calls # <<>>
    /\ calls' = Tail(calls)
    /\ \/ /\ Head(calls) = "memory"
          /\ \E ok \in BOOLEAN : newResults' = Append(newResults, ok)
          /\ \E length \in {1, Long} : AddTo(items, length)
          /\ UNCHANGED newIntents
       \/ /\ Head(calls) = "feishu_intent"
          /\ newIntents' = Append(newIntents, <<iteration, Len(newIntents) + 1>>)
          /\ AddTo(items, 1)
          /\ UNCHANGED newResults
    /\ UNCHANGED <<phase, iteration, decisions, intents, results>>

\* MUTANT: the intents of the last iteration only.
ActEndsAnew ==
    /\ phase = "acting" /\ calls = <<>>
    /\ intents' = newIntents
    /\ results' = results \o newResults
    /\ phase' = "verifying"
    /\ UNCHANGED <<contextVars, iteration, decisions, calls, newIntents, newResults>>

ActEnds ==
    /\ phase = "acting" /\ calls = <<>>
    /\ intents' = intents \o newIntents
    /\ results' = results \o newResults
    /\ phase' = "verifying"
    /\ UNCHANGED <<contextVars, iteration, decisions, calls, newIntents, newResults>>

\* MUTANT: an agent that is blocked waits.
VerifyWaiting ==
    /\ phase = "verifying"
    /\ decisions[iteration].decision # "blocked"
    /\ phase' = IF decisions[iteration].decision = "finish" \/ iteration = MaxSteps
                THEN "logging" ELSE "thinking"
    /\ UNCHANGED <<contextVars, iteration, decisions, calls, newIntents, newResults, intents,
                   results>>

\* MUTANT: one more step than there are.
VerifyBeyond ==
    /\ phase = "verifying"
    /\ phase' = IF decisions[iteration].decision # "continue" \/ iteration > MaxSteps
                THEN "logging" ELSE "thinking"
    /\ UNCHANGED <<contextVars, iteration, decisions, calls, newIntents, newResults, intents,
                   results>>

\* A failed result is noted, and the loop goes on as decided.
Verify ==
    /\ phase = "verifying"
    /\ phase' = IF decisions[iteration].decision # "continue" \/ iteration = MaxSteps
                THEN "logging" ELSE "thinking"
    /\ UNCHANGED <<contextVars, iteration, decisions, calls, newIntents, newResults, intents,
                   results>>

\* The output says success, whether the agent was blocked or ran out of steps.
Log ==
    /\ phase = "logging"
    /\ AddTo(items, 1)
    /\ phase' = "returned"
    /\ UNCHANGED <<iteration, decisions, calls, newIntents, newResults, intents, results>>

LoopStep == Observe \/ Think \/ Act \/ ActEnds \/ Verify \/ Log

LoopNext == Build \/ LoopStep \/ ThinkFails

LoopSpec == LoopInit /\ [][LoopNext]_loopVars /\ WF_loopVars(LoopStep)

-----------------------------------------------------------------------------
LoopTypeOK ==
    /\ phase \in {"none", "observing", "thinking", "acting", "verifying", "logging",
                  "returned", "raised"}
    /\ items \in Seq([first : Nat, last : Nat, whole : Nat, pinned : BOOLEAN, length : Nat])
    /\ added \in Nat
    /\ iteration \in 0..MaxSteps /\ decisions \in Seq(Decisions) /\ Len(decisions) = iteration
    /\ newResults \in Seq(BOOLEAN) /\ results \in Seq(BOOLEAN)

\* However often the context is compacted, each addition to it has gone into one
\* item or summary, in the order of the additions, and the recent ones are items.
EachInOrder ==
    /\ \A i \in DOMAIN items :
          /\ items[i].first = IF i = 1 THEN 1 ELSE items[i - 1].last + 1
          /\ items[i].last \in items[i].first..added
          /\ items[i].last > added - KeepRecent => items[i].first = items[i].last
    /\ added > 0 => items[Len(items)].last = added

\* Text is lost only where a summary was cut, which then has the length allowed:
\* never that of the event or of a recent addition, nor from its beginning.
OnlySummariesCut ==
    /\ \A i \in DOMAIN items :
          /\ items[i].whole \in (items[i].first - 1)..items[i].last
          /\ items[i].whole < items[i].last =>
                /\ items[i].pinned /\ items[i].length = MaxSummary
                /\ items[i].last <= added - KeepRecent
    /\ added > 0 => items[1].last = 1 /\ items[1].whole = 1

IntentsOf(n) == Among(decisions[n].calls, {"feishu_intent"})

\* What an agent returns is every intent it decided on, in each iteration, and
\* once, whatever failed in between; and the results of all its memory calls.
AllIntentsReturned ==
    phase = "returned" =>
        /\ ToSet(intents) = {p \in (1..iteration) \X (1..MaxCalls) : p[2] <= Len(IntentsOf(p[1]))}
        /\ \A i \in 2..Len(intents) :
              LET m == intents[i - 1]
                  n == intents[i]
              IN  m[1] < n[1] \/ (m[1] = n[1] /\ m[2] < n[2])
        /\ Len(intents) + Len(results) =
               Total([i \in DOMAIN decisions |-> Len(decisions[i].calls)])

\* However often its context is compacted and whichever of its calls fail, an
\* agent forgets only what a full summary had no room for, nothing recent and
\* never its event; and what it decided and got in a run is returned in full.
ForgetsOnlyTheOld == LoopTypeOK /\ EachInOrder /\ OnlySummariesCut /\ AllIntentsReturned

\* A run ends although the model never decides to.
RunEndsInTime == phase # "none" ~> phase \in {"returned", "raised"}

=============================================================================
