----------------------------- MODULE FeishuApi -----------------------------
(***************************************************************************)
(* feishu_adapter.feishu_client: how a handler of a Feishu tool, running   *)
(* in a thread of its own, talks to Feishu (external: the open platform    *)
(* and the HTTP client of lark-oapi).                                      *)
(*                                                                         *)
(* Feishu carries a request out or refuses it; the connection may break    *)
(* before the request arrives, which it may do later all the same, or      *)
(* after it was carried out.  A uuid or client_token makes Feishu carry    *)
(* out one of the requests that bear it.                                   *)
(***************************************************************************)
EXTENDS Naturals, Sequences, FiniteSets

CONSTANTS
    Calls,     \* the calls of tools, and the tool agent's intents
    Tokens,    \* the uuids and client_tokens that callers choose
    NoToken,   \* a request without one
    Fresh      \* a uuid4: never used before

ASSUME ApiAssumption == NoToken \notin Tokens

VARIABLES
    steps,     \* what each call does, in order
    at,        \* the next of its steps
    seen,      \* what the last list it got showed
    applied,   \* the requests that were carried out
    made,      \* the things that they made
    late       \* the requests that are still on their way

remoteVars == <<applied, made, late>>

-----------------------------------------------------------------------------
(* Requests.                                                               *)

Request(verb, kind, token) ==
    [is |-> "request", verb |-> verb, kind |-> kind, token |-> token, raises |-> TRUE]

Get(kind)         == Request("get", kind, NoToken)
List(kind)        == Request("list", kind, NoToken)
Make(kind, token) == Request("make", kind, token)
Edit(kind)        == Request("edit", kind, NoToken)
Drop(kind)        == Request("drop", kind, NoToken)

\* Sent past feishu_request: a refusal is a result like any other.
Try(request) == [request EXCEPT !.raises = FALSE]

Writes == {"make", "edit", "drop"}

Now(c)       == steps[c][at[c]]
Sent(c)      == [by |-> c, at |-> at[c]]
RequestOf(a) == steps[a.by][a.at]

-----------------------------------------------------------------------------
(* What Feishu does.  The names of fields are unique in their table.       *)

Repeated(r) == r.token \in Tokens /\ \E m \in made : m.token = r.token /\ m.kind = r.kind

MayCarryOut(a) == RequestOf(a).kind = "field" /\ RequestOf(a).verb = "make" =>
                      \A m \in made : m.kind # "field"

CarryOut(a) ==
    LET r == RequestOf(a) IN
    /\ MayCarryOut(a)
    /\ applied' = applied \cup {a}
    /\ made' = IF r.verb # "make" \/ Repeated(r) THEN made
               ELSE made \cup {[kind |-> r.kind, token |-> r.token, by |-> a.by, at |-> a.at]}

\* A request is carried out although its sender has long heard of an error.
Arrive ==
    \E a \in late :
        /\ CarryOut(a)
        /\ late' = late \ {a}
        /\ UNCHANGED <<steps, at, seen>>

-----------------------------------------------------------------------------
(* feishu_request, by its outcomes.  The handler goes on with the data of  *)
(* the reply, or the exception ends it.                                    *)

Requesting(c) == Now(c).is = "request"

Answered(c) ==
    /\ Requesting(c)
    /\ CarryOut(Sent(c))
    /\ seen' = [seen EXCEPT ![c] = IF Now(c).verb = "list"
                                   THEN {m \in made : m.kind = Now(c).kind} ELSE @]
    /\ UNCHANGED late

\* A status or a code other than 0, a body that is no JSON, or no client for
\* lack of the credentials.
Refused(c) ==
    /\ Requesting(c)
    /\ UNCHANGED <<seen, remoteVars>>

LostOnTheWay(c) ==
    /\ Requesting(c)
    /\ late' = late \cup {Sent(c)}
    /\ UNCHANGED <<seen, applied, made>>

LostReply(c) ==
    /\ Requesting(c)
    /\ CarryOut(Sent(c))
    /\ UNCHANGED <<seen, late>>

=============================================================================
