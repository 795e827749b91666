------------------------- MODULE FeishuCallsProofs -------------------------
(***************************************************************************)
(* Proofs about FeishuCalls, for any set of calls and of tokens, any       *)
(* number of workers and whatever is called at the same time: types, that  *)
(* what is announced or remembered was done, that a failure leaves a whole *)
(* or nothing, that a token makes one thing, and that a cancelled intent   *)
(* goes no further.                                                        *)
(***************************************************************************)
EXTENDS FeishuCalls, FiniteSetTheorems, SequenceTheorems, TLAPS

-----------------------------------------------------------------------------
(* Programs.                                                               *)

Things ==
    {"app", "block", "blocks", "chat", "chat message", "department", "document", "field",
     "file", "folder", "link", "manager", "member", "message", "node", "record", "records",
     "space", "table", "task", "thread message", "user", "view", "welcome"}

Requests ==
    [is : {"request"}, verb : {"get", "list"} \cup Writes, kind : Things,
     token : Tokens \cup {NoToken, Fresh}, raises : BOOLEAN]

Steps ==
    Requests \cup [is : {"check"}, holds : BOOLEAN] \cup [is : {"back", "remember", "ask"}]

IsWrite(x)   == x.is = "request" /\ x.verb \in Writes
Fails(x)     == x.is = "check" /\ ~x.holds
ReadsOnly(s) == \A i \in DOMAIN s : ~IsWrite(s[i])

\* The making of a group comes first.
GroupFirst(s) == 1 \in DOMAIN s /\ IsWrite(s[1]) /\ s[1].kind = "chat" /\ s[1].raises

\* One write at the most, but for what makes a group, and no check fails after it.
Whole(s) ==
    /\ GroupFirst(s) \/ \A i, j \in DOMAIN s : IsWrite(s[i]) /\ IsWrite(s[j]) => i = j
    /\ \A i, j \in DOMAIN s : i < j /\ IsWrite(s[i]) => ~Fails(s[j])

Kinds == {"message", "chat", "block"}

\* What the program makes of these kinds bears the token of the call.
Bears(s, token) ==
    \A i \in DOMAIN s :
        s[i].is = "request" /\ s[i].verb = "make" /\ s[i].kind \in Kinds => s[i].token = token

Program(s, token) ==
    /\ s \in Seq(Steps)
    /\ Whole(s)
    /\ token \in Tokens => Bears(s, token)

\* A program of add_field asks after a list of the fields, and makes one.
Listed(s, i) ==
    /\ i - 1 \in DOMAIN s
    /\ \/ s[i - 1] = List("field")
       \/ s[i - 1] = Back[1] /\ i - 2 \in DOMAIN s /\ s[i - 2] = List("field")

FieldProgram(s) ==
    /\ \A i \in DOMAIN s : s[i].is = "ask" => Listed(s, i)
    /\ \E i \in DOMAIN s : s[i] = Make("field", NoToken)

-----------------------------------------------------------------------------
(* The inductive invariant.                                                *)

FieldThere == \E m \in made : m.kind = "field"

ProgramOK(c) ==
    /\ Program(steps[c], uuid[c])
    /\ toolset = "fields" /\ thread[c] # "none" => FieldProgram(steps[c])
    /\ thread[c] = "none" => steps[c] = <<>> /\ at[c] = 1 /\ answer[c] = "none"

\* Where a call is, and what its caller has got.
PlaceOK(c) ==
    /\ at[c] \in 1..(Len(steps[c]) + 1)
    /\ answer[c] = "cancelled" => thread[c] \in {"running", "ended", "dropped"}
    /\ answer[c] \in {"ok", "error", "invalid"} => thread[c] = "ended"
    /\ answer[c] = "ok" => at[c] = Len(steps[c]) + 1
    /\ answer[c] = "invalid" => at[c] \in DOMAIN steps[c] /\ Fails(Now(c))

\* All requests up to where a call is were carried out, unless it jumped.
ProgressOK(c) ==
    \/ AllDone(c, at[c])
    \/ at[c] = Len(steps[c]) + 1 /\ (toolset = "fields" => FieldThere)

\* The list that a decision is made by shows fields that are there.
SeenOK(c) ==
    toolset = "fields" /\ Listed(steps[c], at[c])
        => \A m \in seen[c] : m \in made /\ m.kind = "field"

CallOK(c) == ProgramOK(c) /\ PlaceOK(c) /\ ProgressOK(c) /\ SeenOK(c)

\* A position at a request, after all the requests before it were carried out.
SentOK(a) ==
    /\ a \in Positions
    /\ a.at \in DOMAIN steps[a.by]
    /\ RequestOf(a).is = "request"
    /\ AllDone(a.by, a.at)
    /\ a.at < at[a.by] \/ (a.at = at[a.by] /\ thread[a.by] = "ended")

ToldOK(a) ==
    /\ a \in Positions
    /\ a.at \in DOMAIN steps[a.by]
    /\ AllDone(a.by, a.at)
    /\ a.at < at[a.by]

\* A thing is of a request that was carried out.
MadeOK(m) ==
    LET a == [by |-> m.by, at |-> m.at] IN
    /\ a \in applied
    /\ RequestOf(a).verb = "make" /\ RequestOf(a).kind = m.kind /\ RequestOf(a).token = m.token
    /\ m = [kind |-> m.kind, token |-> m.token, by |-> m.by, at |-> m.at]

OneOfAToken ==
    \A m, n \in made : m.token = n.token /\ m.kind = n.kind /\ m.token \in Tokens => m = n

MadeAll ==
    \A a \in applied : RequestOf(a).verb = "make" => \E m \in made : m.kind = RequestOf(a).kind

Types ==
    /\ steps \in [Calls -> Seq(Steps)]
    /\ at \in [Calls -> Nat \ {0}]
    /\ seen \in [Calls -> SUBSET made]
    /\ uuid \in [Calls -> Tokens \cup {NoToken}]
    /\ thread \in [Calls -> {"none", "loop", "queued", "running", "ended", "dropped"}]
    /\ answer \in [Calls -> {"none", "ok", "error", "invalid", "cancelled"}]

ThingsOK ==
    /\ \A m \in made : MadeOK(m)
    /\ OneOfAToken
    /\ MadeAll

IInv ==
    /\ Types
    /\ \A c \in Calls : CallOK(c)
    /\ \A a \in applied \cup late : SentOK(a)
    /\ late \cap applied = {}
    /\ \A a \in announced \cup remembered : ToldOK(a)
    /\ ThingsOK


-----------------------------------------------------------------------------
(* The programs of the tools.                                              *)

Reading(s) == s \in Seq(Steps) /\ ReadsOnly(s)
NoFails(s) == \A i \in DOMAIN s : ~Fails(s[i])

\* The steps that programs are made of.
LEMMA StepTypes ==
    /\ \A r \in Requests : Try(r) \in Requests
    /\ Requests \subseteq Steps
    /\ \A b \in BOOLEAN : [is |-> "check", holds |-> b] \in Steps
    /\ Back[1] \in Steps /\ Remember[1] \in Steps /\ EndIfSeen[1] \in Steps
    /\ Back[1].is = "back" /\ Remember[1].is = "remember" /\ EndIfSeen[1].is = "ask"
  BY DEF Request, Requests, Try, Steps, Back, Remember, EndIfSeen

\* A program of one step.
LEMMA OneStep ==
    ASSUME NEW x \in Steps
    PROVE  <<x>> \in Seq(Steps) /\ Len(<<x>>) = 1 /\ DOMAIN <<x>> = {1} /\ <<x>>[1] = x
  OBVIOUS

\* Two programs, one after the other.
LEMMA Joined ==
    ASSUME NEW s \in Seq(Steps), NEW t \in Seq(Steps)
    PROVE  /\ s \o t \in Seq(Steps)
           /\ Len(s) \in Nat /\ Len(t) \in Nat /\ Len(s \o t) = Len(s) + Len(t)
           /\ DOMAIN s = 1..Len(s) /\ DOMAIN t = 1..Len(t)
           /\ DOMAIN (s \o t) = 1..(Len(s) + Len(t))
           /\ \A i \in DOMAIN s : i \in DOMAIN (s \o t) /\ (s \o t)[i] = s[i]
           /\ \A i \in DOMAIN t :
                 Len(s) + i \in DOMAIN (s \o t) /\ (s \o t)[Len(s) + i] = t[i]
           /\ \A i \in DOMAIN (s \o t) :
                 \/ i \in DOMAIN s /\ (s \o t)[i] = s[i]
                 \/ i > Len(s) /\ i - Len(s) \in DOMAIN t /\ (s \o t)[i] = t[i - Len(s)]
<1>1. /\ s \o t \in Seq(Steps)
      /\ Len(s \o t) = Len(s) + Len(t)
      /\ \A i \in 1..(Len(s) + Len(t)) :
            (s \o t)[i] = IF i <= Len(s) THEN s[i] ELSE t[i - Len(s)]
  BY ConcatProperties
<1>2. /\ Len(s) \in Nat /\ Len(t) \in Nat
      /\ DOMAIN s = 1..Len(s) /\ DOMAIN t = 1..Len(t)
  BY LenProperties
<1>3. DOMAIN (s \o t) = 1..(Len(s) + Len(t))
  BY <1>1, LenProperties
<1> DEFINE n == Len(s)
           m == Len(t)
           u == s \o t
<1>4. /\ n \in Nat /\ m \in Nat
      /\ DOMAIN s = 1..n /\ DOMAIN t = 1..m /\ DOMAIN u = 1..(n + m)
      /\ \A i \in 1..(n + m) : u[i] = IF i <= n THEN s[i] ELSE t[i - n]
  BY <1>1, <1>2, <1>3
<1> HIDE DEF n, m, u
<1>5. \A i \in DOMAIN s : i \in DOMAIN u /\ u[i] = s[i]
  BY <1>4
<1>6. \A i \in DOMAIN t : n + i \in DOMAIN u /\ u[n + i] = t[i]
  <2> SUFFICES ASSUME NEW i \in DOMAIN t PROVE n + i \in DOMAIN u /\ u[n + i] = t[i]
    OBVIOUS
  <2>1. i \in Nat /\ i >= 1 /\ n + i \in 1..(n + m) /\ ~(n + i <= n) /\ (n + i) - n = i
    BY <1>4
  <2> QED BY <1>4, <2>1
<1>7. \A i \in DOMAIN u : \/ i \in DOMAIN s /\ u[i] = s[i]
                          \/ i > n /\ i - n \in DOMAIN t /\ u[i] = t[i - n]
  BY <1>4
<1> QED BY <1>1, <1>2, <1>3, <1>5, <1>6, <1>7 DEF n, m, u

\* What only reads does so in sequence.
LEMMA ReadConcat ==
    ASSUME NEW s, NEW t, Reading(s), Reading(t)
    PROVE  Reading(s \o t)
<1>1. s \in Seq(Steps) /\ t \in Seq(Steps) BY DEF Reading
<1> QED BY <1>1, Joined DEF Reading, ReadsOnly

\* What reads, or does nothing.
LEMMA OneReads ==
    /\ Reading(<<>>)
    /\ \A b \in BOOLEAN : Reading(Check(b))
    /\ Reading(Back) /\ Reading(Remember) /\ Reading(EndIfSeen)
    /\ \A kind \in Things : Reading(<<Get(kind)>>) /\ Reading(<<List(kind)>>)
<1>1. Reading(<<>>)
  BY EmptySeq DEF Reading, ReadsOnly
<1>2. ASSUME NEW x \in Steps, ~IsWrite(x) PROVE Reading(<<x>>)
  BY <1>2, OneStep DEF Reading, ReadsOnly
<1>3. ASSUME NEW b \in BOOLEAN PROVE Reading(Check(b))
  BY <1>2, StepTypes DEF Check, IsWrite
<1>4. Reading(Back) /\ Reading(Remember) /\ Reading(EndIfSeen)
  BY <1>2, StepTypes DEF Back, Remember, EndIfSeen, IsWrite
<1>5. ASSUME NEW kind \in Things PROVE Reading(<<Get(kind)>>) /\ Reading(<<List(kind)>>)
  <2>1. Get(kind) \in Steps /\ List(kind) \in Steps
    BY DEF Get, List, Request, Requests, Steps, Writes
  <2>2. ~IsWrite(Get(kind)) /\ ~IsWrite(List(kind))
    BY DEF Get, List, Request, IsWrite, Writes
  <2> QED BY <1>2, <2>1, <2>2
<1> QED BY <1>1, <1>3, <1>4, <1>5

\* A program that only reads.
LEMMA ReadProgram ==
    ASSUME NEW s, NEW token, Reading(s)
    PROVE  Program(s, token)
  BY DEF Reading, ReadsOnly, Program, Whole, Bears, IsWrite, Writes

\* One write, after what only reads.
LEMMA WriteLast ==
    ASSUME NEW s, NEW x \in Requests, NEW token, Reading(s),
           token \in Tokens /\ x.verb = "make" /\ x.kind \in Kinds => x.token = token
    PROVE  Program(s \o <<x>>, token)
<1> DEFINE p == s \o <<x>>
<1>1. s \in Seq(Steps) /\ x \in Steps
  BY StepTypes DEF Reading
<1>2. <<x>> \in Seq(Steps) /\ Len(<<x>>) = 1 /\ DOMAIN <<x>> = {1} /\ <<x>>[1] = x
  BY <1>1, OneStep
<1>3. /\ p \in Seq(Steps)
      /\ Len(s) \in Nat
      /\ DOMAIN p = 1..(Len(s) + 1)
      /\ \A i \in DOMAIN p : \/ i \in DOMAIN s /\ p[i] = s[i]
                             \/ i = Len(s) + 1 /\ p[i] = x
  <2>1. \A i \in DOMAIN p : \/ i \in DOMAIN s /\ p[i] = s[i]
                            \/ i - Len(s) \in DOMAIN <<x>> /\ p[i] = <<x>>[i - Len(s)]
    BY <1>1, <1>2, Joined
  <2>2. p \in Seq(Steps) /\ Len(s) \in Nat /\ DOMAIN p = 1..(Len(s) + 1)
    BY <1>1, <1>2, Joined
  <2> QED BY <1>2, <2>1, <2>2
<1> HIDE DEF p
<1>4. \A i \in DOMAIN p : IsWrite(p[i]) => i = Len(s) + 1 /\ p[i] = x
  BY <1>3 DEF Reading, ReadsOnly
<1>5. Whole(p)
  <2>1. \A i, j \in DOMAIN p : IsWrite(p[i]) /\ IsWrite(p[j]) => i = j
    BY <1>4
  <2>2. \A i, j \in DOMAIN p : ~(i < j /\ IsWrite(p[i]))
    BY <1>3, <1>4
  <2> QED BY <2>1, <2>2 DEF Whole
<1>6. token \in Tokens => Bears(p, token)
  BY <1>4 DEF Bears, IsWrite, Writes
<1> QED BY <1>3, <1>5, <1>6 DEF Program, p

\* What only reads, and does not fail, after any program.
LEMMA ReadAfter ==
    ASSUME NEW s, NEW t, NEW token, Program(s, token), Reading(t), NoFails(t)
    PROVE  Program(s \o t, token)
<1> DEFINE p == s \o t
<1>1. s \in Seq(Steps) /\ t \in Seq(Steps)
  BY DEF Program, Reading
<1>2. /\ p \in Seq(Steps)
      /\ Len(s) \in Nat /\ DOMAIN s = 1..Len(s)
      /\ DOMAIN p \subseteq Nat
      /\ \A i \in DOMAIN s : i \in DOMAIN p /\ p[i] = s[i]
      /\ \A i \in DOMAIN p : \/ i \in DOMAIN s /\ p[i] = s[i]
                             \/ i > Len(s) /\ i - Len(s) \in DOMAIN t /\ p[i] = t[i - Len(s)]
  BY <1>1, Joined
<1> HIDE DEF p
<1>3. \A i \in DOMAIN p : IsWrite(p[i]) => i \in DOMAIN s /\ p[i] = s[i]
  BY <1>2 DEF Reading, ReadsOnly
<1>4. \A i \in DOMAIN p : Fails(p[i]) => i \in DOMAIN s /\ p[i] = s[i]
  BY <1>2 DEF NoFails
<1>5. Whole(p)
  <2>1. \A i, j \in DOMAIN p : i < j /\ IsWrite(p[i]) => ~Fails(p[j])
    BY <1>3, <1>4 DEF Program, Whole
  <2>2. CASE GroupFirst(s)
    <3>1. GroupFirst(p) BY <1>2, <2>2 DEF GroupFirst
    <3> QED BY <2>1, <3>1 DEF Whole
  <2>3. CASE ~GroupFirst(s)
    <3>1. \A i, j \in DOMAIN p : IsWrite(p[i]) /\ IsWrite(p[j]) => i = j
      BY <1>3, <2>3 DEF Program, Whole
    <3> QED BY <2>1, <3>1 DEF Whole
  <2> QED BY <2>2, <2>3
<1>6. token \in Tokens => Bears(p, token)
  BY <1>3 DEF Program, Bears, IsWrite, Writes
<1> QED BY <1>2, <1>5, <1>6 DEF Program, p

\* A group that is there, and more that is done for it.
LEMMA GroupThen ==
    ASSUME NEW s, NEW x \in Requests, NEW token, Program(s, token), GroupFirst(s),
           token \in Tokens /\ x.verb = "make" /\ x.kind \in Kinds => x.token = token
    PROVE  Program(s \o <<x>>, token) /\ GroupFirst(s \o <<x>>)
<1> DEFINE p == s \o <<x>>
<1>1. s \in Seq(Steps) /\ x \in Steps
  BY StepTypes DEF Program
<1>2. <<x>> \in Seq(Steps) /\ Len(<<x>>) = 1 /\ DOMAIN <<x>> = {1} /\ <<x>>[1] = x
  BY <1>1, OneStep
<1>3. /\ p \in Seq(Steps)
      /\ \A i \in DOMAIN s : i \in DOMAIN p /\ p[i] = s[i]
      /\ \A i \in DOMAIN p : (i \in DOMAIN s /\ p[i] = s[i]) \/ p[i] = x
  <2>1. \A i \in DOMAIN p : \/ i \in DOMAIN s /\ p[i] = s[i]
                            \/ i - Len(s) \in DOMAIN <<x>> /\ p[i] = <<x>>[i - Len(s)]
    BY <1>1, <1>2, Joined
  <2>2. p \in Seq(Steps) /\ \A i \in DOMAIN s : i \in DOMAIN p /\ p[i] = s[i]
    BY <1>1, <1>2, Joined
  <2> QED BY <1>2, <2>1, <2>2
<1> HIDE DEF p
<1>4. ~Fails(x)
  BY DEF Fails, Requests
<1>5. GroupFirst(p)
  BY <1>3 DEF GroupFirst
<1>6. Whole(p)
  BY <1>3, <1>4, <1>5 DEF Program, Whole
<1>7. token \in Tokens => Bears(p, token)
  BY <1>3 DEF Program, Bears
<1> QED BY <1>3, <1>5, <1>6, <1>7 DEF Program, p

\* A handler comes back.
LEMMA ToolProgram ==
    ASSUME NEW h, NEW token, Program(h, token)
    PROVE  Program(Tool(h), token)
<1>1. NoFails(Back) /\ Reading(Back)
  BY OneReads DEF NoFails, Fails, Back
<1> QED BY <1>1, ReadAfter DEF Tool

\* Handlers of one request, and those that look at their arguments first.
LEMMA OneRequest ==
    /\ \A r \in Requests : r.token = NoToken => Program(<<r>>, NoToken)
    /\ \A r \in Requests, b \in BOOLEAN : r.token = NoToken => Program(Check(b) \o <<r>>, NoToken)
    /\ \A r \in Requests, token \in Tokens \cup {NoToken} :
          r.token = token => Program(<<r>>, token)
<1>1. ASSUME NEW r \in Requests, NEW token, r.token = token
      PROVE  Program(<<r>>, token)
  <2>1. Program(<<>> \o <<r>>, token)
    BY <1>1, OneReads, WriteLast
  <2>2. <<>> \o <<r>> = <<r>>
    BY StepTypes, OneStep, ConcatEmptySeq
  <2> QED BY <2>1, <2>2
<1>2. ASSUME NEW r \in Requests, NEW b \in BOOLEAN, r.token = NoToken
      PROVE  Program(Check(b) \o <<r>>, NoToken)
  BY <1>2, OneReads, WriteLast
<1> QED BY <1>1, <1>2

\* Requests of the handlers.
LEMMA RequestTypes ==
    ASSUME NEW kind \in Things
    PROVE  /\ Get(kind) \in Requests /\ Get(kind).token = NoToken
           /\ List(kind) \in Requests /\ List(kind).token = NoToken
           /\ Edit(kind) \in Requests /\ Edit(kind).token = NoToken
           /\ Drop(kind) \in Requests /\ Drop(kind).token = NoToken
<1> USE DEF Request, Requests, Writes
<1>1. /\ Get(kind) \in Requests /\ Get(kind).token = NoToken
      /\ List(kind) \in Requests /\ List(kind).token = NoToken
  BY DEF Get, List
<1>2. /\ Edit(kind) \in Requests /\ Edit(kind).token = NoToken
      /\ Drop(kind) \in Requests /\ Drop(kind).token = NoToken
  BY DEF Edit, Drop
<1> QED BY <1>1, <1>2

\* Those that make something.
LEMMA MakeTypes ==
    ASSUME NEW kind \in Things, NEW token \in Tokens \cup {NoToken, Fresh}
    PROVE  /\ Make(kind, token) \in Requests /\ Make(kind, token).token = token
           /\ Make(kind, token).verb = "make" /\ Make(kind, token).kind = kind
           /\ Make(kind, token).is = "request" /\ Make(kind, token).raises
           /\ Try(Make(kind, token)) \in Requests /\ Try(Make(kind, token)).token = token
           /\ Try(Make(kind, token)).is = "request"
  BY DEF Make, Try, Request, Requests, Writes

\* What there is in Feishu.
LEMMA ThingsAre ==
    /\ "app" \in Things /\ "block" \in Things /\ "blocks" \in Things /\ "chat" \in Things
    /\ "chat message" \in Things /\ "department" \in Things /\ "document" \in Things
    /\ "field" \in Things /\ "file" \in Things /\ "folder" \in Things /\ "link" \in Things
    /\ "manager" \in Things /\ "member" \in Things /\ "message" \in Things
    /\ "node" \in Things /\ "record" \in Things /\ "records" \in Things
    /\ "space" \in Things /\ "table" \in Things /\ "task" \in Things
    /\ "thread message" \in Things /\ "user" \in Things /\ "view" \in Things
    /\ "welcome" \in Things
  BY DEF Things

\* Handlers of one request that bears no token.
LEMMA Simple ==
    \A kind \in Things :
        /\ Program(<<Get(kind)>>, NoToken)
        /\ Program(<<List(kind)>>, NoToken)
        /\ Program(<<Edit(kind)>>, NoToken)
        /\ Program(<<Drop(kind)>>, NoToken)
        /\ Program(<<Make(kind, NoToken)>>, NoToken)
        /\ \A b \in BOOLEAN :
              /\ Program(Check(b) \o <<Get(kind)>>, NoToken)
              /\ Program(Check(b) \o <<Edit(kind)>>, NoToken)
              /\ Program(Check(b) \o <<Drop(kind)>>, NoToken)
              /\ Program(Check(b) \o <<Make(kind, NoToken)>>, NoToken)
<1> TAKE kind \in Things
<1>1. \A r \in {Get(kind), List(kind), Edit(kind), Drop(kind), Make(kind, NoToken)} :
          r \in Requests /\ r.token = NoToken
  BY RequestTypes, MakeTypes
<1>2. \A r \in {Get(kind), List(kind), Edit(kind), Drop(kind), Make(kind, NoToken)} :
          Program(<<r>>, NoToken) /\ \A b \in BOOLEAN : Program(Check(b) \o <<r>>, NoToken)
  BY <1>1, OneRequest
<1> QED BY <1>2

\* Every handler of feishu_bitable.
LEMMA BitablePrograms == \A h \in Bitable : Program(h, NoToken)
<1>1. Program(ParseUrl, NoToken)
  BY OneReads, ReadProgram DEF ParseUrl
<1>2. \A b \in BOOLEAN : Program(UpdateField(b), NoToken)
  BY Simple, ThingsAre DEF UpdateField
<1> QED
  BY <1>1, <1>2, Simple, ThingsAre
     DEF Bitable, CreateApp, GetApp, ListTables, CreateTable, UpdateTable, DeleteTables,
         ListFields, CreateField, DeleteField, SearchRecords, BatchGetRecords, CreateRecord,
         BatchCreateRecords, UpdateRecord, BatchUpdateRecords, DeleteRecords, ListViews,
         GetView

\* Every handler of feishu_im_group that takes no token.
LEMMA GroupPrograms == \A h \in Groups : Program(h, NoToken)
<1>1. \A given \in BOOLEAN :
          /\ Program(UpdateGroupInfo(given), NoToken)
          /\ Program(AddGroupMembers(given), NoToken)
          /\ Program(RemoveGroupMembers(given), NoToken)
          /\ Program(AddGroupManagers(given), NoToken)
          /\ Program(DeleteGroupManagers(given), NoToken)
  BY Simple, ThingsAre DEF UpdateGroupInfo, AddGroupMembers, RemoveGroupMembers,
                           AddGroupManagers, DeleteGroupManagers
<1> QED
  BY <1>1, Simple, ThingsAre
     DEF Groups, GetGroup, DeleteGroup, ListGroups, SearchGroups, ListGroupMembers, IsInGroup,
         CreateGroupShareLink

\* A handler of one request, which bears the token if there is one.
LEMMA Bearing ==
    ASSUME NEW token \in Tokens \cup {NoToken}, NEW r \in Requests,
           token \in Tokens => r.token = token
    PROVE  Program(<<r>>, token)
<1>1. Program(<<>> \o <<r>>, token)
  BY OneReads, WriteLast
<1>2. <<>> \o <<r>> = <<r>>
  BY StepTypes, OneStep, ConcatEmptySeq
<1> QED BY <1>1, <1>2

\* send_text makes a uuid of its own when it is given none.
LEMMA UuidTypes ==
    ASSUME NEW token \in Tokens \cup {NoToken}
    PROVE  /\ UuidOr(token) \in Tokens \cup {NoToken, Fresh}
           /\ token \in Tokens => UuidOr(token) = token
  BY ApiAssumption DEF UuidOr

\* Every handler of feishu_im_group that takes a token.
LEMMA GroupWithPrograms ==
    ASSUME NEW token \in Tokens \cup {NoToken}
    PROVE  \A h \in GroupsWith(token) : Program(h, token)
<1>1. Program(SendTextToUser(token), token) /\ Program(SendTextToChat(token), token)
  <2>1. /\ Make("message", UuidOr(token)) \in Requests
        /\ token \in Tokens => Make("message", UuidOr(token)).token = token
    <3>1. "message" \in Things
      BY ThingsAre
    <3>2. UuidOr(token) \in Tokens \cup {NoToken, Fresh}
      BY UuidTypes
    <3> QED BY <3>1, <3>2, UuidTypes, MakeTypes
  <2> QED BY <2>1, Bearing DEF SendTextToUser, SendTextToChat, SendText
<1>2. Program(CreateGroup(token), token) /\ GroupFirst(CreateGroup(token))
  <2>1. /\ Make("chat", token) \in Requests /\ Make("chat", token).token = token
        /\ Make("chat", token).verb = "make" /\ Make("chat", token).kind = "chat"
        /\ Make("chat", token).is = "request" /\ Make("chat", token).raises
    <3>1. "chat" \in Things
      BY ThingsAre
    <3> QED BY <3>1, MakeTypes
  <2>2. Program(CreateGroup(token), token)
    BY <2>1, Bearing DEF CreateGroup
  <2>3. GroupFirst(CreateGroup(token))
    BY <2>1, StepTypes, OneStep DEF CreateGroup, GroupFirst, IsWrite, Writes
  <2> QED BY <2>2, <2>3
<1>3. ASSUME NEW members \in BOOLEAN, NEW welcome \in BOOLEAN
      PROVE  Program(CreateGroupWithMembers(token, members, welcome), token)
  <2> DEFINE one == CreateGroup(token)
             some == IF members THEN <<Make("member", NoToken)>> ELSE <<>>
             last == IF welcome THEN <<Make("welcome", Fresh)>> ELSE <<>>
  <2>1. /\ Make("member", NoToken) \in Requests /\ Make("member", NoToken).kind = "member"
        /\ Make("welcome", Fresh) \in Requests /\ Make("welcome", Fresh).kind = "welcome"
    <3>1. "member" \in Things /\ "welcome" \in Things
      BY ThingsAre
    <3> QED BY <3>1, MakeTypes
  <2>2. /\ Make("member", NoToken).kind \notin Kinds
        /\ Make("welcome", Fresh).kind \notin Kinds
    BY <2>1 DEF Kinds
  <2>3. Program(one \o some, token) /\ GroupFirst(one \o some)
    <3>1. CASE members
      BY <1>2, <2>1, <2>2, <3>1, GroupThen
    <3>2. CASE ~members
      <4>1. one \o <<>> = one BY <1>2, ConcatEmptySeq DEF Program
      <4> QED BY <1>2, <3>2, <4>1
    <3> QED BY <3>1, <3>2
  <2> HIDE DEF one, some
  <2>4. Program((one \o some) \o last, token)
    <3>1. CASE welcome
      BY <2>1, <2>2, <2>3, <3>1, GroupThen
    <3>2. CASE ~welcome
      <4>1. (one \o some) \o <<>> = one \o some BY <2>3, ConcatEmptySeq DEF Program
      <4> QED BY <2>3, <3>2, <4>1
    <3> QED BY <3>1, <3>2
  <2> QED BY <2>4 DEF CreateGroupWithMembers, one, some, last
<1> QED BY <1>1, <1>2, <1>3 DEF GroupsWith

\* Every handler of feishu_im_message and of feishu_message_tools.
LEMMA MessagePrograms ==
    /\ \A h \in Messages : Program(h, NoToken)
    /\ \A token \in Tokens \cup {NoToken} : \A h \in MessagesWith(token) : Program(h, token)
<1>1. ASSUME NEW t \in BOOLEAN, NEW c \in BOOLEAN
      PROVE  Program(GetMessageContext(t, c), NoToken)
  <2>1. /\ Reading(GetMessage) /\ Reading(ListMessages("thread message"))
        /\ Reading(Check(c)) /\ Reading(ListMessages("chat message"))
    BY OneReads, ThingsAre DEF GetMessage, ListMessages
  <2>2. Reading(Check(c) \o ListMessages("chat message"))
    BY <2>1, ReadConcat
  <2>3. CASE t
    BY <2>1, <2>3, ReadConcat, ReadProgram DEF GetMessageContext
  <2>4. CASE ~t
    BY <2>1, <2>2, <2>4, ReadConcat, ReadProgram DEF GetMessageContext
  <2> QED BY <2>3, <2>4
<1>2. Program(BotReplyText, NoToken)
  <2>1. "message" \in Things
    BY ThingsAre
  <2>2. /\ Try(Make("message", NoToken)) \in Requests
        /\ Try(Make("message", NoToken)).token = NoToken
    BY <2>1, MakeTypes
  <2> QED BY <2>2, OneRequest DEF BotReplyText
<1>3. \A h \in Messages : Program(h, NoToken)
  <2>1. /\ Program(GetMessage, NoToken) /\ Program(ListAnyMessages, NoToken)
        /\ Program(ListChatMessages, NoToken) /\ Program(ListThreadMessages, NoToken)
    BY Simple, ThingsAre
       DEF GetMessage, ListAnyMessages, ListChatMessages, ListThreadMessages, ListMessages
  <2> QED BY <1>1, <1>2, <2>1 DEF Messages
<1>4. ASSUME NEW token \in Tokens \cup {NoToken}
      PROVE  \A h \in MessagesWith(token) : Program(h, token)
  <2>1. Make("message", token) \in Requests /\ Make("message", token).token = token
    <3>1. "message" \in Things
      BY ThingsAre
    <3> QED BY <3>1, MakeTypes
  <2>2. /\ Try(Make("message", UuidOr(token))) \in Requests
        /\ token \in Tokens => Try(Make("message", UuidOr(token))).token = token
    <3>1. "message" \in Things
      BY ThingsAre
    <3>2. UuidOr(token) \in Tokens \cup {NoToken, Fresh}
      BY UuidTypes
    <3> QED BY <3>1, <3>2, UuidTypes, MakeTypes
  <2> QED BY <2>1, <2>2, Bearing DEF MessagesWith, ReplyText, ReplyMessage, Reply, BotSendText
<1> QED BY <1>3, <1>4

\* A list, page by page.
LEMMA PagesRead ==
    /\ \A n \in Nat : Reading(FindRoot(n))
    /\ \A kind \in Things, n \in Nat : Reading(Repeat(<<List(kind)>>, n))
<1>1. ASSUME NEW n \in Nat PROVE Reading(FindRoot(n))
  <2>1. List("block") \in Steps /\ ~IsWrite(List("block"))
    BY RequestTypes, StepTypes, ThingsAre DEF List, Request, IsWrite, Writes
  <2>2. FindRoot(n) \in [1..n -> Steps]
    BY <2>1 DEF FindRoot
  <2>3. FindRoot(n) \in Seq(Steps)
    BY <2>2, SeqDef
  <2> QED BY <2>1, <2>3 DEF Reading, ReadsOnly, FindRoot
<1>2. ASSUME NEW kind \in Things, NEW n \in Nat PROVE Reading(Repeat(<<List(kind)>>, n))
  <2> DEFINE h == <<List(kind)>>
             k == 2 * n
  <2>1. List(kind) \in Steps /\ ~IsWrite(List(kind))
    BY RequestTypes, StepTypes DEF List, Request, IsWrite, Writes
  <2>2. h[1] = List(kind)
    BY <2>1, OneStep
  <2>3. Back[1] \in Steps /\ ~IsWrite(Back[1])
    BY StepTypes DEF IsWrite
  <2>4. k \in Nat OBVIOUS
  <2> HIDE DEF h, k
  <2>5. Repeat(h, n) = [i \in 1..k |-> IF i % 2 = 1 THEN h[1] ELSE Back[1]]
    BY DEF Repeat, k
  <2>6. Repeat(h, n) \in [1..k -> Steps]
    BY <2>1, <2>2, <2>3, <2>5
  <2>7. Repeat(h, n) \in Seq(Steps)
    BY <2>4, <2>6, SeqDef
  <2> QED BY <2>1, <2>2, <2>3, <2>5, <2>7 DEF Reading, ReadsOnly, h
<1> QED BY <1>1, <1>2

\* Every handler of feishu_docx.
LEMMA DocumentPrograms ==
    /\ \A h \in Documents : Program(h, NoToken)
    /\ \A token \in Tokens \cup {NoToken} : \A h \in DocumentsWith(token) : Program(h, token)
<1>1. \A n \in 1..RootPages : Reading(FindRoot(n))
  BY PagesRead, ToolsAssumption
<1>2. \A n \in 1..RootPages : Program(GetRootBlock(n), NoToken)
  BY <1>1, ReadProgram DEF GetRootBlock
<1>3. \A h \in Documents : Program(h, NoToken)
  BY <1>2, Simple, ThingsAre
     DEF Documents, CreateDocument, GetDocument, GetRawContent, ListBlocks, GetBlock,
         ListChildBlocks, UpdateBlock, UpdateTextBlock, BatchUpdateBlocks, DeleteChildBlocks
<1>4. ASSUME NEW token \in Tokens \cup {NoToken}
      PROVE  \A h \in DocumentsWith(token) : Program(h, token)
  <2>1. Make("block", token) \in Requests /\ Make("block", token).token = token
    <3>1. "block" \in Things
      BY ThingsAre
    <3> QED BY <3>1, MakeTypes
  <2>2. \A n \in 1..RootPages : Program(AppendText(n, token), token)
    BY <1>1, <2>1, WriteLast DEF AppendText, CreateBlocks
  <2>3. Program(CreateTextBlocks(token), token)
    BY <2>1, Bearing DEF CreateTextBlocks, CreateBlocks
  <2> QED BY <2>2, <2>3 DEF DocumentsWith
<1> QED BY <1>3, <1>4

\* Every handler of feishu_wiki, of feishu_drive and of feishu_contact.
LEMMA WikiPrograms ==
    /\ \A h \in WikiAndDrive : Program(h, NoToken)
    /\ \A h \in Contacts : Program(h, NoToken)
<1>1. \A given \in BOOLEAN :
          /\ Program(CreateNode(given), NoToken) /\ Program(MoveNode(given), NoToken)
          /\ Program(CopyNode(given), NoToken) /\ Program(BatchGetUserId(given), NoToken)
  BY Simple, ThingsAre DEF CreateNode, MoveNode, CopyNode, BatchGetUserId
<1>2. ASSUME NEW action, NEW target \in BOOLEAN
      PROVE  Program(MoveOrDeleteFolder(action, target), NoToken)
  <2> DEFINE first == action = "move" => target
             second == action \in {"move", "delete"}
  <2>1. Reading(Check(first)) /\ Reading(Check(second))
    <3>1. first \in BOOLEAN /\ second \in BOOLEAN OBVIOUS
    <3> QED BY <3>1, OneReads
  <2>2. Reading(Check(first) \o Check(second))
    BY <2>1, ReadConcat
  <2>3. Make("task", NoToken) \in Requests /\ Make("task", NoToken).token = NoToken
    <3>1. "task" \in Things
      BY ThingsAre
    <3> QED BY <3>1, MakeTypes
  <2> HIDE DEF first, second
  <2>4. Program((Check(first) \o Check(second)) \o <<Make("task", NoToken)>>, NoToken)
    BY <2>2, <2>3, WriteLast
  <2> QED BY <2>4 DEF MoveOrDeleteFolder, first, second
<1>3. \A h \in WikiAndDrive : Program(h, NoToken)
  <2>1. /\ Program(ListSpaces, NoToken) /\ Program(GetSpace, NoToken)
        /\ Program(ListNodes, NoToken) /\ Program(GetNode, NoToken)
        /\ Program(UpdateNodeTitle, NoToken) /\ Program(MoveDriveDocToWiki, NoToken)
        /\ Program(GetTask, NoToken) /\ Program(ListFolder, NoToken)
        /\ Program(GetFolderMeta, NoToken) /\ Program(CreateFolder, NoToken)
        /\ Program(TaskCheck, NoToken)
    BY Simple, ThingsAre
       DEF ListSpaces, GetSpace, ListNodes, GetNode, UpdateNodeTitle, MoveDriveDocToWiki,
           GetTask, ListFolder, GetFolderMeta, CreateFolder, TaskCheck
  <2> SUFFICES ASSUME NEW h \in WikiAndDrive PROVE Program(h, NoToken)
    OBVIOUS
  <2>2. CASE \E given \in BOOLEAN : h \in {CreateNode(given), MoveNode(given), CopyNode(given)}
    BY <1>1, <2>2
  <2>3. CASE \E a \in {"move", "delete", "other"}, t \in BOOLEAN : h = MoveOrDeleteFolder(a, t)
    BY <1>2, <2>3
  <2> QED BY <2>1, <2>2, <2>3 DEF WikiAndDrive
<1>4. \A h \in Contacts : Program(h, NoToken)
  BY <1>1, Simple, ThingsAre
     DEF Contacts, GetUser, GetDepartment, ListChildDepartments, ListParentDepartments,
         ListUsersByDepartment
<1> QED BY <1>3, <1>4

\* A program of two steps.
LEMMA TwoSteps ==
    ASSUME NEW x \in Steps, NEW y \in Steps
    PROVE  <<x>> \o <<y>> = <<x, y>>
<1>1. /\ <<x>> \o <<y>> \in Seq(Steps) /\ Len(<<x>> \o <<y>>) = 2
      /\ (<<x>> \o <<y>>)[1] = x /\ (<<x>> \o <<y>>)[2] = y
  <2>1. /\ <<x>> \in Seq(Steps) /\ Len(<<x>>) = 1 /\ <<x>>[1] = x
        /\ <<y>> \in Seq(Steps) /\ Len(<<y>>) = 1 /\ <<y>>[1] = y
    BY OneStep
  <2> QED BY <2>1, ConcatProperties
<1>2. <<x, y>> \in Seq(Steps) /\ Len(<<x, y>>) = 2 /\ <<x, y>>[1] = x /\ <<x, y>>[2] = y
  OBVIOUS
<1>3. \A i \in 1..2 : (<<x>> \o <<y>>)[i] = <<x, y>>[i]
  BY <1>1, <1>2
<1> QED BY <1>1, <1>2, <1>3, SeqEqual

\* A field that is asked for after a list of the fields, and made.
LEMMA AddFieldProgram ==
    ASSUME NEW given \in BOOLEAN, NEW found \in BOOLEAN, NEW named \in BOOLEAN,
           NEW verify \in BOOLEAN
    PROVE  /\ Program(AddField(given, found, named, verify), NoToken)
           /\ FieldProgram(AddField(given, found, named, verify))
<1> DEFINE p1 == ResolveTable(given, found) \o Check(named)
           p2 == p1 \o Tool(ListFields)
           p3 == p2 \o EndIfSeen
           mk == Tool(CreateField)
           p4 == p3 \o mk
           vf == IF verify THEN Tool(ListFields) ELSE <<>>
           list == Tool(ListFields)
           noAsk(s) == \A i \in DOMAIN s : s[i].is # "ask"
<1>0. "field" \in Things /\ "table" \in Things
  BY ThingsAre
<1>1. Reading(p1) /\ noAsk(p1)
  <2>1. /\ Reading(<<List("table")>>) /\ Reading(Back) /\ Reading(Check(found))
        /\ Reading(Check(named)) /\ Reading(<<>>)
    BY <1>0, OneReads
  <2>2. /\ noAsk(<<List("table")>>) /\ noAsk(Back) /\ noAsk(Check(found))
        /\ noAsk(Check(named)) /\ noAsk(<<>>)
    BY DEF List, Request, Back, Check
  <2>3. ASSUME NEW s, NEW t, Reading(s), Reading(t), noAsk(s), noAsk(t)
        PROVE  Reading(s \o t) /\ noAsk(s \o t)
    <3>1. s \in Seq(Steps) /\ t \in Seq(Steps) BY <2>3 DEF Reading
    <3>2. \A i \in DOMAIN (s \o t) :
              \/ i \in DOMAIN s /\ (s \o t)[i] = s[i]
              \/ i - Len(s) \in DOMAIN t /\ (s \o t)[i] = t[i - Len(s)]
      BY <3>1, Joined
    <3>3. noAsk(s \o t) BY <2>3, <3>2
    <3> QED BY <2>3, <3>3, ReadConcat
  <2> HIDE DEF noAsk
  <2>4. Reading(<<List("table")>> \o Back) /\ noAsk(<<List("table")>> \o Back)
    BY <2>1, <2>2, <2>3
  <2>5. /\ Reading((<<List("table")>> \o Back) \o Check(found))
        /\ noAsk((<<List("table")>> \o Back) \o Check(found))
    BY <2>1, <2>2, <2>3, <2>4
  <2>6. Reading(ResolveTable(given, found)) /\ noAsk(ResolveTable(given, found))
    BY <2>1, <2>2, <2>5 DEF ResolveTable, Tool, ListTables
  <2> QED BY <2>1, <2>2, <2>3, <2>6
<1>2. /\ list = <<List("field"), Back[1]>> /\ Reading(list) /\ NoFails(list) /\ noAsk(list)
      /\ Len(list) = 2 /\ DOMAIN list = 1..2 /\ list[1] = List("field") /\ list[2] = Back[1]
  <2>1. list = <<List("field"), Back[1]>>
    <3>1. List("field") \in Steps /\ Back[1] \in Steps
      BY <1>0, RequestTypes, StepTypes
    <3>2. Back = <<Back[1]>> BY DEF Back
    <3> QED BY <3>1, <3>2, TwoSteps DEF Tool, ListFields
  <2>2. Reading(list)
    BY <1>0, OneReads, ReadConcat DEF Tool, ListFields
  <2>3. NoFails(list) /\ noAsk(list)
    BY <2>1 DEF NoFails, Fails, List, Request, Back
  <2> QED BY <2>1, <2>2, <2>3
<1>3. /\ mk = <<Make("field", NoToken), Back[1]>> /\ noAsk(mk) /\ mk \in Seq(Steps)
      /\ Len(mk) = 2 /\ DOMAIN mk = 1..2 /\ mk[1] = Make("field", NoToken)
  <2>1. mk = <<Make("field", NoToken), Back[1]>>
    <3>1. Make("field", NoToken) \in Steps /\ Back[1] \in Steps
      BY <1>0, MakeTypes, StepTypes
    <3>2. Back = <<Back[1]>> BY DEF Back
    <3> QED BY <3>1, <3>2, TwoSteps DEF Tool, CreateField
  <2>2. noAsk(mk)
    BY <2>1 DEF Make, Request, Back
  <2>3. Make("field", NoToken) \in Steps /\ Back[1] \in Steps
    BY <1>0, MakeTypes, StepTypes
  <2> QED BY <2>1, <2>2, <2>3
<1> HIDE DEF p1, list, mk
<1>4. Reading(p2) /\ Reading(p3)
  <2>1. Reading(p2) BY <1>1, <1>2, ReadConcat DEF list
  <2> QED BY <2>1, OneReads, ReadConcat
<1>5. Program(p4, NoToken)
  <2>1. Make("field", NoToken) \in Requests /\ Make("field", NoToken).token = NoToken
    BY <1>0, MakeTypes
  <2>2. Program(p3 \o CreateField, NoToken)
    BY <1>4, <2>1, WriteLast DEF CreateField
  <2>3. Program((p3 \o CreateField) \o Back, NoToken)
    BY <2>2, ToolProgram DEF Tool
  <2>4. (p3 \o CreateField) \o Back = p4
    <3>1. p3 \in Seq(Steps) /\ CreateField \in Seq(Steps) /\ Back \in Seq(Steps)
      BY <1>0, <1>4, OneReads, MakeTypes, StepTypes, OneStep DEF Reading, CreateField
    <3>2. mk = CreateField \o Back BY DEF mk, Tool
    <3> HIDE DEF p3
    <3>3. (p3 \o CreateField) \o Back = p3 \o (CreateField \o Back)
      BY <3>1, ConcatAssociative
    <3> QED BY <3>2, <3>3
  <2> QED BY <2>3, <2>4
<1>6. Reading(vf) /\ NoFails(vf) /\ noAsk(vf)
  BY <1>2, OneReads DEF NoFails, list
<1> HIDE DEF vf
<1>7. Program(p4 \o vf, NoToken)
  BY <1>5, <1>6, ReadAfter
<1>8. AddField(given, found, named, verify) = p4 \o vf
  BY DEF AddField, p1, mk, vf
<1> SUFFICES FieldProgram(p4 \o vf)
  BY <1>7, <1>8
<1>9. /\ p1 \in Seq(Steps) /\ list \in Seq(Steps) /\ EndIfSeen \in Seq(Steps)
      /\ mk \in Seq(Steps) /\ vf \in Seq(Steps)
      /\ p2 \in Seq(Steps) /\ p3 \in Seq(Steps) /\ p4 \in Seq(Steps)
  BY <1>1, <1>2, <1>3, <1>4, <1>5, <1>6, OneReads DEF Reading, Program
<1> DEFINE n == Len(p1)
<1>10. n \in Nat /\ Len(list) = 2
  BY <1>9, <1>2, LenProperties
<1>11. /\ Len(p2) = n + 2 /\ DOMAIN p2 = 1..(n + 2)
       /\ p2[n + 1] = List("field") /\ p2[n + 2] = Back[1]
       /\ noAsk(p2)
  <2>1. p2 = p1 \o list BY DEF list
  <2> HIDE DEF p2, n
  <2>2. /\ DOMAIN p2 = 1..(n + 2) /\ Len(p2) = n + 2
        /\ \A i \in DOMAIN list : p2[n + i] = list[i]
        /\ \A i \in DOMAIN p2 : \/ i \in DOMAIN p1 /\ p2[i] = p1[i]
                                \/ i - n \in DOMAIN list /\ p2[i] = list[i - n]
    <3>1. /\ DOMAIN p2 = 1..(Len(p1) + Len(list)) /\ Len(p2) = Len(p1) + Len(list)
          /\ \A i \in DOMAIN list : p2[Len(p1) + i] = list[i]
          /\ \A i \in DOMAIN p2 : \/ i \in DOMAIN p1 /\ p2[i] = p1[i]
                                  \/ i - Len(p1) \in DOMAIN list /\ p2[i] = list[i - Len(p1)]
      <4>1. p1 \in Seq(Steps) /\ list \in Seq(Steps)
        BY <1>9
      <4>2. /\ DOMAIN (p1 \o list) = 1..(Len(p1) + Len(list))
            /\ Len(p1 \o list) = Len(p1) + Len(list)
            /\ \A i \in DOMAIN list : (p1 \o list)[Len(p1) + i] = list[i]
            /\ \A i \in DOMAIN (p1 \o list) :
                  \/ i \in DOMAIN p1 /\ (p1 \o list)[i] = p1[i]
                  \/ i - Len(p1) \in DOMAIN list /\ (p1 \o list)[i] = list[i - Len(p1)]
        BY <4>1, Joined
      <4> QED BY <2>1, <4>2
    <3> QED BY <1>10, <3>1 DEF n
  <2>3. p2[n + 1] = List("field") /\ p2[n + 2] = Back[1]
    BY <1>2, <2>2
  <2>4. noAsk(p2) BY <1>1, <1>2, <2>2
  <2> QED BY <2>2, <2>3, <2>4
<1> HIDE DEF p2
<1>12. /\ Len(p3) = n + 3 /\ DOMAIN p3 = 1..(n + 3)
       /\ p3[n + 1] = List("field") /\ p3[n + 2] = Back[1]
       /\ \A i \in DOMAIN p3 : p3[i].is = "ask" => i = n + 3
  <2>1. Len(EndIfSeen) = 1 /\ DOMAIN EndIfSeen = 1..1
    BY DEF EndIfSeen
  <2>2. /\ DOMAIN p3 = 1..((n + 2) + 1) /\ Len(p3) = (n + 2) + 1
        /\ \A i \in DOMAIN p2 : p3[i] = p2[i]
        /\ \A i \in DOMAIN p3 : \/ i \in DOMAIN p2 /\ p3[i] = p2[i]
                                \/ i - (n + 2) \in DOMAIN EndIfSeen
    <3>1. /\ DOMAIN p3 = 1..(Len(p2) + Len(EndIfSeen))
          /\ Len(p3) = Len(p2) + Len(EndIfSeen)
          /\ \A i \in DOMAIN p2 : p3[i] = p2[i]
          /\ \A i \in DOMAIN p3 : \/ i \in DOMAIN p2 /\ p3[i] = p2[i]
                                  \/ i - Len(p2) \in DOMAIN EndIfSeen
      BY <1>9, Joined
    <3> QED BY <1>11, <2>1, <3>1
  <2>3. p3[n + 1] = List("field") /\ p3[n + 2] = Back[1]
    BY <1>10, <1>11, <2>2
  <2>4. \A i \in DOMAIN p3 : p3[i].is = "ask" => i = n + 3
    BY <1>10, <1>11, <2>1, <2>2
  <2> QED BY <1>10, <2>2, <2>3, <2>4
<1> HIDE DEF p3
<1>13. /\ Len(p4) = n + 5 /\ DOMAIN p4 = 1..(n + 5)
       /\ p4[n + 1] = List("field") /\ p4[n + 2] = Back[1]
       /\ p4[n + 4] = Make("field", NoToken)
       /\ \A i \in DOMAIN p4 : p4[i].is = "ask" => i = n + 3
  <2>2. /\ DOMAIN p4 = 1..((n + 3) + 2) /\ Len(p4) = (n + 3) + 2
        /\ \A i \in DOMAIN p3 : p4[i] = p3[i]
        /\ \A i \in DOMAIN mk : p4[(n + 3) + i] = mk[i]
        /\ \A i \in DOMAIN p4 : \/ i \in DOMAIN p3 /\ p4[i] = p3[i]
                                \/ i - (n + 3) \in DOMAIN mk /\ p4[i] = mk[i - (n + 3)]
    BY <1>3, <1>9, <1>12, Joined
  <2>3. p4[n + 1] = List("field") /\ p4[n + 2] = Back[1]
    BY <1>10, <1>12, <2>2
  <2>4. p4[(n + 3) + 1] = Make("field", NoToken)
    BY <1>3, <2>2
  <2>5. \A i \in DOMAIN p4 : p4[i].is = "ask" => i = n + 3
    BY <1>3, <1>12, <2>2
  <2> QED BY <1>10, <2>2, <2>3, <2>4, <2>5
<1> HIDE DEF p4
<1>14. /\ n + 1 \in DOMAIN (p4 \o vf) /\ n + 2 \in DOMAIN (p4 \o vf)
       /\ n + 4 \in DOMAIN (p4 \o vf)
       /\ (p4 \o vf)[n + 1] = List("field") /\ (p4 \o vf)[n + 2] = Back[1]
       /\ (p4 \o vf)[n + 4] = Make("field", NoToken)
       /\ \A i \in DOMAIN (p4 \o vf) : (p4 \o vf)[i].is = "ask" => i = n + 3
  <2>1. /\ \A i \in DOMAIN p4 : i \in DOMAIN (p4 \o vf) /\ (p4 \o vf)[i] = p4[i]
        /\ \A i \in DOMAIN (p4 \o vf) :
              \/ i \in DOMAIN p4 /\ (p4 \o vf)[i] = p4[i]
              \/ i - Len(p4) \in DOMAIN vf /\ (p4 \o vf)[i] = vf[i - Len(p4)]
    BY <1>9, Joined
  <2>2. \A i \in DOMAIN (p4 \o vf) : (p4 \o vf)[i].is = "ask" => i = n + 3
    BY <1>6, <1>13, <2>1
  <2>3. n + 1 \in DOMAIN p4 /\ n + 2 \in DOMAIN p4 /\ n + 4 \in DOMAIN p4
    BY <1>10, <1>13
  <2> QED BY <1>13, <2>1, <2>2, <2>3
<1>15. (n + 3) - 1 = n + 2 /\ (n + 3) - 2 = n + 1
  BY <1>10
<1> QED BY <1>14, <1>15 DEF FieldProgram, Listed

\* An inspection only reads.
LEMMA InspectProgram ==
    ASSUME NEW given \in BOOLEAN, NEW pages \in Nat, NEW space \in BOOLEAN, NEW app \in BOOLEAN,
           NEW schemas \in Nat, NEW keep \in BOOLEAN
    PROVE  Program(Inspect(given, pages, space, app, schemas, keep), NoToken)
<1>1. /\ Reading(Check(space)) /\ Reading(Check(app)) /\ Reading(Remember)
      /\ Reading(<<>>) /\ Reading(Back)
  BY OneReads
<1>2. Reading(Tool(ListTables)) /\ Reading(Tool(ListFields))
  BY <1>1, OneReads, ThingsAre, ReadConcat DEF Tool, ListTables, ListFields
<1>3. /\ Reading(Repeat(ListSpaces, pages)) /\ Reading(Repeat(ListNodes, pages))
      /\ Reading(Repeat(ListFields, schemas)) /\ Reading(Repeat(SearchRecords, pages))
  BY PagesRead, ThingsAre DEF ListSpaces, ListNodes, ListFields, SearchRecords
<1>4. Reading(FindApp(given, pages, space, app))
  <2>1. Reading(Repeat(ListSpaces, pages) \o Check(space))
    BY <1>1, <1>3, ReadConcat
  <2>2. Reading(Repeat(ListSpaces, pages) \o Check(space) \o Repeat(ListNodes, pages))
    BY <1>3, <2>1, ReadConcat
  <2> QED BY <1>1, <2>2, ReadConcat DEF FindApp
<1>5. Reading(ReadTable(TRUE, pages)) /\ Reading(ReadTable(FALSE, pages))
  BY <1>1, <1>2, <1>3, ReadConcat DEF ReadTable
<1> DEFINE p1 == FindApp(given, pages, space, app) \o Tool(ListTables)
           p2 == p1 \o Repeat(ListFields, schemas)
           p3 == p2 \o ReadTable(TRUE, pages)
           p4 == p3 \o (IF schemas = 0 THEN <<>> ELSE ReadTable(FALSE, pages))
           last == IF keep THEN Remember \o Remember ELSE <<>>
<1>6. Reading(p1) BY <1>2, <1>4, ReadConcat
<1>7. Reading(p2) BY <1>3, <1>6, ReadConcat
<1>8. Reading(p3) BY <1>5, <1>7, ReadConcat
<1>9. Reading(p4)
  <2>1. Reading(IF schemas = 0 THEN <<>> ELSE ReadTable(FALSE, pages))
    BY <1>1, <1>5
  <2> QED BY <1>8, <2>1, ReadConcat
<1>10. Reading(last)
  BY <1>1, ReadConcat
<1>11. Reading(p4 \o last)
  <2> HIDE DEF p4, last
  <2> QED BY <1>9, <1>10, ReadConcat
<1> QED BY <1>11, ReadProgram DEF Inspect

\* Whatever is called, it is a program.
LEMMA CalledPrograms ==
    ASSUME NEW token \in Tokens \cup {NoToken},
           NEW program \in Tokened(token) \cup (IF token = NoToken THEN Untokened ELSE {})
    PROVE  /\ Program(program, token)
           /\ toolset = "fields" => FieldProgram(program)
<1>1. CASE program \in Tokened(token)
  <2>1. \/ toolset = "groups" /\ program \in Tools(GroupsWith(token))
        \/ toolset = "messages" /\ program \in Tools(MessagesWith(token))
        \/ toolset = "documents" /\ program \in Tools(DocumentsWith(token))
    BY <1>1 DEF Tokened
  <2>2. PICK h : program = Tool(h) /\ Program(h, token)
    BY <2>1, GroupWithPrograms, MessagePrograms, DocumentPrograms DEF Tools
  <2> QED BY <2>1, <2>2, ToolProgram
<1>2. CASE token = NoToken /\ program \in AddFields
  BY <1>2, AddFieldProgram DEF AddFields
<1>3. CASE token = NoToken /\ program \in Inspects /\ toolset = "inspect"
  <2>1. /\ \A keep \in BOOLEAN : Program(Inspect(TRUE, 2, TRUE, TRUE, 0, keep), NoToken)
        /\ \A app \in BOOLEAN : Program(Inspect(FALSE, 1, TRUE, app, 2, TRUE), NoToken)
        /\ Program(Inspect(FALSE, 1, FALSE, FALSE, 2, TRUE), NoToken)
    BY InspectProgram
  <2> QED BY <1>3, <2>1 DEF Inspects
<1>4. CASE token = NoToken /\ program \in Untokened /\ toolset \notin {"fields", "inspect"}
  <2>1. \/ program \in Tools(Bitable) \/ program \in Tools(Groups)
        \/ program \in Tools(Messages) \/ program \in Tools(Documents)
        \/ program \in Tools(WikiAndDrive) \/ program \in Tools(Contacts)
    BY <1>4 DEF Untokened
  <2>2. PICK h : program = Tool(h) /\ Program(h, NoToken)
    BY <2>1, BitablePrograms, GroupPrograms, MessagePrograms, DocumentPrograms, WikiPrograms
       DEF Tools
  <2> QED BY <1>4, <2>2, ToolProgram
<1>5. ASSUME token = NoToken /\ program \in Untokened
      PROVE  \/ program \in AddFields
             \/ program \in Inspects /\ toolset = "inspect"
             \/ toolset \notin {"fields", "inspect"}
  BY <1>5 DEF Untokened
<1> QED BY <1>1, <1>2, <1>3, <1>4, <1>5

-----------------------------------------------------------------------------
(* What a step leaves as it was.                                           *)

\* What was carried out stays so.
LEMMA DoneKept ==
    ASSUME NEW c, NEW n, AllDone(c, n), steps'[c] = steps[c], applied \subseteq applied'
    PROVE  AllDone(c, n)'
  BY DEF AllDone

\* The other calls do not notice what one of them does.
LEMMA CallKept ==
    ASSUME NEW d \in Calls, CallOK(d),
           steps'[d] = steps[d], uuid'[d] = uuid[d], at'[d] = at[d], seen'[d] = seen[d],
           thread'[d] = thread[d], answer'[d] = answer[d],
           toolset' = toolset, applied \subseteq applied', made \subseteq made'
    PROVE  CallOK(d)'
<1>1. ProgramOK(d)'
  BY DEF CallOK, ProgramOK
<1>2. PlaceOK(d)'
  BY DEF CallOK, PlaceOK, Now
<1>3. ProgressOK(d)'
  <2>1. AllDone(d, at[d]) => AllDone(d, at[d])'
    BY DEF AllDone
  <2>2. FieldThere => FieldThere'
    BY DEF FieldThere
  <2> QED BY <2>1, <2>2 DEF CallOK, ProgressOK, AllDone
<1>4. SeenOK(d)'
  BY DEF CallOK, SeenOK, Listed
<1> QED BY <1>1, <1>2, <1>3, <1>4 DEF CallOK

\* No call goes back, and one that has ended stays where it is.
Forward ==
    \A d \in Calls :
        /\ at'[d] \in Nat /\ at[d] <= at'[d]
        /\ thread[d] = "ended" => thread'[d] = "ended" /\ at'[d] = at[d]

\* A request that was sent stays behind its call, or where the call ended.
LEMMA SentKept ==
    ASSUME NEW a, SentOK(a), Forward, at \in [Calls -> Nat \ {0}],
           steps'[a.by] = steps[a.by], applied \subseteq applied'
    PROVE  SentOK(a)'
<1>1. a.by \in Calls /\ a.at \in Nat
  BY DEF SentOK, Positions
<1>2. AllDone(a.by, a.at)'
  BY DEF SentOK, AllDone
<1>3. a.at < at'[a.by] \/ (a.at = at'[a.by] /\ thread'[a.by] = "ended")
  BY <1>1 DEF SentOK, Forward
<1> QED BY <1>2, <1>3 DEF SentOK, RequestOf, Positions

\* What was told of stays behind its call.
LEMMA ToldKept ==
    ASSUME NEW a, ToldOK(a), Forward, at \in [Calls -> Nat \ {0}],
           steps'[a.by] = steps[a.by], applied \subseteq applied'
    PROVE  ToldOK(a)'
<1>1. a.by \in Calls /\ a.at \in Nat
  BY DEF ToldOK, Positions
<1>2. AllDone(a.by, a.at)'
  BY DEF ToldOK, AllDone
<1>3. a.at < at'[a.by]
  BY <1>1 DEF ToldOK, Forward
<1> QED BY <1>2, <1>3 DEF ToldOK, Positions

\* What is there when nothing is carried out.
LEMMA ThingsKept ==
    ASSUME ThingsOK, UNCHANGED <<applied, made>>,
           \A a \in applied : steps'[a.by] = steps[a.by]
    PROVE  ThingsOK'
<1>1. \A m \in made : MadeOK(m)'
  BY DEF ThingsOK, MadeOK, RequestOf
<1>2. OneOfAToken'
  BY DEF ThingsOK, OneOfAToken
<1>3. MadeAll'
  BY DEF ThingsOK, MadeAll, RequestOf
<1> QED BY <1>1, <1>2, <1>3 DEF ThingsOK

\* What is there when a request is carried out.
LEMMA ThingsMade ==
    ASSUME NEW a \in Positions, ThingsOK, CarryOut(a), steps' = steps
    PROVE  /\ ThingsOK'
           /\ applied' = applied \cup {a} /\ made \subseteq made'
<1> DEFINE r == RequestOf(a)
           new == [kind |-> r.kind, token |-> r.token, by |-> a.by, at |-> a.at]
<1>1. /\ applied' = applied \cup {a}
      /\ made' = IF r.verb # "make" \/ Repeated(r) THEN made ELSE made \cup {new}
  BY DEF CarryOut
<1>2. \A b : RequestOf(b)' = RequestOf(b)
  BY DEF RequestOf
<1>3. a = [by |-> a.by, at |-> a.at]
  BY DEF Positions
<1>4. ASSUME NEW m \in made PROVE MadeOK(m)'
  BY <1>1, <1>4, <1>2 DEF ThingsOK, MadeOK
<1>0. PICK n : n = new
  OBVIOUS
<1>5. ASSUME r.verb = "make" PROVE MadeOK(n)'
  <2>1. /\ n.by = a.by /\ n.at = a.at /\ n.kind = r.kind /\ n.token = r.token
        /\ n = [kind |-> n.kind, token |-> n.token, by |-> n.by, at |-> n.at]
    BY <1>0
  <2>2. [by |-> n.by, at |-> n.at] = a
    BY <1>3, <2>1
  <2>3. a \in applied' /\ RequestOf(a)' = RequestOf(a)
    BY <1>1, <1>2
  <2> QED BY <1>5, <2>1, <2>2, <2>3 DEF MadeOK
<1>6. OneOfAToken'
  <2>1. CASE made' = made
    BY <2>1 DEF ThingsOK, OneOfAToken
  <2>2. CASE made' = made \cup {new} /\ ~Repeated(r)
    <3>1. \A m \in made : ~(m.token = new.token /\ m.kind = new.kind /\ m.token \in Tokens)
      BY <2>2 DEF Repeated
    <3> QED BY <2>2, <3>1 DEF ThingsOK, OneOfAToken
  <2> QED BY <1>1, <2>1, <2>2
<1>7. MadeAll'
  <2>1. \A b \in applied : RequestOf(b).verb = "make" =>
            \E m \in made' : m.kind = RequestOf(b).kind
    BY <1>1 DEF ThingsOK, MadeAll
  <2>2. r.verb = "make" => \E m \in made' : m.kind = r.kind
    <3>1. CASE Repeated(r)
      BY <1>1, <3>1 DEF Repeated
    <3>2. CASE ~Repeated(r)
      <4>1. r.verb = "make" => new \in made'
        BY <1>1, <3>2
      <4>2. new.kind = r.kind OBVIOUS
      <4> QED BY <4>1, <4>2
    <3> QED BY <3>1, <3>2
  <2> QED BY <1>1, <1>2, <2>1, <2>2 DEF MadeAll
<1>8. \A m \in made' : MadeOK(m)'
  BY <1>0, <1>1, <1>4, <1>5
<1> QED BY <1>1, <1>6, <1>7, <1>8 DEF ThingsOK

-----------------------------------------------------------------------------
(* The steps of a call.                                                    *)

Same(d) ==
    at'[d] = at[d] /\ seen'[d] = seen[d] /\ thread'[d] = thread[d] /\ answer'[d] = answer[d]

\* A step of call c, which may carry a request out and tell of it.
LEMMA StepOf ==
    ASSUME NEW c \in Calls, IInv, Types', UNCHANGED <<steps, uuid, toolset>>,
           \A d \in Calls \ {c} : Same(d),
           at[c] <= at'[c], thread[c] # "ended",
           applied \subseteq applied', made \subseteq made', late' \cap applied' = {},
           ThingsOK',
           thread'[c] # "none", PlaceOK(c)', ProgressOK(c)', SeenOK(c)',
           \A a \in applied' \cup late' : a \in applied \cup late \/ SentOK(a)',
           \A a \in announced' \cup remembered' : a \in announced \cup remembered \/ ToldOK(a)',
           thread[c] # "none"
    PROVE  IInv'
<1>1. ASSUME NEW d \in Calls PROVE CallOK(d)'
  <2>1. CASE d = c
    <3>1. ProgramOK(c)'
      BY DEF IInv, CallOK, ProgramOK
    <3> QED BY <2>1, <3>1 DEF CallOK
  <2>2. CASE d # c
    BY <2>2, CallKept DEF IInv, Same
  <2> QED BY <2>1, <2>2
<1>2. Forward
  <2> SUFFICES ASSUME NEW d \in Calls
               PROVE  /\ at'[d] \in Nat /\ at[d] <= at'[d]
                      /\ thread[d] = "ended" => thread'[d] = "ended" /\ at'[d] = at[d]
    BY DEF Forward
  <2>1. at[d] \in Nat /\ at'[d] \in Nat
    BY DEF IInv, Types
  <2>2. CASE d = c BY <2>1, <2>2
  <2>3. CASE d # c BY <2>1, <2>3 DEF Same
  <2> QED BY <2>2, <2>3
<1>3. at \in [Calls -> Nat \ {0}]
  BY DEF IInv, Types
<1>4. \A a \in applied' \cup late' : SentOK(a)'
  BY <1>2, <1>3, SentKept DEF IInv
<1>5. \A a \in announced' \cup remembered' : ToldOK(a)'
  BY <1>2, <1>3, ToldKept DEF IInv
<1> QED BY <1>1, <1>4, <1>5 DEF IInv

\* A step that asks nothing of Feishu and tells of nothing.
LEMMA QuietStep ==
    ASSUME NEW c \in Calls, IInv, Types', UNCHANGED <<steps, uuid, toolset, seen, remoteVars>>,
           UNCHANGED <<announced, remembered>>,
           \A d \in Calls \ {c} : Same(d),
           at[c] <= at'[c], thread[c] \notin {"none", "ended"}, thread'[c] # "none",
           PlaceOK(c)', ProgressOK(c)', SeenOK(c)'
    PROVE  IInv'
<1>1. ThingsOK'
  BY ThingsKept DEF IInv, remoteVars
<1>2. late' \cap applied' = {}
  BY DEF IInv, remoteVars
<1> QED BY <1>1, <1>2, StepOf DEF remoteVars

\* A call that stays where it is: a worker takes it, its caller goes away, or
\* it ends.
LEMMA StayStep ==
    ASSUME NEW c \in Calls, IInv, UNCHANGED <<steps, at, seen, remoteVars, toolset, uuid>>,
           UNCHANGED <<announced, remembered>>,
           NEW t \in {"loop", "queued", "running", "ended", "dropped"},
           NEW s \in {"none", "ok", "error", "invalid", "cancelled"},
           thread[c] \notin {"none", "ended"},
           thread' = [thread EXCEPT ![c] = t], answer' = [answer EXCEPT ![c] = s],
           s = "cancelled" => t \in {"running", "ended", "dropped"},
           s \in {"ok", "error", "invalid"} => t = "ended",
           s = "ok" => at[c] = Len(steps[c]) + 1,
           s = "invalid" => at[c] \in DOMAIN steps[c] /\ Fails(Now(c))
    PROVE  IInv'
<1>1. Types'
  BY DEF IInv, Types, remoteVars
<1>2. \A d \in Calls \ {c} : Same(d)
  BY DEF IInv, Types, Same
<1>3. at'[c] = at[c] /\ thread'[c] = t /\ answer'[c] = s /\ at[c] <= at'[c]
  BY DEF IInv, Types
<1>4. PlaceOK(c)'
  BY <1>3 DEF IInv, CallOK, PlaceOK, Now
<1>5. ProgressOK(c)'
  <2>1. AllDone(c, at[c]) => AllDone(c, at[c])'
    BY DEF AllDone, remoteVars
  <2>2. FieldThere => FieldThere'
    BY DEF FieldThere, remoteVars
  <2> QED BY <2>1, <2>2 DEF IInv, CallOK, ProgressOK
<1>6. SeenOK(c)'
  BY DEF IInv, CallOK, SeenOK, Listed, remoteVars
<1> QED BY <1>1, <1>2, <1>3, <1>4, <1>5, <1>6, QuietStep

\* What is known of a call before its step.
LEMMA Known ==
    ASSUME NEW c \in Calls, IInv
    PROVE  /\ steps[c] \in Seq(Steps) /\ Len(steps[c]) \in Nat
           /\ DOMAIN steps[c] = 1..Len(steps[c])
           /\ at[c] \in 1..(Len(steps[c]) + 1) /\ at[c] \in Nat /\ at[c] > 0
           /\ thread[c] \in {"none", "loop", "queued", "running", "ended", "dropped"}
           /\ answer[c] \in {"none", "ok", "error", "invalid", "cancelled"}
           /\ at[c] \in DOMAIN steps[c] => AllDone(c, at[c])
           /\ CallOK(c)
<1>1. steps[c] \in Seq(Steps)
  BY DEF IInv, Types
<1>2. Len(steps[c]) \in Nat /\ DOMAIN steps[c] = 1..Len(steps[c])
  BY <1>1, LenProperties
<1>3. CallOK(c)
  BY DEF IInv
<1>4. at[c] \in 1..(Len(steps[c]) + 1)
  BY <1>3 DEF CallOK, PlaceOK
<1>5. at[c] \in DOMAIN steps[c] => AllDone(c, at[c])
  <2> DEFINE n == Len(steps[c])
             k == at[c]
  <2>1. n \in Nat /\ (k \in 1..n => k # n + 1)
    BY <1>2
  <2> QED BY <1>2, <1>3, <2>1 DEF CallOK, ProgressOK
<1> QED BY <1>1, <1>2, <1>3, <1>4, <1>5 DEF IInv, Types

\* asyncio.to_thread.
LEMMA QueueStep == ASSUME NEW c \in Calls, IInv, Queue(c) PROVE IInv'
<1>1. thread[c] = "loop" /\ answer[c] = "none"
  BY Known DEF Queue, OnLoop, CallOK, PlaceOK
<1>2. answer' = [answer EXCEPT ![c] = "none"]
  BY <1>1 DEF Queue, outcomes, IInv, Types
<1> QED BY <1>1, <1>2, StayStep DEF Queue, outcomes

\* A worker thread takes the handler.
LEMMA TakeWorkerStep == ASSUME NEW c \in Calls, IInv, TakeWorker(c) PROVE IInv'
<1>1. thread[c] = "queued" /\ answer[c] = "none"
  BY Known DEF TakeWorker, CallOK, PlaceOK
<1>2. answer' = [answer EXCEPT ![c] = "none"]
  BY <1>1 DEF TakeWorker, outcomes, IInv, Types
<1> QED BY <1>1, <1>2, StayStep DEF TakeWorker, outcomes

\* The caller is cancelled.
LEMMA CancelStep == ASSUME NEW c \in Calls, IInv, Cancel(c) PROVE IInv'
<1>1. CASE thread[c] = "queued"
  <2>1. thread' = [thread EXCEPT ![c] = "dropped"]
    BY <1>1 DEF Cancel
  <2> QED BY <1>1, <2>1, StayStep DEF Cancel
<1>2. CASE thread[c] = "running"
  <2>1. thread' = [thread EXCEPT ![c] = "running"]
    BY <1>2 DEF Cancel, IInv, Types
  <2> QED BY <1>2, <2>1, StayStep DEF Cancel
<1> QED BY <1>1, <1>2 DEF Cancel

\* The call is answered with ok.
LEMMA ReturnStep == ASSUME NEW c \in Calls, IInv, Return(c) PROVE IInv'
<1>1. thread[c] = "loop" /\ at[c] = Len(steps[c]) + 1
  BY Known DEF Return, OnLoop
<1> QED BY <1>1, StayStep DEF Return

\* The call raises where it is, and Feishu was not heard of.
LEMMA RaiseStep ==
    ASSUME NEW c \in Calls, IInv, UNCHANGED <<steps, at, seen, remoteVars, toolset, uuid>>,
           NEW how \in {"error", "invalid"}, Raise(c, how), thread[c] \notin {"none", "ended"},
           how = "invalid" => at[c] \in DOMAIN steps[c] /\ Fails(Now(c))
    PROVE  IInv'
<1>1. answer[c] \in {"none", "cancelled"}
  BY Known DEF CallOK, PlaceOK
<1>2. CASE answer[c] = "none"
  <2>1. answer' = [answer EXCEPT ![c] = how]
    BY <1>2 DEF Raise
  <2> QED BY <2>1, StayStep DEF Raise
<1>3. CASE answer[c] = "cancelled"
  <2>1. answer' = [answer EXCEPT ![c] = "cancelled"]
    BY <1>3 DEF Raise
  <2> QED BY <2>1, StayStep DEF Raise
<1> QED BY <1>1, <1>2, <1>3

\* The next step of a call, when the one before was no request that failed.
LEMMA Onward ==
    ASSUME NEW c \in Calls, IInv, at[c] \in DOMAIN steps[c], UNCHANGED <<steps, toolset>>,
           at' = [at EXCEPT ![c] = @ + 1], applied \subseteq applied',
           Now(c).is = "request" /\ Now(c).raises => Sent(c) \in applied'
    PROVE  /\ at'[c] = at[c] + 1 /\ at'[c] \in 1..(Len(steps[c]) + 1)
           /\ at' \in [Calls -> Nat \ {0}]
           /\ ProgressOK(c)'
<1>1. at'[c] = at[c] + 1 /\ at' \in [Calls -> Nat \ {0}]
  BY DEF IInv, Types
<1> DEFINE n == Len(steps[c])
           k == at[c]
           s == steps[c]
<1>2. n \in Nat /\ k \in 1..n /\ AllDone(c, k) /\ at'[c] = k + 1
  BY <1>1, Known
<1>3. s[k].is = "request" /\ s[k].raises => [by |-> c, at |-> k] \in applied'
  BY DEF Now, Sent
<1>4. \A i \in 1..(k - 1) : s[i].is = "request" /\ s[i].raises => [by |-> c, at |-> i] \in applied'
  BY <1>2 DEF AllDone
<1> HIDE DEF n, k, s
<1>5. \A i \in 1..k : s[i].is = "request" /\ s[i].raises => [by |-> c, at |-> i] \in applied'
  <2>1. \A i \in 1..k : i = k \/ i \in 1..(k - 1)
    BY <1>2
  <2> QED BY <1>3, <1>4, <2>1
<1>6. (k + 1) - 1 = k /\ k + 1 \in 1..(n + 1)
  BY <1>2
<1>7. AllDone(c, at[c])'
  <2>1. AllDone(c, at[c])' <=>
            \A i \in 1..(at'[c] - 1) : s[i].is = "request" /\ s[i].raises
                => [by |-> c, at |-> i] \in applied'
    BY DEF AllDone, s
  <2> QED BY <1>2, <1>5, <1>6, <2>1
<1>8. at'[c] \in 1..(Len(steps[c]) + 1)
  BY <1>2, <1>6 DEF n
<1> QED BY <1>1, <1>7, <1>8 DEF ProgressOK

\* The list a call has seen, one step later.
LEMMA OnwardSeen ==
    ASSUME NEW c \in Calls, IInv, at[c] \in DOMAIN steps[c], UNCHANGED <<steps, toolset>>,
           at'[c] = at[c] + 1, made \subseteq made', seen'[c] = seen[c],
           Now(c) # List("field")
    PROVE  SeenOK(c)'
<1> SUFFICES ASSUME toolset = "fields", Listed(steps[c], at[c])'
             PROVE  \A m \in seen[c] : m \in made /\ m.kind = "field"
  BY DEF SeenOK
<1> DEFINE k == at[c]
<1>1. k \in Nat /\ k > 0 /\ (k + 1) - 1 = k /\ (k + 1) - 2 = k - 1
  <2>1. k \in Nat /\ k > 0
    BY Known
  <2> HIDE DEF k
  <2> QED BY <2>1
<1>2. k - 1 \in DOMAIN steps[c] /\ steps[c][k - 1] = List("field")
  BY <1>1 DEF Listed, Now
<1>3. Listed(steps[c], at[c])
  BY <1>2 DEF Listed
<1> QED BY <1>3 DEF IInv, CallOK, SeenOK

\* A check of the arguments.
LEMMA ValidateStep == ASSUME NEW c \in Calls, IInv, Validate(c) PROVE IInv'
<1>1. /\ thread[c] \in {"loop", "running"}
      /\ at[c] \in DOMAIN steps[c] /\ Now(c).is = "check"
  BY DEF Validate, Is
<1>2. CASE Now(c).holds
  <2>1. at' = [at EXCEPT ![c] = @ + 1] /\ UNCHANGED <<thread, answer, announced, remembered>>
    BY <1>1, <1>2 DEF Validate, Advance, outcomes
  <2>2. /\ at'[c] = at[c] + 1 /\ at'[c] \in 1..(Len(steps[c]) + 1)
        /\ at' \in [Calls -> Nat \ {0}] /\ ProgressOK(c)'
    BY <1>1, <2>1, Onward DEF Validate, remoteVars
  <2>3. SeenOK(c)'
    BY <1>1, <2>2, OnwardSeen DEF Validate, remoteVars, List, Request
  <2>4. PlaceOK(c)'
    <3>1. answer[c] \in {"none", "cancelled"}
      BY <1>1, Known DEF CallOK, PlaceOK
    <3> QED BY <1>1, <2>1, <2>2, <3>1, Known DEF CallOK, PlaceOK, Validate
  <2>5. Types' /\ \A d \in Calls \ {c} : Same(d)
    BY <2>1, <2>2 DEF IInv, Types, Same, Validate, remoteVars
  <2>6. at[c] <= at'[c]
    BY <2>2, Known
  <2> QED BY <1>1, <2>1, <2>3, <2>2, <2>4, <2>5, <2>6, QuietStep DEF Validate
<1>3. CASE ~Now(c).holds
  <2>1. UNCHANGED at /\ Raise(c, "invalid")
    BY <1>1, <1>3 DEF Validate
  <2>2. Fails(Now(c))
    BY <1>1, <1>3 DEF Fails
  <2> QED BY <1>1, <2>1, <2>2, RaiseStep DEF Validate
<1> QED BY <1>2, <1>3

\* A request that is sent.
LEMMA SentPosition ==
    ASSUME NEW c \in Calls, IInv, at[c] \in DOMAIN steps[c], thread[c] # "ended"
    PROVE  /\ Sent(c) \in Positions /\ RequestOf(Sent(c)) = Now(c)
           /\ Sent(c).by = c /\ Sent(c).at = at[c]
           /\ Sent(c) \notin applied \cup late
<1>1. Sent(c).by = c /\ Sent(c).at = at[c] /\ at[c] \in Nat
  BY Known DEF Sent
<1>2. Sent(c) \in Positions /\ RequestOf(Sent(c)) = Now(c)
  BY Known DEF Sent, Positions, RequestOf, Now
<1>3. ASSUME Sent(c) \in applied \cup late PROVE FALSE
  <2>1. SentOK(Sent(c)) BY <1>3 DEF IInv
  <2> QED BY <1>1, <2>1 DEF SentOK
<1> QED BY <1>1, <1>2, <1>3

\* What is sent is a request after all those before it.
LEMMA SentNow ==
    ASSUME NEW c \in Calls, IInv, at[c] \in DOMAIN steps[c], thread[c] # "ended",
           Now(c).is = "request", UNCHANGED steps, applied \subseteq applied',
           \/ at'[c] = at[c] + 1
           \/ at'[c] = at[c] /\ thread'[c] = "ended",
           NEW a, a = Sent(c)
    PROVE  SentOK(a)'
<1>1. /\ a \in Positions /\ RequestOf(a) = Now(c) /\ a.by = c /\ a.at = at[c]
  BY SentPosition
<1>2. AllDone(c, at[c]) /\ at[c] \in Nat
  BY Known
<1>3. AllDone(a.by, a.at)'
  BY <1>1, <1>2 DEF AllDone
<1>4. a.at < at'[c] \/ (a.at = at'[c] /\ thread'[c] = "ended")
  BY <1>1, <1>2
<1> QED BY <1>1, <1>3, <1>4 DEF SentOK, Positions, RequestOf

\* What raises, whether Feishu does what it was asked for or not.
LEMMA SendRaisesStep ==
    ASSUME NEW c \in Calls, IInv, thread[c] = "running", Is(c, "request"),
           LostOnTheWay(c) \/ LostReply(c), Raise(c, "error"), UNCHANGED at,
           UNCHANGED <<steps, toolset, uuid>>
    PROVE  IInv'
<1>1. at[c] \in DOMAIN steps[c] /\ Now(c).is = "request"
  BY DEF Is
<1>2. /\ thread' = [thread EXCEPT ![c] = "ended"]
      /\ answer' \in [Calls -> {"none", "ok", "error", "invalid", "cancelled"}]
      /\ answer'[c] \in {"error", "cancelled"}
      /\ \A d \in Calls \ {c} : answer'[d] = answer[d]
      /\ UNCHANGED <<announced, remembered>>
  BY Known DEF Raise, IInv, Types, CallOK, PlaceOK
<1>3. /\ Sent(c) \in Positions /\ RequestOf(Sent(c)) = Now(c)
      /\ Sent(c) \notin applied \cup late
  BY <1>1, SentPosition
<1>4. /\ seen' = seen /\ applied \subseteq applied' /\ made \subseteq made' /\ ThingsOK'
      /\ late' \cap applied' = {}
      /\ \A a \in applied' \cup late' : a \in applied \cup late \/ a = Sent(c)
  <2>1. CASE LostOnTheWay(c)
    <3>1. late' = late \cup {Sent(c)} /\ UNCHANGED <<seen, applied, made>>
      BY <2>1 DEF LostOnTheWay
    <3>2. ThingsOK'
      BY <3>1, ThingsKept DEF IInv
    <3> QED BY <1>3, <3>1, <3>2 DEF IInv
  <2>2. CASE LostReply(c)
    <3>1. CarryOut(Sent(c)) /\ UNCHANGED <<seen, late>>
      BY <2>2 DEF LostReply
    <3>2. PICK a : a = Sent(c)
      OBVIOUS
    <3>3. ThingsOK' /\ applied' = applied \cup {a} /\ made \subseteq made'
      BY <1>3, <3>1, <3>2, ThingsMade DEF IInv
    <3> QED BY <1>3, <3>1, <3>2, <3>3 DEF IInv
  <2> QED BY <2>1, <2>2
<1>5. Types'
  BY <1>2, <1>4 DEF IInv, Types
<1>6. \A d \in Calls \ {c} : Same(d)
  BY <1>2, <1>4 DEF Same, IInv, Types
<1>7. thread'[c] = "ended" /\ at[c] <= at'[c]
  BY <1>2, Known DEF IInv, Types
<1>8. PlaceOK(c)'
  BY <1>2, <1>7, Known DEF PlaceOK
<1>9. ProgressOK(c)'
  <2>1. AllDone(c, at[c]) BY <1>1, Known
  <2> QED BY <1>4, <2>1 DEF ProgressOK, AllDone
<1>10. SeenOK(c)'
  BY <1>4 DEF SeenOK, IInv, CallOK, Listed
<1>11. \A a \in applied' \cup late' : a \in applied \cup late \/ SentOK(a)'
  BY <1>1, <1>4, <1>7, SentNow
<1> QED BY <1>2, <1>4, <1>5, <1>6, <1>7, <1>8, <1>9, <1>10, <1>11, StepOf

\* An answer, with which the handler goes on.
LEMMA AnsweredStep ==
    ASSUME NEW c \in Calls, IInv, thread[c] = "running", Is(c, "request"),
           Answered(c), Advance(c), UNCHANGED <<thread, answer, announced, remembered>>,
           UNCHANGED <<steps, toolset, uuid>>
    PROVE  IInv'
<1>1. at[c] \in DOMAIN steps[c] /\ Now(c).is = "request"
  BY DEF Is
<1>2. PICK a : a = Sent(c)
  OBVIOUS
<1>3. a \in Positions /\ RequestOf(a) = Now(c) /\ a \notin applied \cup late
  BY <1>1, <1>2, SentPosition
<1>4. ThingsOK' /\ applied' = applied \cup {a} /\ made \subseteq made'
  BY <1>2, <1>3, ThingsMade DEF IInv, Answered
<1>5. /\ at'[c] = at[c] + 1 /\ at'[c] \in 1..(Len(steps[c]) + 1)
      /\ at' \in [Calls -> Nat \ {0}] /\ ProgressOK(c)'
  BY <1>1, <1>2, <1>4, Onward DEF Advance
<1>6. /\ seen' \in [Calls -> SUBSET made']
      /\ \A d \in Calls \ {c} : seen'[d] = seen[d]
      /\ seen'[c] = IF Now(c).verb = "list" THEN {m \in made : m.kind = Now(c).kind} ELSE seen[c]
  BY <1>4 DEF Answered, IInv, Types
<1>7. SeenOK(c)'
  <2>1. CASE Now(c).verb = "list"
    <3>1. Now(c) # Back[1]
      BY <1>1, StepTypes
    <3> SUFFICES ASSUME Listed(steps[c], at[c])'
                 PROVE  Now(c).kind = "field"
      BY <1>4, <1>6, <2>1 DEF SeenOK
    <3> DEFINE k == at[c]
    <3>2. k \in Nat
      BY Known
    <3>3. (k + 1) - 1 = k
      BY <3>2
    <3>4. steps[c][k] = List("field") \/ steps[c][k] = Back[1]
      BY <1>5, <3>3 DEF Listed
    <3> QED BY <3>1, <3>4 DEF Now, List, Request
  <2>2. CASE Now(c).verb # "list"
    <3>1. Now(c) # List("field")
      BY <2>2 DEF List, Request
    <3> QED BY <1>1, <1>4, <1>5, <1>6, <2>2, <3>1, OnwardSeen
  <2> QED BY <2>1, <2>2
<1>8. PlaceOK(c)'
  BY <1>5, Known DEF CallOK, PlaceOK
<1>9. Types' /\ \A d \in Calls \ {c} : Same(d)
  BY <1>5, <1>6 DEF IInv, Types, Same, Advance
<1>10. late' \cap applied' = {}
  BY <1>3, <1>4 DEF IInv, Answered
<1>11. \A b \in applied' \cup late' : b \in applied \cup late \/ SentOK(b)'
  BY <1>1, <1>2, <1>4, <1>5, SentNow DEF Answered
<1>12. at[c] <= at'[c]
  BY <1>5, Known
<1> QED BY <1>4, <1>5, <1>7, <1>8, <1>9, <1>10, <1>11, <1>12, StepOf

\* A refusal that the handler takes for a result.
LEMMA RefusedStep ==
    ASSUME NEW c \in Calls, IInv, thread[c] = "running", Is(c, "request"),
           Refused(c), ~Now(c).raises, Advance(c),
           UNCHANGED <<thread, answer, announced, remembered>>,
           UNCHANGED <<steps, toolset, uuid>>
    PROVE  IInv'
<1>1. at[c] \in DOMAIN steps[c] /\ Now(c).is = "request"
  BY DEF Is
<1>2. /\ at'[c] = at[c] + 1 /\ at'[c] \in 1..(Len(steps[c]) + 1)
      /\ at' \in [Calls -> Nat \ {0}] /\ ProgressOK(c)'
  BY <1>1, Onward DEF Advance, Refused, remoteVars
<1>3. Now(c) # List("field")
  BY DEF List, Request
<1>4. SeenOK(c)'
  BY <1>1, <1>2, <1>3, OnwardSeen DEF Refused, remoteVars
<1>5. PlaceOK(c)'
  BY <1>2, Known DEF CallOK, PlaceOK
<1>6. Types' /\ \A d \in Calls \ {c} : Same(d)
  BY <1>2 DEF IInv, Types, Same, Advance, Refused, remoteVars
<1>7. at[c] <= at'[c]
  BY <1>2, Known
<1> QED BY <1>2, <1>4, <1>5, <1>6, <1>7, QuietStep DEF Refused

\* A request, by its outcomes.
LEMMA SendStep == ASSUME NEW c \in Calls, IInv, Send(c) PROVE IInv'
<1>1. /\ thread[c] = "running" /\ Is(c, "request") /\ UNCHANGED <<steps, toolset, uuid>>
  BY DEF Send
<1>2. CASE /\ Answered(c) \/ (Refused(c) /\ ~Now(c).raises)
           /\ Advance(c) /\ UNCHANGED <<thread, outcomes>>
  BY <1>1, <1>2, AnsweredStep, RefusedStep DEF outcomes
<1>3. CASE /\ (Refused(c) /\ Now(c).raises) \/ LostOnTheWay(c) \/ LostReply(c)
           /\ Raise(c, "error") /\ UNCHANGED at
  <2>1. CASE Refused(c)
    BY <1>1, <1>3, <2>1, RaiseStep DEF Refused
  <2>2. CASE LostOnTheWay(c) \/ LostReply(c)
    BY <1>1, <1>3, <2>2, SendRaisesStep
  <2> QED BY <1>3, <2>1, <2>2
<1> QED BY <1>2, <1>3 DEF Send

\* A position that a call tells of when it goes on.
LEMMA ToldNow ==
    ASSUME NEW c \in Calls, IInv, at[c] \in DOMAIN steps[c], UNCHANGED steps,
           applied \subseteq applied', at'[c] = at[c] + 1, NEW a, a = Sent(c)
    PROVE  ToldOK(a)'
<1>1. a.by = c /\ a.at = at[c] /\ at[c] \in Nat /\ AllDone(c, at[c])
  BY Known DEF Sent
<1>2. a \in Positions /\ a.at \in DOMAIN steps[a.by]
  BY Known, <1>1 DEF Sent, Positions
<1>3. AllDone(a.by, a.at)'
  BY <1>1 DEF AllDone
<1> QED BY <1>1, <1>2, <1>3 DEF ToldOK, Positions

\* The handler emits its event and returns.
LEMMA ComeBackStep == ASSUME NEW c \in Calls, IInv, ComeBack(c) PROVE IInv'
<1>1. thread[c] = "running" /\ at[c] \in DOMAIN steps[c] /\ Now(c).is = "back"
  BY DEF ComeBack, Is
<1>2. /\ at'[c] = at[c] + 1 /\ at'[c] \in 1..(Len(steps[c]) + 1)
      /\ at' \in [Calls -> Nat \ {0}] /\ ProgressOK(c)'
  BY <1>1, Onward DEF ComeBack, Advance, remoteVars
<1>3. SeenOK(c)'
  BY <1>1, <1>2, OnwardSeen DEF ComeBack, remoteVars, List, Request
<1>4. thread'[c] = IF answer[c] = "cancelled" THEN "ended" ELSE "loop"
  BY DEF ComeBack, IInv, Types
<1>5. PlaceOK(c)'
  <2>1. answer[c] \in {"none", "cancelled"}
    BY <1>1, Known DEF CallOK, PlaceOK
  <2> QED BY <1>2, <1>4, <2>1 DEF PlaceOK, ComeBack
<1>6. Types' /\ \A d \in Calls \ {c} : Same(d)
  BY <1>2 DEF IInv, Types, Same, ComeBack, Advance, remoteVars
<1>7. at[c] <= at'[c]
  BY <1>2, Known
<1>8. \A a \in announced' \cup remembered' : a \in announced \cup remembered \/ ToldOK(a)'
  BY <1>1, <1>2, ToldNow DEF ComeBack, remoteVars
<1>9. ThingsOK' /\ late' \cap applied' = {}
  BY ThingsKept DEF IInv, ComeBack, remoteVars
<1>10. thread'[c] # "none"
  BY <1>4
<1> QED BY <1>1, <1>2, <1>3, <1>5, <1>6, <1>7, <1>8, <1>9, <1>10, StepOf
        DEF ComeBack, remoteVars

\* add_field ends when the list shows its field, and goes on when it does not.
LEMMA DecideStep == ASSUME NEW c \in Calls, IInv, Decide(c) PROVE IInv'
<1>1. /\ thread[c] = "loop" /\ at[c] \in DOMAIN steps[c] /\ Now(c).is = "ask"
      /\ UNCHANGED <<steps, seen, remoteVars, toolset, uuid, thread, answer, announced, remembered>>
  BY DEF Decide, Is, OnLoop, outcomes
<1>2. answer[c] = "none"
  BY <1>1, Known DEF CallOK, PlaceOK
<1>3. CASE seen[c] = {}
  <2>1. at' = [at EXCEPT ![c] = @ + 1]
    BY <1>3 DEF Decide
  <2>2. /\ at'[c] = at[c] + 1 /\ at'[c] \in 1..(Len(steps[c]) + 1)
        /\ at' \in [Calls -> Nat \ {0}] /\ ProgressOK(c)'
    BY <1>1, <2>1, Onward DEF remoteVars
  <2>3. SeenOK(c)'
    BY <1>1, <2>2, OnwardSeen DEF remoteVars, List, Request
  <2>4. PlaceOK(c)'
    BY <1>1, <1>2, <2>2 DEF PlaceOK
  <2>5. Types' /\ \A d \in Calls \ {c} : Same(d)
    BY <1>1, <2>1, <2>2 DEF IInv, Types, Same, remoteVars
  <2>6. at[c] <= at'[c]
    BY <2>2, Known
  <2> QED BY <1>1, <2>2, <2>3, <2>4, <2>5, <2>6, QuietStep
<1>4. CASE seen[c] # {}
  <2> DEFINE n == Len(steps[c])
  <2>1. at' = [at EXCEPT ![c] = n + 1]
    BY <1>4 DEF Decide
  <2>2. n \in Nat /\ at[c] \in 1..n
    BY <1>1, Known
  <2> HIDE DEF n
  <2>3. /\ at'[c] = n + 1 /\ at' \in [Calls -> Nat \ {0}] /\ at[c] <= at'[c]
        /\ at'[c] \in 1..(n + 1)
    BY <2>1, <2>2 DEF IInv, Types
  <2>4. toolset = "fields" => \A m \in seen[c] : m \in made /\ m.kind = "field"
    <3> SUFFICES ASSUME toolset = "fields" PROVE \A m \in seen[c] : m \in made /\ m.kind = "field"
      OBVIOUS
    <3>1. FieldProgram(steps[c])
      BY <1>1, Known DEF CallOK, ProgramOK
    <3>2. Listed(steps[c], at[c])
      BY <1>1, <3>1 DEF FieldProgram, Now
    <3> QED BY <3>2, Known DEF CallOK, SeenOK
  <2>5. toolset = "fields" => FieldThere
    BY <1>4, <2>4 DEF FieldThere
  <2>6. ProgressOK(c)'
    BY <1>1, <2>3, <2>5 DEF ProgressOK, FieldThere, remoteVars, n
  <2>7. SeenOK(c)'
    BY <1>1, <2>4 DEF SeenOK, remoteVars
  <2>8. PlaceOK(c)'
    BY <1>1, <1>2, <2>3 DEF PlaceOK, n
  <2>9. Types' /\ \A d \in Calls \ {c} : Same(d)
    BY <1>1, <2>1, <2>3 DEF IInv, Types, Same, remoteVars
  <2> QED BY <1>1, <2>3, <2>6, <2>7, <2>8, <2>9, QuietStep
<1> QED BY <1>3, <1>4

\* A write to the memory store.
LEMMA MemoriseStep == ASSUME NEW c \in Calls, IInv, Memorise(c) PROVE IInv'
<1>1. /\ thread[c] = "loop" /\ at[c] \in DOMAIN steps[c] /\ Now(c).is = "remember"
      /\ UNCHANGED <<steps, seen, remoteVars, toolset, uuid>>
  BY DEF Memorise, Is, OnLoop
<1>2. CASE Raise(c, "error") /\ UNCHANGED at
  BY <1>1, <1>2, RaiseStep
<1>3. CASE /\ remembered' = remembered \cup {Sent(c)}
           /\ Advance(c) /\ UNCHANGED <<thread, answer, announced>>
  <2>2. /\ at'[c] = at[c] + 1 /\ at'[c] \in 1..(Len(steps[c]) + 1)
        /\ at' \in [Calls -> Nat \ {0}] /\ ProgressOK(c)'
    BY <1>1, <1>3, Onward DEF remoteVars, Advance
  <2>3. SeenOK(c)'
    BY <1>1, <2>2, OnwardSeen DEF remoteVars, List, Request
  <2>4. PlaceOK(c)'
    <3>1. answer[c] = "none"
      BY <1>1, Known DEF CallOK, PlaceOK
    <3> QED BY <1>1, <1>3, <2>2, <3>1 DEF PlaceOK
  <2>5. Types' /\ \A d \in Calls \ {c} : Same(d)
    BY <1>1, <1>3, <2>2 DEF IInv, Types, Same, remoteVars, Advance
  <2>6. at[c] <= at'[c]
    BY <2>2, Known
  <2>7. \A a \in announced' \cup remembered' : a \in announced \cup remembered \/ ToldOK(a)'
    BY <1>1, <1>3, <2>2, ToldNow DEF remoteVars
  <2>8. ThingsOK' /\ late' \cap applied' = {}
    BY <1>1, ThingsKept DEF IInv, remoteVars
  <2> QED BY <1>1, <1>3, <2>2, <2>3, <2>4, <2>5, <2>6, <2>7, <2>8, StepOf DEF remoteVars
<1> QED BY <1>2, <1>3 DEF Memorise

\* A call that starts: until then it was nowhere.
LEMMA StartStep == ASSUME NEW c \in Calls, IInv, Start(c) PROVE IInv'
<1>1. /\ thread[c] = "none" /\ thread' = [thread EXCEPT ![c] = "loop"]
      /\ UNCHANGED <<at, seen, applied, made, late, toolset, answer, announced, remembered>>
  BY DEF Start, remoteVars, outcomes
<1>2. PICK token \in Tokens \cup {NoToken} :
      \E program \in Tokened(token) \cup (IF token = NoToken THEN Untokened ELSE {}) :
          steps' = [steps EXCEPT ![c] = program] /\ uuid' = [uuid EXCEPT ![c] = token]
  BY DEF Start
<1>3. PICK program \in Tokened(token) \cup (IF token = NoToken THEN Untokened ELSE {}) :
          steps' = [steps EXCEPT ![c] = program] /\ uuid' = [uuid EXCEPT ![c] = token]
  BY <1>2
<1>4. /\ Program(program, token) /\ (toolset = "fields" => FieldProgram(program))
      /\ program \in Seq(Steps)
  BY CalledPrograms DEF Program
<1>5. /\ steps'[c] = program /\ uuid'[c] = token /\ thread'[c] = "loop"
      /\ \A d \in Calls \ {c} : steps'[d] = steps[d] /\ uuid'[d] = uuid[d] /\ Same(d)
      /\ Types'
  BY <1>1, <1>3, <1>4 DEF IInv, Types, Same
<1>6. at[c] = 1 /\ answer[c] = "none"
  BY <1>1, Known DEF CallOK, ProgramOK
<1>7. Len(program) \in Nat
  BY <1>4, LenProperties
<1>8. CallOK(c)'
  <2>1. ProgramOK(c)'
    BY <1>1, <1>4, <1>5 DEF ProgramOK
  <2>2. PlaceOK(c)'
    BY <1>1, <1>5, <1>6, <1>7 DEF PlaceOK
  <2>3. ProgressOK(c)'
    BY <1>1, <1>6 DEF ProgressOK, AllDone
  <2>4. SeenOK(c)'
    <3>1. DOMAIN program = 1..Len(program)
      BY <1>4, LenProperties
    <3>2. 0 \notin DOMAIN program
      BY <1>7, <3>1
    <3> QED BY <1>1, <1>5, <1>6, <3>2 DEF SeenOK, Listed
  <2> QED BY <2>1, <2>2, <2>3, <2>4 DEF CallOK
<1>9. \A d \in Calls : CallOK(d)'
  BY <1>1, <1>5, <1>8, CallKept DEF IInv, Same
<1>10. Forward
  <2> SUFFICES ASSUME NEW d \in Calls
               PROVE  /\ at'[d] \in Nat /\ at[d] <= at'[d]
                      /\ thread[d] = "ended" => thread'[d] = "ended" /\ at'[d] = at[d]
    BY DEF Forward
  <2>1. at[d] \in Nat /\ at'[d] = at[d]
    BY <1>1, Known
  <2>2. thread[d] = "ended" => thread'[d] = "ended"
    BY <1>1 DEF IInv, Types
  <2> QED BY <2>1, <2>2
<1>11. \A a \in applied \cup late : a.by # c /\ a.by \in Calls
  <2> SUFFICES ASSUME NEW a \in applied \cup late, a.by = c \/ a.by \notin Calls PROVE FALSE
    OBVIOUS
  <2>1. SentOK(a) BY DEF IInv
  <2> QED BY <1>1, <1>6, <2>1 DEF SentOK, Positions
<1>12. \A a \in announced \cup remembered : a.by # c /\ a.by \in Calls
  <2> SUFFICES ASSUME NEW a \in announced \cup remembered, a.by = c \/ a.by \notin Calls
               PROVE FALSE
    OBVIOUS
  <2>1. ToldOK(a) BY DEF IInv
  <2> QED BY <1>1, <1>6, <2>1 DEF ToldOK, Positions
<1>13. at \in [Calls -> Nat \ {0}]
  BY DEF IInv, Types
<1>14. \A a \in applied' \cup late' : SentOK(a)'
  BY <1>1, <1>5, <1>10, <1>11, <1>13, SentKept DEF IInv
<1>15. \A a \in announced' \cup remembered' : ToldOK(a)'
  BY <1>1, <1>5, <1>10, <1>12, <1>13, ToldKept DEF IInv
<1>16. ThingsOK'
  BY <1>1, <1>5, <1>11, ThingsKept DEF IInv
<1> QED BY <1>1, <1>5, <1>9, <1>14, <1>15, <1>16 DEF IInv

\* A request that arrives late was sent when it was due.
LEMMA ArriveStep == ASSUME IInv, ArriveLate PROVE IInv'
<1>1. PICK a \in late : CarryOut(a) /\ late' = late \ {a} /\ UNCHANGED <<steps, at, seen>>
  BY DEF ArriveLate, Arrive
<1>2. UNCHANGED <<toolset, uuid, thread, answer, announced, remembered>>
  BY DEF ArriveLate, outcomes
<1>3. SentOK(a) /\ a \in Positions
  BY DEF IInv, SentOK
<1>4. ThingsOK' /\ applied' = applied \cup {a} /\ made \subseteq made'
  BY <1>1, <1>3, ThingsMade DEF IInv
<1>5. Types'
  BY <1>1, <1>2, <1>4 DEF IInv, Types
<1>6. \A d \in Calls : CallOK(d)'
  BY <1>1, <1>2, <1>4, CallKept DEF IInv
<1>7. Forward
  <2>1. \A d \in Calls : at[d] \in Nat /\ at[d] <= at[d]
    BY Known
  <2> QED BY <1>1, <1>2, <2>1 DEF Forward
<1>8. at \in [Calls -> Nat \ {0}]
  BY DEF IInv, Types
<1>9. \A b \in applied' \cup late' : SentOK(b)'
  BY <1>1, <1>4, <1>7, <1>8, SentKept DEF IInv
<1>10. \A b \in announced' \cup remembered' : ToldOK(b)'
  BY <1>1, <1>2, <1>4, <1>7, <1>8, ToldKept DEF IInv
<1>11. late' \cap applied' = {}
  BY <1>1, <1>4 DEF IInv
<1> QED BY <1>4, <1>5, <1>6, <1>9, <1>10, <1>11 DEF IInv

-----------------------------------------------------------------------------
(* The theorems.                                                           *)

\* Nothing has been called.
LEMMA InitIInv == Init => IInv
<1> SUFFICES ASSUME Init PROVE IInv
  OBVIOUS
<1>1. Types
  BY EmptySeq DEF Init, Types
<1>2. ASSUME NEW c \in Calls PROVE CallOK(c)
  <2>1. steps[c] = <<>> /\ Len(steps[c]) = 0 /\ DOMAIN steps[c] = {}
    BY DEF Init
  <2>2. ProgramOK(c)
    BY <2>1, OneReads, ReadProgram DEF Init, ProgramOK
  <2>3. PlaceOK(c)
    BY <2>1 DEF Init, PlaceOK
  <2>4. ProgressOK(c)
    BY <2>1 DEF Init, ProgressOK, AllDone
  <2>5. SeenOK(c)
    BY <2>1 DEF Init, SeenOK
  <2> QED BY <2>2, <2>3, <2>4, <2>5 DEF CallOK
<1>3. ThingsOK
  BY DEF Init, ThingsOK, OneOfAToken, MadeAll
<1> QED BY <1>1, <1>2, <1>3 DEF Init, IInv

\* Every step keeps the invariant.
LEMMA NextIInv == IInv /\ [Next]_vars => IInv'
<1> SUFFICES ASSUME IInv, [Next]_vars PROVE IInv'
  OBVIOUS
<1>1. ASSUME NEW c \in Calls, Start(c) PROVE IInv'
  BY <1>1, StartStep
<1>2. ASSUME NEW c \in Calls, CallStep(c) PROVE IInv'
  BY <1>2, QueueStep, TakeWorkerStep, ValidateStep, SendStep, ComeBackStep, DecideStep,
     MemoriseStep, ReturnStep DEF CallStep
<1>3. ASSUME NEW c \in Calls, Cancel(c) PROVE IInv'
  BY <1>3, CancelStep
<1>4. CASE ArriveLate
  BY <1>4, ArriveStep
<1>5. CASE UNCHANGED vars
  <2>1. UNCHANGED <<steps, at, seen, applied, made, late, toolset, uuid, thread, answer>>
    BY <1>5 DEF vars, remoteVars, outcomes
  <2>2. announced' = announced /\ remembered' = remembered
    BY <1>5 DEF vars, outcomes
  <2>3. Types'
    BY <2>1 DEF IInv, Types
  <2>4. \A d \in Calls : CallOK(d)'
    BY <2>1, CallKept DEF IInv
  <2>5. ThingsOK'
    BY <2>1, ThingsKept DEF IInv
  <2>6. \A a : SentOK(a) => SentOK(a)'
    BY <2>1 DEF SentOK, AllDone, RequestOf
  <2>7. \A a : ToldOK(a) => ToldOK(a)'
    BY <2>1 DEF ToldOK, AllDone
  <2> QED BY <2>1, <2>2, <2>3, <2>4, <2>5, <2>6, <2>7 DEF IInv
<1> QED BY <1>1, <1>2, <1>3, <1>4, <1>5 DEF Next

\* The invariant that everything below follows from.
THEOREM Invariance == Spec => []IInv
<1>1. Init => IInv
  BY InitIInv
<1>2. IInv /\ [Next]_vars => IInv'
  BY NextIInv
<1> QED BY <1>1, <1>2, PTL DEF Spec

\* What the invariant says of types, of announcements, of writes, of tokens and of
\* cancelled calls.
LEMMA InvType == IInv => TypeOK
<1> SUFFICES ASSUME IInv PROVE TypeOK
  OBVIOUS
<1>1. \A c \in Calls : at[c] \in 1..(Len(steps[c]) + 1)
  BY Known
<1>2. \A a \in applied \cup late :
          /\ a \in Positions
          /\ a.at < at[a.by] \/ (a.at = at[a.by] /\ thread[a.by] = "ended")
  BY DEF IInv, SentOK
<1>3. applied \subseteq Positions /\ late \subseteq Positions \ applied
  BY <1>2 DEF IInv
<1>4. \A c \in Calls : answer[c] = "ok" => thread[c] = "ended"
  BY DEF IInv, CallOK, PlaceOK
<1> QED BY <1>1, <1>2, <1>3, <1>4 DEF TypeOK, IInv, Types

\* A call that was answered with ok had its field made, or jumped over it.
LEMMA InvAnnounced == IInv => AnnouncedIsDone
<1> SUFFICES ASSUME IInv PROVE AnnouncedIsDone
  OBVIOUS
<1>1. \A a \in announced \cup remembered : AllDone(a.by, a.at)
  BY DEF IInv, ToldOK
<1>2. ASSUME NEW c \in Calls, toolset = "fields", answer[c] = "ok"
      PROVE  \E m \in made : m.kind = "field"
  <2>1. at[c] = Len(steps[c]) + 1 /\ thread[c] = "ended"
    BY <1>2, Known DEF CallOK, PlaceOK
  <2>2. PICK i \in DOMAIN steps[c] : steps[c][i] = Make("field", NoToken)
    BY <1>2, <2>1, Known DEF CallOK, ProgramOK, FieldProgram
  <2>3. CASE AllDone(c, at[c])
    <3>1. i \in 1..(at[c] - 1)
      BY <2>1, Known
    <3>2. steps[c][i].is = "request" /\ steps[c][i].raises
      BY <2>2 DEF Make, Request
    <3> DEFINE a == [by |-> c, at |-> i]
    <3>3. a \in applied
      BY <2>3, <3>1, <3>2 DEF AllDone
    <3>4. RequestOf(a).verb = "make" /\ RequestOf(a).kind = "field"
      BY <2>2 DEF RequestOf, Make, Request
    <3> QED BY <3>3, <3>4 DEF IInv, ThingsOK, MadeAll
  <2>4. CASE ~AllDone(c, at[c])
    BY <1>2, <2>4, Known DEF CallOK, ProgressOK, FieldThere
  <2> QED BY <2>3, <2>4
<1> QED BY <1>1, <1>2 DEF AnnouncedIsDone

\* All before a write of a program that makes a group was carried out.
LEMMA InvWhole == IInv => WholeOrNothing
<1> SUFFICES ASSUME IInv, NEW c \in Calls
             PROVE  /\ \/ WrittenBy(c) \in {{}, WritesOf(c)}
                       \/ \E i \in WrittenBy(c) : steps[c][i].kind = "chat" /\ i = 1
                    /\ answer[c] = "invalid" =>
                          \A a \in applied \cup late : a.by = c => RequestOf(a).verb \notin Writes
  BY DEF WholeOrNothing
<1> DEFINE s == steps[c]
<1>1. Whole(s) /\ DOMAIN s \subseteq Nat
  BY Known DEF CallOK, ProgramOK, Program
<1>2. \A i : i \in WritesOf(c) <=> i \in DOMAIN s /\ IsWrite(s[i])
  BY DEF WritesOf, IsWrite
<1>3. \A i : i \in WrittenBy(c) <=> i \in WritesOf(c) /\ [by |-> c, at |-> i] \in applied
  BY DEF WrittenBy
<1>4. ASSUME answer[c] = "invalid", NEW a \in applied \cup late, a.by = c
      PROVE  RequestOf(a).verb \notin Writes
  <2>1. at[c] \in DOMAIN s /\ s[at[c]].is = "check" /\ Fails(s[at[c]])
    BY <1>4, Known DEF CallOK, PlaceOK, Now, Fails
  <2>2. /\ a.at \in DOMAIN s /\ RequestOf(a) = s[a.at] /\ s[a.at].is = "request"
        /\ a.at < at[c] \/ a.at = at[c]
    BY <1>4 DEF IInv, SentOK, RequestOf
  <2>3. a.at < at[c]
    BY <2>1, <2>2
  <2> QED BY <1>1, <2>1, <2>2, <2>3 DEF Whole, IsWrite
<1>5. CASE GroupFirst(s)
  <2>1. CASE WrittenBy(c) = {}
    BY <2>1, <1>4
  <2>2. CASE WrittenBy(c) # {}
    <3>1. PICK i : i \in WrittenBy(c)
      BY <2>2
    <3>2. i \in DOMAIN s /\ [by |-> c, at |-> i] \in applied
      BY <1>2, <1>3, <3>1
    <3>3. AllDone(c, i)
      <4>1. SentOK([by |-> c, at |-> i])
        BY <3>2 DEF IInv
      <4> QED BY <4>1 DEF SentOK
    <3>4. 1 \in WrittenBy(c) /\ s[1].kind = "chat"
      <4>1. CASE i = 1
        BY <1>5, <3>1, <4>1 DEF GroupFirst
      <4>2. CASE i # 1
        <5>1. 1 \in 1..(i - 1)
          BY <3>2, <4>2, Known
        <5>2. [by |-> c, at |-> 1] \in applied
          BY <1>5, <3>3, <5>1 DEF AllDone, GroupFirst, IsWrite
        <5> QED BY <1>2, <1>3, <1>5, <5>2 DEF GroupFirst
      <4> QED BY <4>1, <4>2
    <3> QED BY <3>4, <1>4
  <2> QED BY <2>1, <2>2
<1>6. CASE ~GroupFirst(s)
  BY <1>1, <1>2, <1>3, <1>4, <1>6 DEF Whole
<1> QED BY <1>5, <1>6

\* Two things of a token and a kind are one.
LEMMA InvToken == IInv => TokenOnce
<1> SUFFICES ASSUME IInv, NEW token \in Tokens, NEW kind \in Kinds
             PROVE  Cardinality({m \in made : m.kind = kind /\ uuid[m.by] = token}) <= 1
  BY DEF TokenOnce, Kinds
<1> DEFINE M == {m \in made : m.kind = kind /\ uuid[m.by] = token}
<1>1. ASSUME NEW m \in M PROVE m \in made /\ m.kind = kind /\ m.token = token
  <2>1. /\ m \in made /\ m.kind = kind /\ uuid[m.by] = token /\ MadeOK(m)
    BY DEF IInv, ThingsOK
  <2> DEFINE a == [by |-> m.by, at |-> m.at]
  <2>2. /\ a \in applied /\ RequestOf(a).verb = "make"
        /\ RequestOf(a).kind = kind /\ RequestOf(a).token = m.token
    BY <2>1 DEF MadeOK
  <2>3. SentOK(a)
    BY <2>2 DEF IInv
  <2>4. /\ m.by \in Calls /\ m.at \in DOMAIN steps[m.by] /\ RequestOf(a) = steps[m.by][m.at]
        /\ RequestOf(a).is = "request"
    BY <2>3 DEF SentOK, Positions, RequestOf
  <2>5. Bears(steps[m.by], token)
    BY <2>1, <2>4, Known DEF CallOK, ProgramOK, Program
  <2> QED BY <2>1, <2>2, <2>4, <2>5 DEF Bears
<1>2. \A m, n \in M : m = n
  BY <1>1 DEF IInv, ThingsOK, OneOfAToken
<1>3. CASE M = {}
  <2>1. Cardinality(M) = 0
    BY <1>3, FS_EmptySet
  <2> QED BY <2>1
<1>4. CASE M # {}
  <2>1. PICK m : m \in M
    BY <1>4
  <2>2. M = {m}
    BY <1>2, <2>1
  <2>3. Cardinality({m}) = 1
    BY FS_Singleton
  <2> QED BY <2>2, <2>3
<1> QED BY <1>3, <1>4

\* A cancelled call is in its handler, or has ended.
LEMMA InvCancel ==
    ASSUME IInv, [Next]_vars, NEW c \in Calls, answer[c] = "cancelled"
    PROVE  /\ thread'[c] \in {thread[c], "ended"}
           /\ {r \in remembered' : r.by = c} \subseteq remembered
<1>1. thread[c] \in {"running", "ended", "dropped"}
  BY Known DEF CallOK, PlaceOK
<1> DEFINE Goal == /\ thread'[c] \in {thread[c], "ended"}
                   /\ {r \in remembered' : r.by = c} \subseteq remembered
<1>2. ASSUME NEW d \in Calls, Start(d) PROVE Goal
  BY <1>1, <1>2 DEF Start, outcomes, IInv, Types
<1>3. ASSUME NEW d \in Calls, CallStep(d) PROVE Goal
  <2>1. CASE Queue(d) \/ TakeWorker(d)
    BY <1>1, <2>1 DEF Queue, TakeWorker, OnLoop, outcomes, IInv, Types
  <2>2. CASE Validate(d)
    BY <1>1, <2>2 DEF Validate, Raise, outcomes, IInv, Types
  <2>3. CASE Send(d)
    BY <1>1, <2>3 DEF Send, Raise, outcomes, IInv, Types
  <2>4. CASE ComeBack(d)
    BY <1>1, <2>4 DEF ComeBack, IInv, Types
  <2>5. CASE Decide(d)
    BY <1>1, <2>5 DEF Decide, outcomes
  <2>6. CASE Memorise(d)
    BY <1>1, <2>6 DEF Memorise, OnLoop, Raise, Sent, IInv, Types
  <2>7. CASE Return(d)
    BY <1>1, <2>7 DEF Return, IInv, Types
  <2> QED BY <1>3, <2>1, <2>2, <2>3, <2>4, <2>5, <2>6, <2>7 DEF CallStep
<1>4. ASSUME NEW d \in Calls, Cancel(d) PROVE Goal
  BY <1>1, <1>4 DEF Cancel, IInv, Types
<1>5. CASE ArriveLate
  BY <1>5 DEF ArriveLate, outcomes
<1>6. CASE UNCHANGED vars
  BY <1>6 DEF vars, outcomes
<1> QED BY <1>2, <1>3, <1>4, <1>5, <1>6 DEF Next

\* FeishuProvider.call and execute_step: a request is on its way, or was carried
\* out, only from a place that its handler has come to; who is answered with ok
\* has ended.
THEOREM TypeCorrect == Spec => []TypeOK
  BY Invariance, InvType, PTL

\* The event of a handler's success, and what an intent writes to the memory
\* store, tell of requests that Feishu has carried out; add_field that is answered
\* with ok has its field.
THEOREM TellsWhatIsDone == Spec => []AnnouncedIsDone
  BY Invariance, InvAnnounced, PTL

\* feishu_adapter's handlers: one write each, after everything that may be wrong
\* with the arguments, but for the group that is made with its members.
THEOREM LeavesNoHalves == Spec => []WholeOrNothing
  BY Invariance, InvWhole, PTL

\* The uuid or client_token that a caller gave makes one message, one group, one
\* set of blocks, however often and however late the requests arrive.
THEOREM TokensMakeOne == Spec => []TokenOnce
  BY Invariance, InvToken, PTL

\* A ToolAgent whose task is cancelled ends with the handler it was in.
THEOREM CancelledGoesNoFurther == Spec => NoCallAfterCancel
<1>1. IInv /\ [Next]_vars =>
          [\A c \in Calls : answer[c] = "cancelled" =>
              /\ thread'[c] \in {thread[c], "ended"}
              /\ {r \in remembered' : r.by = c} \subseteq remembered]_vars
  BY InvCancel
<1> QED BY <1>1, Invariance, PTL DEF Spec, NoCallAfterCancel

=============================================================================
