---------------------------- MODULE SearchProofs ----------------------------
(***************************************************************************)
(* Proofs about the two handlers that only read and decide by each reply   *)
(* what they ask for next: the search for a user (ContactSearch), for any  *)
(* chart and limits, and the inspection of a space (Inspection), for any   *)
(* wiki and any number of roles, tables and scores.                        *)
(***************************************************************************)
EXTENDS ContactSearch, Inspection, ListTheorems

-----------------------------------------------------------------------------
(* The search for a user.                                                  *)

Members == UNION {ToSet(chart.users[d]) : d \in Departments}

\* The items of a list up to a place.
First(list, n) == {list[i] : i \in 1..n}

SearchTypes ==
    /\ chart \in Charts /\ search \in Searches
    /\ doing \in {"next", "users", "children", "done", "raised"}
    /\ queue \in Seq(Departments)
    /\ visited \in SUBSET Departments /\ IsFiniteSet(visited) /\ current \in Departments
    /\ shown \in Nat /\ scannedUsers \in Nat
    /\ matched \in Seq(Members \X Departments)
    /\ truncated \in {"no", "departments", "users", "matches"}
    /\ truncated # "no" => doing = "done"

LimitsInv ==
    /\ LimitsKept
    /\ doing = "users" => scannedUsers < search.users /\ Len(matched) < search.matches

Going == doing \in {"next", "users", "children"}

\* Where in its lists the search is.
PlaceInv ==
    /\ doing \in {"users", "children"} => current \in visited
    /\ doing = "users" => shown <= Len(chart.users[current])
    /\ doing = "children" => search.below /\ shown <= Len(chart.children[current])
    /\ doing = "next" => shown = 0

\* The users of a department that have been looked at.
Met(d) ==
    IF d \notin visited THEN {}
    ELSE IF d = current /\ doing = "users" THEN First(chart.users[d], shown)
    ELSE ToSet(chart.users[d])

MatchesInv ==
    /\ IsInjective(matched)
    /\ Going => ToSet(matched) = {m \in Wanted \X Departments : m[1] \in Met(m[2])}
    /\ doing = "done" /\ truncated = "no" =>
          ToSet(matched) = {m \in Wanted \X Searched : m[1] \in ToSet(chart.users[m[2]])}

\* The child departments of a visited one that have been listed.
Led(d) ==
    IF d = current /\ doing = "users" THEN {}
    ELSE IF d = current /\ doing = "children" THEN First(chart.children[d], shown)
    ELSE ToSet(chart.children[d])

QueueInv ==
    /\ visited \cup ToSet(queue) \subseteq Searched /\ Root \in visited \cup ToSet(queue)
    /\ Going /\ search.below => \A d \in visited : Led(d) \subseteq visited \cup ToSet(queue)

SearchInv == SearchTypes /\ LimitsInv /\ PlaceInv /\ MatchesInv /\ QueueInv

\* What a chart and a search are, by their assumptions.
LEMMA AboutChart ==
    ASSUME chart \in Charts, search \in Searches
    PROVE  /\ Root \in Departments
           /\ \A d \in Departments : /\ chart.children[d] \in Seq(Departments)
                                     /\ chart.users[d] \in Seq(Members)
                                     /\ IsInjective(chart.users[d])
           /\ search.departments \in Nat \ {0} /\ search.users \in Nat \ {0}
           /\ search.matches \in Nat \ {0} /\ search.page \in Nat \ {0}
BY ChartsAssumption, SearchesAssumption DEF Departments, Members

\* A page continues a list where the last one ended, with no more than its size.
LEMMA AboutPage ==
    ASSUME NEW T, NEW list \in Seq(T), NEW size \in Nat \ {0}, shown \in Nat, shown <= Len(list)
    PROVE  LET part == Page(list, size) IN
           /\ part \in Seq(T) /\ Len(part) \in Nat /\ Len(part) <= size
           /\ shown + Len(part) <= Len(list)
           /\ \A i \in 1..Len(part) : part[i] = list[shown + i]
<1> DEFINE n == Min({Len(list), shown + size})
<1>1. Len(list) \in Nat /\ n = IF Len(list) <= shown + size THEN Len(list) ELSE shown + size
  BY MinOfTwo
<1>2. n \in Nat /\ n >= shown /\ n <= Len(list) /\ n <= shown + size
  BY <1>1
<1> HIDE DEF n
<1>3. SubSeq(list, shown + 1, n) \in Seq(T) /\ Len(SubSeq(list, shown + 1, n)) = n - shown
  <2>1. \A i \in (shown + 1)..n : list[i] \in T
    BY <1>1, <1>2
  <2>2. shown + 1 \in Int /\ n \in Int
    BY <1>2
  <2> QED
    BY <1>2, <2>1, <2>2, SubSeqProperties
<1>4. \A i \in 1..(n - shown) : SubSeq(list, shown + 1, n)[i] = list[shown + i]
  <2> TAKE i \in 1..(n - shown)
  <2>1. \A j \in (shown + 1)..n : list[j] \in T
    BY <1>1, <1>2
  <2>2. shown + 1 \in Int /\ n \in Int /\ i \in 1..(n - (shown + 1) + 1)
    BY <1>2
  <2>3. SubSeq(list, shown + 1, n)[i] = list[(shown + 1) + i - 1]
    BY <2>1, <2>2, SubSeqProperties
  <2> QED
    BY <1>2, <2>3
<1>5. Page(list, size) = SubSeq(list, shown + 1, n)
  BY DEF Page, n
<1> QED
  BY <1>1, <1>2, <1>3, <1>4, <1>5

\* What comes to the items up to a place, with a page.
LEMMA FirstAndPage ==
    ASSUME NEW T, NEW list \in Seq(T), NEW k \in Nat, NEW part \in Seq(T),
           k + Len(part) <= Len(list), \A i \in 1..Len(part) : part[i] = list[k + i]
    PROVE  /\ First(list, k + Len(part)) = First(list, k) \cup ToSet(part)
           /\ First(list, Len(list)) = ToSet(list) /\ First(list, 0) = {}
           /\ First(list, k) \subseteq ToSet(list)
           /\ IsInjective(list) => IsInjective(part) /\ First(list, k) \cap ToSet(part) = {}
<1>1. /\ Len(list) \in Nat /\ Len(part) \in Nat
      /\ DOMAIN part = 1..Len(part) /\ DOMAIN list = 1..Len(list)
  OBVIOUS
<1>2. First(list, Len(list)) = ToSet(list) /\ First(list, 0) = {}
  BY <1>1 DEF First, ToSet
<1>3. \A i \in 1..k : i \in 1..Len(list) /\ i \in 1..(k + Len(part))
  BY <1>1
<1>4. \A i \in 1..Len(part) : /\ k + i \in 1..Len(list) /\ k + i \in 1..(k + Len(part))
                              /\ k + i \notin 1..k
  BY <1>1
<1>5. \A i \in 1..(k + Len(part)) : i \in 1..k \/ (i - k \in 1..Len(part) /\ part[i - k] = list[i])
  BY <1>1
<1>6. First(list, k) \subseteq ToSet(list)
  BY <1>1, <1>3 DEF First, ToSet
<1>7. First(list, k + Len(part)) = First(list, k) \cup ToSet(part)
  <2>1. \A i \in 1..(k + Len(part)) : list[i] \in First(list, k) \cup ToSet(part)
    BY <1>1, <1>5 DEF First, ToSet
  <2>2. \A i \in 1..k : list[i] \in First(list, k + Len(part))
    BY <1>3 DEF First
  <2>3. \A i \in 1..Len(part) : part[i] \in First(list, k + Len(part))
    BY <1>4 DEF First
  <2>4. First(list, k + Len(part)) \subseteq First(list, k) \cup ToSet(part)
    BY <2>1 DEF First
  <2>5. First(list, k) \subseteq First(list, k + Len(part))
    BY <2>2 DEF First
  <2>6. ToSet(part) \subseteq First(list, k + Len(part))
    BY <1>1, <2>3 DEF ToSet
  <2> QED
    BY <2>4, <2>5, <2>6
<1>8. ASSUME IsInjective(list) PROVE IsInjective(part) /\ First(list, k) \cap ToSet(part) = {}
  <2>1. \A i, j \in 1..Len(list) : list[i] = list[j] => i = j
    BY <1>1, <1>8 DEF IsInjective
  <2>2. ASSUME NEW i \in 1..Len(part), NEW j \in 1..Len(part), part[i] = part[j] PROVE i = j
    <3>1. k + i = k + j
      BY <1>4, <2>1, <2>2
    <3> QED
      BY <1>1, <3>1
  <2>3. \A i \in 1..k, j \in 1..Len(part) : list[i] # part[j]
    BY <1>3, <1>4, <2>1
  <2> QED
    BY <1>1, <2>2, <2>3 DEF IsInjective, First, ToSet
<1> QED
  BY <1>2, <1>6, <1>7, <1>8

\* What a page brings.
LEMMA AboutHits ==
    ASSUME NEW users \in Seq(Members)
    PROVE  /\ Hits(users) \in Seq(Members) /\ Len(Hits(users)) \in Nat
           /\ Len(Hits(users)) <= Len(users)
           /\ ToSet(Hits(users)) = ToSet(users) \cap Wanted
           /\ IsInjective(users) => IsInjective(Hits(users))
BY AmongKeeps, AmongInjective DEF Hits

\* With one more user there is at most one more match.
LEMMA OneMoreHit ==
    ASSUME NEW users \in Seq(Members), NEW k \in 1..Len(users)
    PROVE  Len(Hits(SubSeq(users, 1, k))) <= Len(Hits(SubSeq(users, 1, k - 1))) + 1
<1> DEFINE s == SubSeq(users, 1, k - 1)
<1>1. s \in Seq(Members) /\ users[k] \in Members /\ SubSeq(users, 1, k) = Append(s, users[k])
  OBVIOUS
<1> HIDE DEF s
<1>2. Among(s, Wanted) \in Seq(Members)
  BY <1>1, AmongKeeps
<1>3. Among(Append(s, users[k]), Wanted) =
          IF users[k] \in Wanted THEN Append(Among(s, Wanted), users[k]) ELSE Among(s, Wanted)
  BY <1>1, AmongAppend
<1>4. Len(Among(Append(s, users[k]), Wanted)) <= Len(Among(s, Wanted)) + 1
  BY <1>2, <1>3
<1> QED
  BY <1>1, <1>4 DEF Hits, s

\* What of a page is scanned keeps the limits, reaches the one that is named, and is
\* the whole page if none is.
LEMMA AboutScanned ==
    ASSUME SearchTypes, LimitsInv, doing = "users", NEW part \in Seq(Members),
           Len(part) <= search.users - scannedUsers
    PROVE  /\ Scanned(part) \in Seq(Members)
           /\ scannedUsers + Len(Scanned(part)) <= search.users
           /\ Len(matched) + Len(Hits(Scanned(part))) <= search.matches
           /\ \E k \in 0..Len(part) : Scanned(part) = SubSeq(part, 1, k)
           /\ LimitAfter(Scanned(part)) \in {"no", "users", "matches"}
           /\ LimitAfter(Scanned(part)) = "no" =>
                 /\ Scanned(part) = part
                 /\ scannedUsers + Len(Scanned(part)) < search.users
                 /\ Len(matched) + Len(Hits(Scanned(part))) < search.matches
           /\ LimitAfter(Scanned(part)) = "users" =>
                 scannedUsers + Len(Scanned(part)) = search.users
           /\ LimitAfter(Scanned(part)) = "matches" =>
                 Len(matched) + Len(Hits(Scanned(part))) = search.matches
<1> DEFINE n == Len(part)
           ends == {i \in DOMAIN part : LimitAfter(SubSeq(part, 1, i)) # "no"}
           k == Min(ends \cup {n})
<1>1. n \in Nat /\ DOMAIN part = 1..n /\ ends \cup {n} \in SUBSET (0..n)
  OBVIOUS
<1>2. /\ scannedUsers \in Nat /\ Len(matched) \in Nat /\ search.users \in Nat \ {0}
      /\ search.matches \in Nat \ {0} /\ scannedUsers < search.users
      /\ Len(matched) < search.matches
  BY AboutChart DEF SearchTypes, LimitsInv
<1>3. k \in ends \cup {n} /\ \A i \in ends \cup {n} : k <= i
  <2>1. ends \cup {n} \in SUBSET Nat /\ ends \cup {n} # {}
    BY <1>1
  <2> HIDE DEF ends
  <2> QED
    BY <2>1, MinIsLeast
<1>4. Scanned(part) = SubSeq(part, 1, k)
  BY DEF Scanned
<1>5. k \in 0..n /\ (k # n => k \in ends)
  BY <1>1, <1>3
<1>6. \A i \in 1..n : i < k => LimitAfter(SubSeq(part, 1, i)) = "no"
  <2> SUFFICES ASSUME NEW i \in 1..n, i < k, LimitAfter(SubSeq(part, 1, i)) # "no" PROVE FALSE
    OBVIOUS
  <2>1. i \in ends
    BY <1>1
  <2> HIDE DEF k, ends, n
  <2>2. k <= i
    BY <1>3, <2>1
  <2>3. k \in Int /\ i \in Int
    BY <1>1, <1>5
  <2> QED
    BY <2>2, <2>3
<1>7. k # n => LimitAfter(SubSeq(part, 1, k)) # "no"
  BY <1>5
<1> HIDE DEF k, ends, n
<1>8. \A i \in 0..n : SubSeq(part, 1, i) \in Seq(Members) /\ Len(SubSeq(part, 1, i)) = i
  BY <1>1 DEF n
<1> DEFINE hits(i) == Len(Hits(SubSeq(part, 1, i)))
<1>9. \A i \in 0..n : hits(i) \in Nat
  BY <1>8, AboutHits
<1>10. k > 0 => Len(matched) + hits(k - 1) < search.matches
  <2> SUFFICES ASSUME k > 0 PROVE Len(matched) + hits(k - 1) < search.matches
    OBVIOUS
  <2>1. CASE k = 1
    <3>1. SubSeq(part, 1, 0) \in Seq(Members) /\ Len(SubSeq(part, 1, 0)) = 0
      BY <1>1, <1>8
    <3>2. hits(0) \in Nat /\ hits(0) <= Len(SubSeq(part, 1, 0))
      BY <3>1, AboutHits
    <3>3. hits(0) = 0
      BY <3>1, <3>2
    <3> QED
      BY <1>2, <2>1, <3>3
  <2>2. CASE k # 1
    <3>1. k - 1 \in 1..n /\ k - 1 < k
      BY <1>1, <1>5, <2>2
    <3>2. LimitAfter(SubSeq(part, 1, k - 1)) = "no"
      BY <1>6, <3>1
    <3>3. ~(Len(matched) + hits(k - 1) >= search.matches)
      BY <3>2 DEF LimitAfter
    <3>4. hits(k - 1) \in Nat
      BY <1>1, <1>9, <3>1
    <3> HIDE DEF hits
    <3> QED
      BY <1>2, <3>3, <3>4
  <2> QED
    BY <2>1, <2>2
<1>11. Len(matched) + hits(k) <= search.matches
  <2>1. CASE k = 0
    <3>1. SubSeq(part, 1, 0) \in Seq(Members) /\ Len(SubSeq(part, 1, 0)) = 0
      BY <1>1, <1>8
    <3>2. hits(0) \in Nat /\ hits(0) <= Len(SubSeq(part, 1, 0))
      BY <3>1, AboutHits
    <3>3. hits(0) = 0
      BY <3>1, <3>2
    <3> QED
      BY <1>2, <2>1, <3>3
  <2>2. CASE k > 0
    <3>0. n \in Nat /\ k \in 0..n
      BY <1>1, <1>5
    <3>1. k \in 1..n /\ k - 1 \in 0..n /\ k \in 0..n
      BY <2>2, <3>0
    <3>2. hits(k) <= hits(k - 1) + 1
      BY <3>1, OneMoreHit DEF n
    <3>3. hits(k) \in Nat /\ hits(k - 1) \in Nat
      BY <1>9, <3>1
    <3> HIDE DEF hits
    <3> QED
      BY <1>2, <1>10, <2>2, <3>2, <3>3
  <2> QED
    BY <1>1, <1>5, <2>1, <2>2
<1>12. /\ Len(Scanned(part)) = k /\ Scanned(part) \in Seq(Members)
       /\ Len(Hits(Scanned(part))) = hits(k)
  BY <1>4, <1>5, <1>8
<1>13. k \in Nat /\ k <= n /\ hits(k) \in Nat
  BY <1>1, <1>5, <1>9
<1>14. LimitAfter(Scanned(part)) =
           IF Len(matched) + hits(k) >= search.matches THEN "matches"
           ELSE IF scannedUsers + k >= search.users THEN "users" ELSE "no"
  BY <1>12 DEF LimitAfter
<1>15. scannedUsers + k <= search.users
  BY <1>1, <1>2, <1>13 DEF n
<1>16. LimitAfter(Scanned(part)) = "no" => Scanned(part) = part
  BY <1>4, <1>7 DEF n
<1> HIDE DEF hits
<1>17. /\ LimitAfter(Scanned(part)) = "no" =>
              scannedUsers + k < search.users /\ Len(matched) + hits(k) < search.matches
       /\ LimitAfter(Scanned(part)) = "users" => scannedUsers + k = search.users
       /\ LimitAfter(Scanned(part)) = "matches" => Len(matched) + hits(k) = search.matches
  BY <1>2, <1>11, <1>13, <1>14, <1>15
<1>18. \E i \in 0..Len(part) : Scanned(part) = SubSeq(part, 1, i)
  BY <1>4, <1>5 DEF n
<1> QED
  BY <1>11, <1>12, <1>14, <1>15, <1>16, <1>17, <1>18

\* The root is reached, with each department its children, and nothing that is not
\* in every set of this kind.
LEMMA ReachedIsClosed ==
    ASSUME chart \in Charts, search \in Searches
    PROVE  /\ Reached \subseteq Departments /\ Root \in Reached /\ Searched \subseteq Departments
           /\ \A d \in Reached : ToSet(chart.children[d]) \subseteq Reached
           /\ \A ds \in SUBSET Departments :
                 Root \in ds /\ (\A d \in ds : ToSet(chart.children[d]) \subseteq ds)
                     => Reached \subseteq ds
<1>1. /\ Reached \subseteq Departments /\ Root \in Reached
      /\ \A ds \in SUBSET Departments :
            Root \in ds /\ (\A d \in ds : ToSet(chart.children[d]) \subseteq ds)
                => Reached \subseteq ds
  BY AboutChart DEF Reached
<1>2. ASSUME NEW d \in Reached, NEW e \in ToSet(chart.children[d]) PROVE e \in Reached
  <2>1. e \in Departments
    BY <1>1, AboutChart DEF ToSet
  <2>2. ASSUME NEW ds \in SUBSET Departments, Root \in ds,
               \A o \in ds : ToSet(chart.children[o]) \subseteq ds
        PROVE  e \in ds
    <3>1. d \in ds
      BY <2>2 DEF Reached
    <3> QED
      BY <2>2, <3>1
  <2> QED
    BY <2>1, <2>2 DEF Reached
<1> QED
  BY <1>1, <1>2 DEF Searched

\* What the head of the loop says of the limits.
LEMMA AboutHead ==
    /\ LimitAtHead \in {"no", "departments", "users", "matches"}
    /\ LimitAtHead = "no" => /\ ~(scannedDepartments >= search.departments)
                             /\ ~(scannedUsers >= search.users)
                             /\ ~(Len(matched) >= search.matches)
    /\ LimitAtHead = "departments" => scannedDepartments >= search.departments
    /\ LimitAtHead = "users" => scannedUsers >= search.users
    /\ LimitAtHead = "matches" => Len(matched) >= search.matches
BY DEF LimitAtHead

\* The numbers that are compared.
LEMMA SearchNumbers ==
    ASSUME SearchTypes
    PROVE  /\ scannedDepartments \in Nat /\ Len(matched) \in Nat /\ Len(queue) \in Nat
           /\ scannedUsers \in Nat /\ search.departments \in Nat \ {0}
           /\ search.users \in Nat \ {0} /\ search.matches \in Nat \ {0}
           /\ search.page \in Nat \ {0}
BY AboutChart, FS_CardinalityType DEF SearchTypes, scannedDepartments

\* What is not touched by a step that leaves the chart and the search alone.
LEMMA SameChart ==
    ASSUME UNCHANGED <<chart, search>>
    PROVE  /\ Departments' = Departments /\ Searched' = Searched /\ Members' = Members
           /\ Reached' = Reached
BY DEF Departments, Searched, Members, Reached

\* The search begins with the root in the queue.
LEMMA InitSearch == SearchInit => SearchInv
<1> SUFFICES ASSUME SearchInit PROVE SearchInv
  OBVIOUS
<1>0. /\ chart \in Charts /\ search \in Searches /\ visited = {} /\ matched = <<>>
      /\ queue = <<Root>> /\ shown = 0 /\ scannedUsers = 0 /\ truncated = "no"
      /\ doing \in {"next", "raised"} /\ current = Root /\ Root \in Departments
  BY AboutChart DEF SearchInit
<1>1. SearchTypes
  BY <1>0, FS_EmptySet DEF SearchTypes
<1>2. scannedDepartments = 0
  BY <1>0, FS_EmptySet DEF scannedDepartments
<1>3. LimitsInv
  BY <1>0, <1>1, <1>2, SearchNumbers DEF LimitsInv, LimitsKept
<1>4. MatchesInv
  <2>1. IsInjective(matched) /\ ToSet(matched) = {}
    BY <1>0 DEF IsInjective, ToSet
  <2> QED
    BY <1>0, <2>1 DEF MatchesInv, Met
<1>5. QueueInv
  <2>1. ToSet(queue) = {Root}
    BY <1>0 DEF ToSet
  <2> QED
    BY <1>0, <2>1, ReachedIsClosed DEF QueueInv, Searched
<1> QED
  BY <1>0, <1>1, <1>3, <1>4, <1>5 DEF SearchInv, PlaceInv

\* When the queue is empty everything that is to be searched has been.
LEMMA AllVisited ==
    ASSUME SearchInv, doing = "next", queue = <<>>
    PROVE  visited = Searched
<1>1. ToSet(queue) = {}
  BY DEF ToSet
<1>2. visited \subseteq Searched /\ Root \in visited /\ visited \in SUBSET Departments
  BY <1>1 DEF SearchInv, QueueInv, SearchTypes
<1>3. CASE search.below
  <2>1. \A d \in visited : ToSet(chart.children[d]) \subseteq visited
    BY <1>1, <1>3 DEF SearchInv, QueueInv, Going, Led
  <2>2. Reached \subseteq visited
    BY <1>2, <2>1, ReachedIsClosed DEF SearchInv, SearchTypes
  <2> QED
    BY <1>2, <1>3, <2>2 DEF Searched
<1>4. CASE ~search.below
  BY <1>2, <1>4 DEF Searched
<1> QED
  BY <1>3, <1>4

\* The end of the loop.
LEMMA FinishKeeps ==
    ASSUME SearchInv, Finish
    PROVE  SearchInv'
<1>0. /\ SearchTypes /\ LimitsInv /\ PlaceInv /\ MatchesInv /\ QueueInv /\ doing = "next"
      /\ doing' = "done" /\ UNCHANGED <<chart, search, queue, visited, current, shown,
                                       scannedUsers, matched>>
      /\ truncated' = IF queue = <<>> THEN "no" ELSE LimitAtHead
      /\ queue # <<>> => LimitAtHead # "no"
  BY DEF SearchInv, Finish
<1>1. Departments' = Departments /\ Searched' = Searched /\ Members' = Members
  BY <1>0, SameChart
<1>2. SearchTypes'
  BY <1>0, <1>1, AboutHead DEF SearchTypes
<1>3. LimitsInv'
  <2>1. scannedDepartments' = scannedDepartments
    BY <1>0 DEF scannedDepartments
  <2> QED
    BY <1>0, <2>1, AboutHead, SearchNumbers DEF LimitsInv, LimitsKept
<1>4. MatchesInv'
  <2>1. ASSUME truncated' = "no"
        PROVE  ToSet(matched) = {m \in Wanted \X Searched : m[1] \in ToSet(chart.users[m[2]])}
    <3>1. visited = Searched
      BY <1>0, <2>1, AllVisited
    <3>2. ToSet(matched) = {m \in Wanted \X Departments : m[1] \in Met(m[2])}
      BY <1>0 DEF MatchesInv, Going
    <3>3. \A d \in Departments : Met(d) = IF d \in visited THEN ToSet(chart.users[d]) ELSE {}
      BY <1>0 DEF Met
    <3>4. visited \subseteq Departments
      BY <1>0 DEF SearchTypes
    <3> QED
      BY <3>1, <3>2, <3>3, <3>4
  <2> QED
    BY <1>0, <1>1, <2>1 DEF MatchesInv, Going
<1>5. QueueInv'
  BY <1>0, <1>1 DEF QueueInv, Going
<1> QED
  BY <1>0, <1>2, <1>3, <1>4, <1>5 DEF SearchInv, PlaceInv

\* The head of the queue is taken, to be searched or because it has been.
LEMMA NextKeeps ==
    ASSUME SearchInv, NextDepartment
    PROVE  SearchInv'
<1>0. /\ SearchTypes /\ LimitsInv /\ PlaceInv /\ MatchesInv /\ QueueInv /\ doing = "next"
      /\ UNCHANGED <<chart, search, shown, scannedUsers, matched, truncated>>
      /\ queue # <<>> /\ LimitAtHead = "no" /\ queue' = Tail(queue) /\ shown = 0
      /\ truncated = "no" /\ queue \in Seq(Departments)
  BY DEF SearchInv, NextDepartment, PlaceInv, SearchTypes
<1>1. Departments' = Departments /\ Searched' = Searched /\ Members' = Members
  BY <1>0, SameChart
<1>2. ToSet(queue) = {Head(queue)} \cup ToSet(queue') /\ queue' \in Seq(Departments)
      /\ Head(queue) \in Departments
  BY <1>0, HeadAndRest
<1>3. CASE Head(queue) \in visited /\ UNCHANGED <<doing, visited, current>>
  <2>1. visited \cup ToSet(queue') = visited \cup ToSet(queue)
    BY <1>2, <1>3
  <2>2. scannedDepartments' = scannedDepartments /\ \A d : Met(d)' = Met(d) /\ Led(d)' = Led(d)
    BY <1>0, <1>3 DEF scannedDepartments, Met, Led
  <2>3. SearchTypes'
    BY <1>0, <1>1, <1>2, <1>3 DEF SearchTypes
  <2>4. LimitsInv' /\ PlaceInv'
    BY <1>0, <1>3, <2>2 DEF LimitsInv, LimitsKept, PlaceInv
  <2>5. MatchesInv'
    BY <1>0, <1>1, <1>3, <2>2 DEF MatchesInv, Going
  <2>6. QueueInv'
    BY <1>0, <1>1, <1>3, <2>1, <2>2 DEF QueueInv, Going
  <2> QED
    BY <2>3, <2>4, <2>5, <2>6 DEF SearchInv
<1>4. CASE Head(queue) \notin visited /\ Visit(Head(queue))
  <2>0. PICK h : h = Head(queue)
    OBVIOUS
  <2>1. /\ visited' = visited \cup {h} /\ current' = h /\ doing' = "users" /\ h \notin visited
        /\ h \in Departments
    BY <1>2, <1>4, <2>0 DEF Visit
  <2>2. visited' \cup ToSet(queue') = visited \cup ToSet(queue)
    BY <1>2, <2>0, <2>1
  <2>3. /\ IsFiniteSet(visited') /\ scannedDepartments' = scannedDepartments + 1
        /\ scannedDepartments' <= search.departments
    <3>1. IsFiniteSet(visited) /\ Cardinality(visited) \in Nat
      BY <1>0, FS_CardinalityType DEF SearchTypes
    <3>2. IsFiniteSet(visited') /\ Cardinality(visited') = Cardinality(visited) + 1
      BY <2>1, <3>1, FS_AddElement
    <3>3. ~(scannedDepartments >= search.departments)
      BY <1>0, AboutHead
    <3> QED
      BY <1>0, <3>1, <3>2, <3>3, SearchNumbers DEF scannedDepartments
  <2>4. SearchTypes'
    BY <1>0, <1>1, <1>2, <2>1, <2>3 DEF SearchTypes
  <2>5. LimitsInv'
    <3>1. ~(scannedUsers >= search.users) /\ ~(Len(matched) >= search.matches)
      BY <1>0, AboutHead
    <3> QED
      BY <1>0, <2>3, <3>1, SearchNumbers DEF LimitsInv, LimitsKept
  <2>6. PlaceInv'
    <3>1. Len(chart.users[h]) \in Nat
      BY <1>0, <2>1, AboutChart DEF SearchTypes
    <3> QED
      BY <1>0, <2>1, <3>1 DEF PlaceInv
  <2>7. ASSUME NEW d \in Departments PROVE Met(d)' = Met(d)
    <3>1. First(chart.users[h], 0) = {}
      BY DEF First
    <3> QED
      BY <1>0, <2>1, <3>1 DEF Met
  <2>8. MatchesInv'
    BY <1>0, <1>1, <2>1, <2>7 DEF MatchesInv, Going
  <2>9. QueueInv'
    <3>1. ASSUME NEW d \in visited', search.below PROVE Led(d)' \subseteq visited \cup ToSet(queue)
      <4>1. CASE d = h
        BY <2>1, <4>1 DEF Led
      <4>2. CASE d # h
        <5>1. d \in visited /\ Led(d) = ToSet(chart.children[d]) /\ Led(d)' = Led(d)
          BY <1>0, <2>1, <3>1, <4>2 DEF Led
        <5> QED
          BY <1>0, <3>1, <5>1 DEF QueueInv, Going
      <4> QED
        BY <4>1, <4>2
    <3> QED
      BY <1>0, <1>1, <2>1, <2>2, <3>1 DEF QueueInv
  <2> QED
    BY <2>4, <2>5, <2>6, <2>8, <2>9 DEF SearchInv
<1> QED
  BY <1>3, <1>4 DEF NextDepartment

\* The first items of a list are a list of some of them, each once if it has each once.
LEMMA AboutPrefix ==
    ASSUME NEW T, NEW part \in Seq(T), NEW k \in 0..Len(part)
    PROVE  /\ SubSeq(part, 1, k) \in Seq(T) /\ Len(SubSeq(part, 1, k)) = k
           /\ ToSet(SubSeq(part, 1, k)) \subseteq ToSet(part)
           /\ IsInjective(part) => IsInjective(SubSeq(part, 1, k))
<1>1. /\ SubSeq(part, 1, k) \in Seq(T) /\ Len(SubSeq(part, 1, k)) = k
      /\ DOMAIN part = 1..Len(part) /\ DOMAIN SubSeq(part, 1, k) = 1..k
      /\ \A i \in 1..k : SubSeq(part, 1, k)[i] = part[i] /\ i \in 1..Len(part)
  OBVIOUS
<1> DEFINE s == SubSeq(part, 1, k)
<1> HIDE DEF s
<1>2. ToSet(s) \subseteq ToSet(part)
  BY <1>1 DEF ToSet, s
<1>3. IsInjective(part) => IsInjective(s)
  BY <1>1 DEF IsInjective, s
<1> QED
  BY <1>1, <1>2, <1>3 DEF s

\* The matches of a department, each with the department.
LEMMA AboutTagged ==
    ASSUME NEW s \in Seq(Members), NEW d \in Departments, IsInjective(s)
    PROVE  LET x == [i \in DOMAIN s |-> <<s[i], d>>] IN
           /\ x \in Seq(Members \X Departments) /\ Len(x) = Len(s) /\ IsInjective(x)
           /\ \A m \in Members \X Departments :
                 m \in ToSet(x) <=> m[1] \in ToSet(s) /\ m[2] = d
<1> DEFINE x == [i \in DOMAIN s |-> <<s[i], d>>]
<1>1. /\ DOMAIN s = 1..Len(s) /\ Len(s) \in Nat /\ DOMAIN x = 1..Len(s)
      /\ \A i \in 1..Len(s) : x[i] = <<s[i], d>> /\ s[i] \in Members
  OBVIOUS
<1>2. x \in Seq(Members \X Departments) /\ Len(x) = Len(s)
  BY <1>1
<1> HIDE DEF x
<1>3. IsInjective(x)
  BY <1>1 DEF IsInjective
<1>4. ASSUME NEW m \in Members \X Departments
      PROVE  m \in ToSet(x) <=> m[1] \in ToSet(s) /\ m[2] = d
  <2>1. m = <<m[1], m[2]>>
    OBVIOUS
  <2>2. m \in ToSet(x) => m[1] \in ToSet(s) /\ m[2] = d
    BY <1>1 DEF ToSet
  <2>3. ASSUME m[1] \in ToSet(s), m[2] = d PROVE m \in ToSet(x)
    <3>1. PICK i \in 1..Len(s) : m[1] = s[i]
      BY <1>1, <2>3 DEF ToSet
    <3>2. m = x[i]
      BY <1>1, <2>1, <2>3, <3>1
    <3> QED
      BY <1>1, <3>2 DEF ToSet
  <2> QED
    BY <2>2, <2>3
<1> QED
  BY <1>2, <1>3, <1>4 DEF x

\* A page of users is asked for and scanned.
LEMMA UsersKeep ==
    ASSUME SearchInv, FetchUsers
    PROVE  SearchInv'
<1>0. /\ SearchTypes /\ LimitsInv /\ PlaceInv /\ MatchesInv /\ QueueInv /\ doing = "users"
      /\ UNCHANGED <<chart, search, queue, visited, current>> /\ truncated = "no"
      /\ current \in visited /\ chart \in Charts /\ search \in Searches
      /\ current \in Departments /\ shown \in Nat /\ scannedUsers \in Nat
  BY DEF SearchInv, FetchUsers, ScanPage, PlaceInv, SearchTypes
<1>1. PICK c : c = current
  OBVIOUS
<1>2. PICK list : list = chart.users[current]
  OBVIOUS
<1>3. PICK part : part = Page(list, Min({search.page, search.users - scannedUsers}))
  OBVIOUS
<1>4. PICK p : p = Scanned(part)
  OBVIOUS
<1>5. PICK limit : limit = LimitAfter(p)
  OBVIOUS
<1>6. PICK x : x = [i \in DOMAIN Hits(p) |-> <<Hits(p)[i], c>>]
  OBVIOUS
<1>7. PICK k : k = shown + Len(part)
  OBVIOUS
<1>8. /\ scannedUsers' = scannedUsers + Len(p) /\ matched' = matched \o x
      /\ truncated' = limit
      /\ shown' = IF limit = "no" /\ k < Len(list) THEN k ELSE 0
      /\ doing' = IF limit # "no" THEN "done"
                  ELSE IF k < Len(list) THEN "users"
                  ELSE IF search.below THEN "children" ELSE "next"
  BY <1>0, <1>1, <1>2, <1>3, <1>4, <1>5, <1>6, <1>7 DEF FetchUsers, ScanPage, GoOn
<1>9. /\ Departments' = Departments /\ Searched' = Searched /\ Members' = Members
  BY <1>0, SameChart
<1>10. /\ list \in Seq(Members) /\ IsInjective(list) /\ c \in Departments /\ c \in visited
       /\ shown <= Len(list) /\ Len(list) \in Nat
  BY <1>0, <1>1, <1>2, AboutChart DEF PlaceInv
<1>11. /\ part \in Seq(Members) /\ Len(part) <= search.users - scannedUsers /\ Len(part) \in Nat
       /\ k \in Nat /\ k <= Len(list) /\ \A i \in 1..Len(part) : part[i] = list[shown + i]
  <2>0. PICK size : size = Min({search.page, search.users - scannedUsers})
    OBVIOUS
  <2>1. scannedUsers < search.users /\ search.users \in Nat /\ search.page \in Nat \ {0}
    BY <1>0, AboutChart DEF LimitsInv
  <2>2. search.users - scannedUsers \in Nat \ {0}
    BY <1>0, <2>1
  <2>3. size \in Nat \ {0} /\ size <= search.users - scannedUsers
    BY <2>0, <2>1, <2>2, MinOfTwo
  <2>4. part = Page(list, size)
    BY <1>3, <2>0
  <2>5. /\ part \in Seq(Members) /\ Len(part) <= size /\ Len(part) \in Nat
        /\ shown + Len(part) <= Len(list) /\ \A i \in 1..Len(part) : part[i] = list[shown + i]
    BY <1>0, <1>10, <2>3, <2>4, AboutPage
  <2>6. Len(part) <= search.users - scannedUsers
    BY <2>2, <2>3, <2>5
  <2>7. k \in Nat /\ k <= Len(list)
    BY <1>0, <1>7, <2>5
  <2> QED
    BY <2>5, <2>6, <2>7
<1>12. /\ First(list, k) = First(list, shown) \cup ToSet(part)
       /\ First(list, Len(list)) = ToSet(list)
       /\ IsInjective(part) /\ First(list, shown) \cap ToSet(part) = {}
  BY <1>0, <1>7, <1>10, <1>11, FirstAndPage
<1>13. /\ p \in Seq(Members) /\ scannedUsers + Len(p) <= search.users
       /\ Len(matched) + Len(Hits(p)) <= search.matches
       /\ \E n \in 0..Len(part) : p = SubSeq(part, 1, n)
       /\ limit \in {"no", "users", "matches"}
       /\ limit = "no" => /\ p = part /\ scannedUsers + Len(p) < search.users
                          /\ Len(matched) + Len(Hits(p)) < search.matches
       /\ limit = "users" => scannedUsers + Len(p) = search.users
       /\ limit = "matches" => Len(matched) + Len(Hits(p)) = search.matches
  BY <1>0, <1>4, <1>5, <1>11, AboutScanned
<1>14. /\ IsInjective(p) /\ ToSet(p) \subseteq ToSet(part) /\ Len(p) \in Nat
  BY <1>11, <1>12, <1>13, AboutPrefix
<1>15. /\ Hits(p) \in Seq(Members) /\ IsInjective(Hits(p)) /\ Len(Hits(p)) \in Nat
       /\ ToSet(Hits(p)) = ToSet(p) \cap Wanted
  BY <1>13, <1>14, AboutHits
<1>16. /\ x \in Seq(Members \X Departments) /\ Len(x) = Len(Hits(p)) /\ IsInjective(x)
       /\ \A m \in Members \X Departments :
             m \in ToSet(x) <=> m[1] \in ToSet(p) /\ m[1] \in Wanted /\ m[2] = c
  BY <1>6, <1>10, <1>15, AboutTagged
<1>17. /\ matched' \in Seq(Members \X Departments) /\ Len(matched') = Len(matched) + Len(x)
       /\ matched \in Seq(Members \X Departments)
  <2>1. PICK m : m = matched
    OBVIOUS
  <2>2. m \in Seq(Members \X Departments)
    BY <1>0, <2>1 DEF SearchTypes
  <2>3. m \o x \in Seq(Members \X Departments) /\ Len(m \o x) = Len(m) + Len(x)
    BY <1>16, <2>2, ConcatProperties
  <2> QED
    BY <1>8, <2>1, <2>2, <2>3
<1>18. ToSet(matched') = ToSet(matched) \cup ToSet(x)
  BY <1>8, <1>16, <1>17, ConcatSet
<1>19. Met(c) = First(list, shown) /\ \A m \in ToSet(matched) : m[1] \in Met(m[2])
  BY <1>0, <1>1, <1>2 DEF Met, MatchesInv, Going
<1>20. SearchTypes'
  BY <1>0, <1>8, <1>9, <1>11, <1>13, <1>14, <1>17 DEF SearchTypes
<1>21. LimitsInv'
  <2>1. scannedDepartments' = scannedDepartments
    BY <1>0 DEF scannedDepartments
  <2>2. Len(matched') = Len(matched) + Len(Hits(p))
    BY <1>16, <1>17
  <2>3. scannedDepartments <= search.departments
    BY <1>0 DEF LimitsInv, LimitsKept
  <2> QED
    BY <1>0, <1>8, <1>13, <2>1, <2>2, <2>3 DEF LimitsInv, LimitsKept
<1>22. PlaceInv'
  <2>1. Len(chart.children[c]) \in Nat
    BY <1>0, <1>10, AboutChart
  <2> QED
    BY <1>0, <1>1, <1>2, <1>8, <1>10, <1>11, <2>1 DEF PlaceInv
<1>23. MatchesInv'
  <2>1. ToSet(matched) \cap ToSet(x) = {}
    <3> SUFFICES ASSUME NEW m \in ToSet(matched), m \in ToSet(x) PROVE FALSE
      OBVIOUS
    <3>1. m \in Members \X Departments
      BY <1>17 DEF ToSet
    <3>2. m[1] \in ToSet(part) /\ m[2] = c
      BY <1>14, <1>16, <3>1
    <3> QED
      BY <1>12, <1>19, <3>2
  <2>2. IsInjective(matched')
    BY <1>0, <1>8, <1>16, <1>17, <2>1, ConcatInjective DEF MatchesInv
  <2>3. ASSUME limit = "no"
        PROVE  ToSet(matched') = {m \in Wanted \X Departments : m[1] \in Met(m[2])'}
    <3>1. Met(c)' = First(list, shown) \cup ToSet(part)
      BY <1>0, <1>1, <1>2, <1>8, <1>10, <1>11, <1>12, <2>3 DEF Met
    <3>2. \A d \in Departments : d # c => Met(d)' = Met(d)
      BY <1>0, <1>1, <1>8 DEF Met
    <3>3. ToSet(matched) = {m \in Wanted \X Departments : m[1] \in Met(m[2])}
      BY <1>0 DEF MatchesInv, Going
    <3>4. p = part
      BY <1>13, <2>3
    <3>5. ASSUME NEW m \in ToSet(x)
          PROVE  m \in Wanted \X Departments /\ m[1] \in ToSet(part) /\ m[2] = c
      <4>1. m \in Members \X Departments
        BY <1>16, <3>5 DEF ToSet
      <4> QED
        BY <1>16, <3>4, <4>1
    <3>6. ASSUME NEW m \in Wanted \X Departments, m[2] = c, m[1] \in ToSet(part)
          PROVE  m \in ToSet(x)
      <4>1. m \in Members \X Departments
        BY <1>11, <3>6 DEF ToSet
      <4> QED
        BY <1>16, <3>4, <3>6, <4>1
    <3>7. ToSet(matched') \subseteq {m \in Wanted \X Departments : m[1] \in Met(m[2])'}
      <4> SUFFICES ASSUME NEW m \in ToSet(matched')
                   PROVE  m \in Wanted \X Departments /\ m[1] \in Met(m[2])'
        OBVIOUS
      <4>1. CASE m \in ToSet(x)
        BY <3>1, <3>5, <4>1
      <4>2. CASE m \in ToSet(matched)
        BY <1>19, <3>1, <3>2, <3>3, <4>2
      <4> QED
        BY <1>18, <4>1, <4>2
    <3>8. ASSUME NEW m \in Wanted \X Departments, m[1] \in Met(m[2])' PROVE m \in ToSet(matched')
      <4>1. CASE m[2] = c
        BY <1>18, <1>19, <3>1, <3>3, <3>6, <3>8, <4>1
      <4>2. CASE m[2] # c
        BY <1>18, <3>2, <3>3, <3>8, <4>2
      <4> QED
        BY <4>1, <4>2
    <3> QED
      BY <3>7, <3>8
  <2> QED
    BY <1>0, <1>8, <1>9, <2>2, <2>3 DEF MatchesInv, Going
<1>24. QueueInv'
  <2>1. ASSUME limit = "no", search.below, NEW d \in visited
        PROVE  Led(d)' \subseteq visited \cup ToSet(queue)
    <3>1. Led(d) \subseteq visited \cup ToSet(queue)
      BY <1>0, <2>1 DEF QueueInv, Going
    <3>2. CASE d = current
      <4>1. First(chart.children[d], 0) = {}
        BY DEF First
      <4> QED
        BY <1>0, <1>8, <2>1, <3>2, <4>1 DEF Led
    <3>3. CASE d # current
      BY <1>0, <1>8, <3>1, <3>3 DEF Led
    <3> QED
      BY <3>2, <3>3
  <2> QED
    BY <1>0, <1>8, <1>9, <2>1 DEF QueueInv, Going
<1> QED
  BY <1>20, <1>21, <1>22, <1>23, <1>24 DEF SearchInv

\* A page of child departments is not asked for when the queue is full.
LEMMA NoRoomKeeps ==
    ASSUME SearchInv, NoRoom
    PROVE  SearchInv'
<1>0. /\ SearchTypes /\ LimitsInv /\ PlaceInv /\ MatchesInv /\ QueueInv
      /\ UNCHANGED <<chart, search, queue, visited, current, shown, scannedUsers, matched>>
      /\ scannedDepartments + Len(queue) >= search.departments
      /\ truncated' = "departments" /\ doing' = "done"
  BY DEF SearchInv, NoRoom
<1>1. Departments' = Departments /\ Searched' = Searched /\ Members' = Members
  BY <1>0, SameChart
<1>2. scannedDepartments' = scannedDepartments
  BY <1>0 DEF scannedDepartments
<1>3. SearchTypes'
  BY <1>0, <1>1 DEF SearchTypes
<1>4. LimitsInv' /\ PlaceInv'
  BY <1>0, <1>2 DEF LimitsInv, LimitsKept, PlaceInv
<1>5. MatchesInv' /\ QueueInv'
  BY <1>0, <1>1 DEF MatchesInv, QueueInv, Going
<1> QED
  BY <1>3, <1>4, <1>5 DEF SearchInv

\* A request fails.
LEMMA FailKeeps ==
    ASSUME SearchInv, SearchFails
    PROVE  SearchInv'
<1>0. /\ SearchTypes /\ LimitsInv /\ PlaceInv /\ MatchesInv /\ QueueInv
      /\ UNCHANGED <<chart, search, queue, visited, current, shown, scannedUsers, matched,
                     truncated>>
      /\ doing \in {"users", "children"} /\ doing' = "raised"
  BY DEF SearchInv, SearchFails
<1>1. Departments' = Departments /\ Searched' = Searched /\ Members' = Members
  BY <1>0, SameChart
<1>2. scannedDepartments' = scannedDepartments /\ truncated = "no"
  BY <1>0 DEF scannedDepartments, SearchTypes
<1>3. SearchTypes'
  BY <1>0, <1>1, <1>2 DEF SearchTypes
<1>4. LimitsInv' /\ PlaceInv'
  BY <1>0, <1>2 DEF LimitsInv, LimitsKept, PlaceInv
<1>5. MatchesInv' /\ QueueInv'
  BY <1>0, <1>1 DEF MatchesInv, QueueInv, Going
<1> QED
  BY <1>3, <1>4, <1>5 DEF SearchInv

\* A page of child departments is asked for, and those that were not visited are queued.
LEMMA ChildrenKeep ==
    ASSUME SearchInv, FetchChildren
    PROVE  SearchInv'
<1>0. /\ SearchTypes /\ LimitsInv /\ PlaceInv /\ MatchesInv /\ QueueInv /\ doing = "children"
      /\ UNCHANGED <<chart, search, visited, current, scannedUsers, matched>>
      /\ truncated = "no" /\ scannedDepartments + Len(queue) < search.departments
      /\ current \in visited /\ chart \in Charts /\ search \in Searches /\ search.below
      /\ current \in Departments /\ shown \in Nat /\ queue \in Seq(Departments)
      /\ visited \in SUBSET Departments
  BY DEF SearchInv, FetchChildren, PlaceInv, SearchTypes
<1>1. PICK c : c = current
  OBVIOUS
<1>2. PICK list : list = chart.children[current]
  OBVIOUS
<1>3. PICK part : part = Page(list, search.page)
  OBVIOUS
<1>4. PICK new : new = Among(part, ToSet(part) \ visited)
  OBVIOUS
<1>5. PICK room : room = Room
  OBVIOUS
<1>6. PICK x : x = SubSeq(new, 1, Min({Len(new), room}))
  OBVIOUS
<1>7. PICK k : k = shown + Len(part)
  OBVIOUS
<1>8. PICK limit : limit = IF Len(new) >= room THEN "departments" ELSE "no"
  OBVIOUS
<1>9. /\ queue' = queue \o x /\ truncated' = limit
      /\ shown' = IF limit = "no" /\ k < Len(list) THEN k ELSE 0
      /\ doing' = IF limit # "no" THEN "done" ELSE IF k < Len(list) THEN "children" ELSE "next"
  BY <1>0, <1>1, <1>2, <1>3, <1>4, <1>5, <1>6, <1>7, <1>8 DEF FetchChildren, GoOn
<1>10. /\ Departments' = Departments /\ Searched' = Searched /\ Members' = Members
       /\ scannedDepartments' = scannedDepartments
  BY <1>0, SameChart DEF scannedDepartments
<1>11. /\ list \in Seq(Departments) /\ c \in Departments /\ c \in visited
       /\ shown <= Len(list) /\ Len(list) \in Nat /\ search.page \in Nat \ {0}
  BY <1>0, <1>1, <1>2, AboutChart DEF PlaceInv
<1>12. /\ part \in Seq(Departments) /\ Len(part) \in Nat /\ shown + Len(part) <= Len(list)
       /\ \A i \in 1..Len(part) : part[i] = list[shown + i]
  BY <1>0, <1>3, <1>11, AboutPage
<1>13. k \in Nat /\ k <= Len(list)
  BY <1>0, <1>7, <1>12
<1>14. /\ First(list, k) = First(list, shown) \cup ToSet(part)
       /\ First(list, Len(list)) = ToSet(list)
  BY <1>0, <1>7, <1>11, <1>12, FirstAndPage
<1>15. /\ new \in Seq(Departments) /\ Len(new) \in Nat
       /\ ToSet(new) = ToSet(part) \cap (ToSet(part) \ visited)
  BY <1>4, <1>12, AmongKeeps
<1>16. /\ scannedDepartments \in Nat /\ Len(queue) \in Nat /\ search.departments \in Nat
       /\ room = search.departments - (scannedDepartments + Len(queue))
  BY <1>0, <1>5, SearchNumbers DEF Room
<1>17. room \in Nat \ {0}
  BY <1>0, <1>16
<1>18. PICK n \in 0..Len(new) : /\ x = SubSeq(new, 1, n)
                                /\ n = IF Len(new) >= room THEN room ELSE Len(new)
  <2>1. Min({Len(new), room}) = IF Len(new) <= room THEN Len(new) ELSE room
    BY <1>15, <1>17, MinOfTwo
  <2>2. CASE Len(new) >= room
    <3>1. Min({Len(new), room}) = room /\ room \in 0..Len(new)
      BY <1>15, <1>17, <2>1, <2>2
    <3> QED
      BY <1>6, <2>2, <3>1
  <2>3. CASE ~(Len(new) >= room)
    <3>1. Min({Len(new), room}) = Len(new) /\ Len(new) \in 0..Len(new)
      BY <1>15, <1>17, <2>1, <2>3
    <3> QED
      BY <1>6, <2>3, <3>1
  <2> QED
    BY <2>2, <2>3
<1>19. /\ x \in Seq(Departments) /\ Len(x) = n /\ ToSet(x) \subseteq ToSet(new)
  BY <1>15, <1>18, AboutPrefix
<1>20. limit = "no" => x = new
  BY <1>8, <1>15, <1>18
<1>21. /\ queue' \in Seq(Departments) /\ Len(queue') = Len(queue) + n
  <2>1. PICK q : q = queue
    OBVIOUS
  <2>2. q \o x \in Seq(Departments) /\ Len(q \o x) = Len(q) + Len(x)
    BY <1>0, <1>19, <2>1
  <2> QED
    BY <1>9, <1>19, <2>1, <2>2
<1>22. ToSet(queue') = ToSet(queue) \cup ToSet(x)
  BY <1>0, <1>9, <1>19, ConcatSet
<1>23. SearchTypes'
  <2>1. limit \in {"no", "departments"} /\ shown' \in Nat
    BY <1>8, <1>9, <1>13
  <2> QED
    BY <1>0, <1>9, <1>10, <1>21, <2>1 DEF SearchTypes
<1>24. LimitsInv'
  <2>1. limit = "departments" => scannedDepartments + (Len(queue) + n) >= search.departments
    BY <1>8, <1>16, <1>17, <1>18
  <2>2. LimitsKept
    BY <1>0 DEF LimitsInv
  <2>3. limit \in {"no", "departments"}
    BY <1>8
  <2>4. LimitsKept'
    BY <1>0, <1>9, <1>10, <1>21, <2>1, <2>2, <2>3 DEF LimitsKept
  <2> QED
    BY <1>9, <2>4 DEF LimitsInv
<1>25. PlaceInv'
  BY <1>0, <1>2, <1>9, <1>13 DEF PlaceInv
<1>26. MatchesInv'
  <2>1. limit = "no" => \A d : Met(d)' = Met(d)
    BY <1>0, <1>9 DEF Met
  <2>2. limit = "no" <=> doing' # "done"
    BY <1>9
  <2>3. Going' => limit = "no"
    BY <1>9 DEF Going
  <2>4. truncated' = "no" => doing' # "done"
    BY <1>9
  <2> QED
    BY <1>0, <1>10, <2>1, <2>3, <2>4 DEF MatchesInv, Going
<1>27. QueueInv'
  <2>1. ToSet(list) \subseteq Searched /\ ToSet(part) \subseteq ToSet(list)
    <3>1. c \in Reached /\ Searched = Reached
      BY <1>0, <1>11 DEF QueueInv, Searched
    <3>2. ToSet(list) \subseteq Reached
      BY <1>0, <1>1, <1>2, <3>1, ReachedIsClosed
    <3>3. ToSet(part) \subseteq First(list, k)
      BY <1>14
    <3>4. \A i \in 1..k : i \in DOMAIN list
      BY <1>11, <1>13
    <3>5. First(list, k) \subseteq ToSet(list)
      BY <3>4 DEF First, ToSet
    <3> QED
      BY <3>1, <3>2, <3>3, <3>5
  <2>2. ToSet(x) \subseteq ToSet(part)
    BY <1>15, <1>19
  <2>3. ASSUME limit = "no", NEW d \in visited
        PROVE  Led(d)' \subseteq visited \cup ToSet(queue')
    <3>1. Led(d) \subseteq visited \cup ToSet(queue)
      BY <1>0, <2>3 DEF QueueInv, Going
    <3>2. CASE d = current
      <4>1. ToSet(part) \subseteq visited \cup ToSet(x)
        BY <1>15, <1>20, <2>3
      <4>2. Led(d) = First(list, shown)
        BY <1>0, <1>2, <3>2 DEF Led
      <4>3. Led(d)' = First(list, k)
        BY <1>0, <1>2, <1>9, <1>11, <1>13, <1>14, <2>3, <3>2 DEF Led
      <4> QED
        BY <1>14, <1>22, <3>1, <4>1, <4>2, <4>3
    <3>3. CASE d # current
      <4>1. Led(d)' = Led(d)
        BY <1>0, <1>9, <2>3, <3>3 DEF Led
      <4> QED
        BY <1>22, <3>1, <4>1
    <3> QED
      BY <3>2, <3>3
  <2>4. Going' => limit = "no"
    BY <1>9 DEF Going
  <2> QED
    BY <1>0, <1>10, <1>22, <2>1, <2>2, <2>3, <2>4 DEF QueueInv
<1> QED
  BY <1>23, <1>24, <1>25, <1>26, <1>27 DEF SearchInv

\* Every step of a search keeps the invariant.
LEMMA SearchStepKeeps ==
    ASSUME SearchInv, [SearchNext]_searchVars
    PROVE  SearchInv'
<1>1. CASE UNCHANGED searchVars
  <2>1. UNCHANGED <<chart, search, doing, queue, visited, current, shown, scannedUsers,
                    matched, truncated>>
    BY <1>1 DEF searchVars
  <2>2. Departments' = Departments /\ Searched' = Searched /\ Members' = Members
    BY <2>1, SameChart
  <2>3. scannedDepartments' = scannedDepartments /\ \A d : Met(d)' = Met(d) /\ Led(d)' = Led(d)
    BY <2>1 DEF scannedDepartments, Met, Led
  <2>4. SearchTypes' /\ LimitsInv' /\ PlaceInv'
    BY <2>1, <2>2, <2>3 DEF SearchInv, SearchTypes, LimitsInv, LimitsKept, PlaceInv
  <2>5. MatchesInv' /\ QueueInv'
    BY <2>1, <2>2, <2>3 DEF SearchInv, MatchesInv, QueueInv, Going
  <2> QED
    BY <2>4, <2>5 DEF SearchInv
<1>2. CASE SearchNext
  BY <1>2, FinishKeeps, NextKeeps, UsersKeep, NoRoomKeeps, ChildrenKeep, FailKeeps
     DEF SearchNext, SearchStep
<1> QED
  BY <1>1, <1>2

\* The invariant of a search.
LEMMA SearchInvariant == SearchSpec => []SearchInv
BY InitSearch, SearchStepKeeps, PTL DEF SearchSpec

\* The answer of a search keeps the limits, says which one it met, and has everybody
\* if it met none: find_user of the contact adapter, whatever the lists lead to.
THEOREM AnswersHold == SearchSpec => []AnswerHolds
<1>1. SearchInv => AnswerHolds
  <2>1. SearchInv => SearchTypeOK
    BY DEF SearchInv, SearchTypes, SearchTypeOK
  <2> QED
    BY <2>1 DEF SearchInv, LimitsInv, MatchesInv, AnswerHolds, MatchesComplete
<1> QED
  BY <1>1, SearchInvariant, PTL

-----------------------------------------------------------------------------
(* The tables for the roles.                                               *)

\* The matches of a role and a table, and the roles and tables as numbers.
Matches == Roles \X Tables

TableTypes ==
    /\ score \in [Matches -> 0..MaxScore]
    /\ named \in [Roles -> Tables \cup {0}]
    /\ assigned \in [Roles -> Tables \cup {0}]

\* Nothing is assigned before the ranking, and names are only matched once.
AssignedLast ==
    /\ seeking \in {"space", "nodes", "tables", "fields", "ranking", "ready", "raised"}
    /\ seeking \in {"space", "nodes", "tables", "fields"} => assigned = None

\* A match that is out of reach went to one that is as good.
Dominated(m) ==
    \/ \E r \in Roles : assigned[r] = m[2] /\ score[<<r, m[2]>>] >= score[m]
    \/ assigned[m[1]] # 0 /\ score[<<m[1], assigned[m[1]]>>] >= score[m]

RankedInOrder ==
    /\ seeking \in {"ranking", "ready"} => \A m \in Eligible \ Free : Dominated(m)
    /\ seeking = "ready" => Free = {}

TablesInv == TableTypes /\ AssignedLast /\ TablesNotShared /\ RankedInOrder

\* The constants' bounds are numbers that are not zero.
LEMMA Counts == /\ RoleCount \in Nat \ {0} /\ TableCount \in Nat \ {0} /\ MaxScore \in Nat \ {0}
                /\ 0 \notin Roles /\ 0 \notin Tables
BY InspectionAssumption DEF Roles, Tables

\* As long as no role has a table by its fields, every eligible match is free.
LEMMA AllFree ==
    ASSUME TableTypes, assigned = None
    PROVE  Free = Eligible
<1>1. \A m \in Eligible : m[1] \in Roles /\ m[2] \in Tables
  BY DEF Eligible, Unresolved
<1>2. \A r \in Roles : assigned[r] = 0
  BY DEF None
<1> QED
  BY <1>1, <1>2, Counts DEF Free

\* The search begins without any table.
LEMMA InitTables == InspectInit => TablesInv
<1> SUFFICES ASSUME InspectInit PROVE TablesInv
  OBVIOUS
<1>1. TableTypes
  BY Counts DEF InspectInit, TableTypes, None, Matches
<1>2. TablesNotShared
  BY DEF InspectInit, TablesNotShared, None
<1> QED
  BY <1>1, <1>2 DEF InspectInit, TablesInv, AssignedLast, RankedInOrder

\* A step that leaves the tables alone and does not come to rank them.
LEMMA TablesKept ==
    ASSUME TablesInv, UNCHANGED <<score, named, assigned>>,
           \/ seeking' = seeking
           \/ seeking' = "raised"
           \/ /\ seeking \in {"space", "nodes", "tables", "fields"}
              /\ seeking' \in {"space", "nodes", "tables", "fields"}
    PROVE  TablesInv'
BY DEF TablesInv, TableTypes, AssignedLast, TablesNotShared, RankedInOrder, Free, Eligible,
       Unresolved, Dominated

\* The best match that is free is taken: what it takes from others is worth no more.
LEMMA AssignTables ==
    ASSUME TablesInv, Assign
    PROVE  TablesInv'
<1>0. /\ TableTypes /\ AssignedLast /\ TablesNotShared /\ RankedInOrder
      /\ UNCHANGED <<score, named>> /\ seeking = "ranking"
  BY DEF TablesInv, Assign, wikiVars
<1>e. Eligible' = Eligible
  BY <1>0 DEF Eligible, Unresolved
<1>1. CASE Free = {} /\ seeking' = "ready" /\ UNCHANGED assigned
  BY <1>0, <1>1 DEF TablesInv, TableTypes, AssignedLast, TablesNotShared, RankedInOrder, Free,
     Eligible, Unresolved, Dominated
<1>2. CASE Free # {}
  <2>1. PICK m \in Free : /\ \A o \in Free : Ahead(m, o)
                          /\ assigned' = [assigned EXCEPT ![m[1]] = m[2]]
    BY <1>2 DEF Assign
  <2>2. seeking' = "ranking"
    BY <1>0, <1>2 DEF Assign
  <2>3. PICK r \in Roles, t \in Tables : m = <<r, t>>
    BY DEF Free, Eligible, Unresolved
  <2>4. /\ assigned[r] = 0 /\ \A o \in Roles : assigned[o] # t /\ named[o] # t
        /\ assigned' = [assigned EXCEPT ![r] = t] /\ t # 0
    BY <2>1, <2>3, Counts DEF Free, Eligible
  <2>5. assigned' \in [Roles -> Tables \cup {0}]
    BY <1>0, <2>3, <2>4 DEF TableTypes
  <2>6. TablesNotShared'
    BY <1>0, <2>3, <2>4 DEF TableTypes, TablesNotShared
  <2>7. ASSUME NEW o \in Eligible, o \notin Free'
        PROVE  Dominated(o)'
    <3>1. PICK s \in Roles, u \in Tables : o = <<s, u>>
      BY DEF Eligible, Unresolved
    <3>2. score \in [Matches -> 0..MaxScore] /\ <<r, t>> \in Matches /\ <<s, u>> \in Matches
          /\ \A q \in Roles : <<q, u>> \in Matches
      BY <1>0, <3>1 DEF TableTypes, Matches
    <3>3. CASE o \in Free
      <4>1. score[<<r, t>>] >= score[<<s, u>>]
        <5>1. Ahead(m, o)
          BY <2>1, <3>3
        <5>2. score[m] \in Nat /\ score[o] \in Nat
          BY <2>3, <3>1, <3>2, Counts
        <5> QED
          BY <2>3, <3>1, <5>1, <5>2 DEF Ahead
      <4>2. assigned[s] = 0 /\ \A q \in Roles : assigned[q] # u
        BY <3>1, <3>3 DEF Free
      <4>3. s = r \/ u = t
        BY <1>0, <1>e, <2>3, <2>4, <2>7, <3>1, <4>2 DEF Free, TableTypes
      <4>4. assigned'[r] = t
        BY <1>0, <2>3, <2>4 DEF TableTypes
      <4> QED
        BY <1>0, <2>3, <2>4, <3>1, <4>1, <4>3, <4>4 DEF Dominated
    <3>4. CASE o \notin Free
      <4>1. Dominated(o)
        BY <1>0, <3>4 DEF RankedInOrder
      <4>2. CASE \E q \in Roles : assigned[q] = u /\ score[<<q, u>>] >= score[o]
        <5>1. PICK q \in Roles : assigned[q] = u /\ score[<<q, u>>] >= score[o]
          BY <4>2
        <5>2. assigned'[q] = u
          BY <1>0, <2>4, <5>1, Counts DEF TableTypes
        <5> QED
          BY <1>0, <3>1, <5>1, <5>2 DEF Dominated
      <4>3. CASE assigned[s] # 0 /\ score[<<s, assigned[s]>>] >= score[o]
        <5>1. assigned'[s] = assigned[s]
          BY <1>0, <2>4, <4>3 DEF TableTypes
        <5> QED
          BY <1>0, <3>1, <4>3, <5>1 DEF Dominated
      <4> QED
        BY <3>1, <4>1, <4>2, <4>3 DEF Dominated
    <3> QED
      BY <3>3, <3>4
  <2> QED
    BY <1>0, <1>e, <2>2, <2>5, <2>6, <2>7
       DEF TablesInv, TableTypes, AssignedLast, RankedInOrder
<1> QED
  BY <1>1, <1>2 DEF Assign

\* Every step keeps what is known of the tables.
LEMMA TablesStep == TablesInv /\ [InspectNext]_inspectVars => TablesInv'
<1> SUFFICES ASSUME TablesInv, [InspectNext]_inspectVars PROVE TablesInv'
  OBVIOUS
<1>0. TableTypes /\ AssignedLast /\ TablesNotShared /\ RankedInOrder
  BY DEF TablesInv
<1>1. CASE FindSpace \/ ReadPage \/ ScanNodes \/ GiveUp \/ CallFails
  <2>1. UNCHANGED <<score, named, assigned>>
    BY <1>1 DEF FindSpace, ReadPage, ScanNodes, GiveUp, CallFails, Raised, tableVars
  <2>2. \/ seeking' = seeking
        \/ seeking' = "raised"
        \/ /\ seeking \in {"space", "nodes", "tables", "fields"}
           /\ seeking' \in {"space", "nodes", "tables", "fields"}
    BY <1>1 DEF FindSpace, ReadPage, ScanNodes, GiveUp, CallFails, Raised, Found, Scanning
  <2> QED
    BY <2>1, <2>2, TablesKept
<1>2. CASE MatchNames
  <2>1. /\ seeking = "tables" /\ assigned' = None /\ score' = score
        /\ named' \in [Roles -> Tables \cup {0}]
        /\ seeking' = IF \E r \in Roles : named'[r] = 0 THEN "fields" ELSE "ready"
    BY <1>0, <1>2 DEF MatchNames, AssignedLast
  <2>2. seeking' = "ready" => Eligible' = {} /\ Free' = {}
    BY <2>1 DEF Eligible, Free, Unresolved
  <2>3. TablesNotShared'
    BY <2>1 DEF TablesNotShared, None
  <2>4. TableTypes'
    BY <1>0, <1>2, <2>1 DEF TableTypes, MatchNames
  <2> QED
    BY <2>1, <2>2, <2>3, <2>4 DEF TablesInv, AssignedLast, RankedInOrder
<1>3. CASE ReadSchema
  <2>1. /\ seeking = "fields" /\ seeking' = "fields" /\ UNCHANGED <<named, assigned>>
    BY <1>3 DEF ReadSchema
  <2>2. PICK worth \in [Unresolved -> 0..MaxScore] :
            score' = [m \in Roles \X Tables |->
                IF m[1] \in Unresolved /\ m[2] = schemas' THEN worth[m[1]] ELSE score[m]]
    BY <1>3 DEF ReadSchema
  <2>3. score' \in [Matches -> 0..MaxScore]
    BY <1>0, <2>2 DEF Matches, TableTypes
  <2> QED
    BY <1>0, <2>1, <2>3 DEF TablesInv, TableTypes, AssignedLast, RankedInOrder, TablesNotShared
<1>4. CASE RankSchemas
  <2>1. /\ seeking' = "ranking" /\ UNCHANGED <<score, named, assigned>> /\ assigned = None
    BY <1>0, <1>4 DEF RankSchemas, tableVars, AssignedLast
  <2>2. TableTypes' /\ TablesNotShared'
    BY <1>0, <2>1 DEF TableTypes, TablesNotShared
  <2>3. Free' = Eligible'
    <3>1. Free = Eligible
      BY <1>0, <2>1, AllFree
    <3> QED
      BY <2>1, <3>1 DEF Free, Eligible, Unresolved
  <2> QED
    BY <2>1, <2>2, <2>3 DEF TablesInv, AssignedLast, RankedInOrder
<1>5. CASE Assign
  BY <1>5, AssignTables
<1>6. CASE UNCHANGED inspectVars
  BY <1>6, TablesKept DEF inspectVars, tableVars
<1> QED
  BY <1>1, <1>2, <1>3, <1>4, <1>5, <1>6 DEF InspectNext, InspectStep

\* A table found by its fields is no other role's, be it by its name or by its fields
\* (tables found by name may be shared, tool_agent.py:276-284), and a role is refused
\* a table only for a match worth as much, for any roles, tables and scores.
THEOREM TablesSuitRoles == InspectSpec => []TablesSuit
<1>1. TablesInv => TablesSuit
  <2> SUFFICES ASSUME TablesInv PROVE TablesNotShared /\ BestMatchesFirst
    BY DEF TablesSuit
  <2>1. seeking = "ready" => \A m \in Eligible : Dominated(m)
    BY DEF TablesInv, RankedInOrder
  <2> QED
    BY <2>1 DEF TablesInv, BestMatchesFirst, Dominated
<1> QED
  BY <1>1, InitTables, TablesStep, PTL DEF InspectSpec

-----------------------------------------------------------------------------
(* The wiki.                                                               *)

WikiTypes ==
    /\ wiki \in Wikis
    /\ parents \in Seq(Nodes \cup {Top}) /\ page \in 0..(MaxPages - 1)
    /\ scanned \in 0..(MaxNodes - 1 + MaxPages * NodePage)
    /\ {base, fallback} \subseteq Nodes \cup {NoNode}
    /\ schemas \in 0..TableCount

\* The bounds of the search are numbers.
LEMMA Limits ==
    /\ NodePage \in Nat \ {0} /\ MaxPages \in Nat \ {0} /\ MaxNodes \in Nat \ {0}
    /\ MaxPages * NodePage \in Nat
BY InspectionAssumption

\* A factor can be taken out of an inequality.
LEMMA FewerPages ==
    ASSUME NEW m \in Nat, NEW n \in Nat, NEW size \in Nat, m * size < n * size
    PROVE  m < n
<1> SUFFICES ASSUME m >= n PROVE FALSE
  OBVIOUS
<1>1. m - n \in Nat /\ (m - n) * size >= 0 /\ m * size = (m - n) * size + n * size
  OBVIOUS
<1> QED
  BY <1>1

\* What a wiki is, by its assumption.
LEMMA AboutWiki ==
    ASSUME wiki \in Wikis
    PROVE  /\ IsFiniteSet(Nodes) /\ Top \notin Nodes /\ NoNode \notin Nodes
           /\ wiki.title \in [Nodes -> {"exact", "near", "other"}]
           /\ wiki.below \in [Nodes \cup {Top} -> Seq(Nodes)]
           /\ DOMAIN wiki.below = Nodes \cup {Top}
BY WikisAssumption DEF Nodes

\* What is shown of the children at the head of the queue.
LEMMA AboutShown ==
    ASSUME wiki \in Wikis, parents \in Seq(Nodes \cup {Top}), parents # <<>>
    PROVE  /\ Head(parents) \in Nodes \cup {Top}
           /\ Shown \in Seq(Nodes) /\ Len(Shown) <= MaxPages * NodePage
           /\ Len(wiki.below[Head(parents)]) <= MaxPages * NodePage =>
                  Shown = wiki.below[Head(parents)]
<1> DEFINE all == wiki.below[Head(parents)]
<1>1. Head(parents) \in Nodes \cup {Top} /\ all \in Seq(Nodes) /\ Len(all) \in Nat
  BY AboutWiki
<1>2. Min({Len(all), MaxPages * NodePage}) =
          IF Len(all) <= MaxPages * NodePage THEN Len(all) ELSE MaxPages * NodePage
  BY <1>1, Limits, MinOfTwo
<1> DEFINE n == Min({Len(all), MaxPages * NodePage})
<1>3. Shown = SubSeq(all, 1, n) /\ n \in 0..Len(all) /\ n <= MaxPages * NodePage
  BY <1>1, <1>2, Limits DEF Shown
<1>4. Len(all) <= MaxPages * NodePage => n = Len(all)
  BY <1>2
<1> HIDE DEF n, all
<1>5. SubSeq(all, 1, n) \in Seq(Nodes) /\ Len(SubSeq(all, 1, n)) = n
  BY <1>1, <1>3
<1>6. SubSeq(all, 1, Len(all)) = all
  BY <1>1
<1> QED
  BY <1>1, <1>3, <1>4, <1>5, <1>6 DEF all

\* Numbers of places on a list have a least and a greatest.
LEMMA MinAndMax ==
    ASSUME NEW n \in Nat, NEW s \in SUBSET (1..n), s # {}
    PROVE  Min(s) \in s /\ Max(s) \in s
<1>1. s \in SUBSET Nat
  OBVIOUS
<1> QED
  BY <1>1, MinIsLeast, MaxIsGreatest

\* The types at the start.
LEMMA WikiTypesInit == InspectInit => WikiTypes
<1> SUFFICES ASSUME InspectInit PROVE WikiTypes
  OBVIOUS
<1>1. <<Top>> \in Seq(Nodes \cup {Top})
  OBVIOUS
<1> QED
  BY <1>1, Limits, Counts DEF InspectInit, WikiTypes

\* The types of what is known of the wiki are kept.
LEMMA WikiTypesStep ==
    ASSUME WikiTypes, [InspectNext]_inspectVars
    PROVE  WikiTypes'
<1>0. /\ wiki \in Wikis /\ wiki' = wiki /\ Nodes' = Nodes /\ NodePage \in Nat \ {0}
      /\ MaxPages \in Nat \ {0} /\ MaxNodes \in Nat \ {0} /\ MaxPages * NodePage \in Nat
      /\ TableCount \in Nat
  BY Limits, Counts DEF WikiTypes, InspectNext, InspectStep, FindSpace, ReadPage, ScanNodes, GiveUp,
     MatchNames, ReadSchema, RankSchemas, Assign, CallFails, Raised, inspectVars, Nodes
<1>1. CASE UNCHANGED <<base, wikiVars, schemas>>
  BY <1>0, <1>1 DEF WikiTypes, wikiVars
<1>2. CASE ReadPage
  <2>1. Len(Shown) <= MaxPages * NodePage /\ Len(Shown) \in Nat
    BY <1>2, AboutShown DEF ReadPage, Scanning, WikiTypes
  <2>2. page \in Nat /\ (page + 1) * NodePage < Len(Shown) /\ (page + 1) * NodePage \in Nat
    BY <1>0, <1>2, <2>1 DEF ReadPage, LastPage, WikiTypes
  <2>3. page + 1 < MaxPages
    BY <1>0, <2>1, <2>2, FewerPages
  <2>4. page' \in 0..(MaxPages - 1)
    BY <1>0, <1>2, <2>2, <2>3 DEF ReadPage
  <2> QED
    BY <1>0, <1>2, <2>4 DEF WikiTypes, ReadPage, tableVars
<1>3. CASE \E n \in Nodes : Found(n) /\ UNCHANGED tableVars
  <2>1. <<Top>> \in Seq(Nodes \cup {Top})
    OBVIOUS
  <2> QED
    BY <1>0, <1>3, <2>1 DEF WikiTypes, Found, tableVars
<1>4. CASE ScanNodes
  <2>1. /\ Shown \in Seq(Nodes) /\ Len(Shown) <= MaxPages * NodePage /\ Len(Shown) \in Nat
        /\ scanned < MaxNodes
    BY <1>4, AboutShown DEF ScanNodes, Scanning, WikiTypes
  <2>2. \A how : Titled(how) \in SUBSET (1..Len(Shown)) /\ \A i \in Titled(how) : Shown[i] \in Nodes
    BY <2>1 DEF Titled
  <2>3. \A how : Titled(how) # {} => /\ Shown[Min(Titled(how))] \in Nodes
                                    /\ Shown[Max(Titled(how))] \in Nodes
    BY <2>1, <2>2, MinAndMax
  <2>4. CASE Titled("exact") # {} /\ Found(Shown[Min(Titled("exact"))])
    BY <1>3, <1>4, <2>3, <2>4 DEF ScanNodes
  <2>5. CASE Titled("exact") = {}
    <3>1. WithChildren \in Seq(Nodes)
      BY <2>1, AmongKeeps DEF WithChildren
    <3>2. parents' \in Seq(Nodes \cup {Top})
      <4>1. Tail(parents) \in Seq(Nodes \cup {Top}) /\ WithChildren \in Seq(Nodes \cup {Top})
        BY <1>4, <3>1 DEF WikiTypes, ScanNodes, Scanning
      <4>2. Tail(parents) \o WithChildren \in Seq(Nodes \cup {Top})
        BY <4>1
      <4>3. parents' = Tail(parents) \o WithChildren
        BY <1>4, <2>5 DEF ScanNodes
      <4> QED
        BY <1>0, <4>2, <4>3
    <3>3. scanned' \in 0..(MaxNodes - 1 + MaxPages * NodePage) /\ page' = 0 /\ base' = base
      BY <1>0, <1>4, <2>1, <2>5 DEF ScanNodes, WikiTypes
    <3>4. fallback' \in Nodes \cup {NoNode}
      BY <1>4, <2>3, <2>5 DEF ScanNodes, WikiTypes
    <3> QED
      BY <1>0, <1>4, <3>2, <3>3, <3>4 DEF WikiTypes, ScanNodes, tableVars
  <2> QED
    BY <1>4, <2>4, <2>5 DEF ScanNodes
<1>5. CASE GiveUp
  BY <1>1, <1>3, <1>5 DEF GiveUp, Raised, WikiTypes, tableVars
<1>6. CASE ReadSchema
  <2>1. schemas' \in 0..TableCount
    BY <1>0, <1>6 DEF ReadSchema, WikiTypes
  <2> QED
    BY <1>0, <1>6, <2>1 DEF ReadSchema, WikiTypes, wikiVars
<1> QED
  BY <1>1, <1>2, <1>4, <1>5, <1>6 DEF InspectNext, InspectStep, FindSpace, MatchNames, RankSchemas,
     Assign, CallFails, Raised, inspectVars, tableVars

\* Each variable of the inspection holds what it is meant to, whatever the wiki.
THEOREM InspectTypeCorrect == InspectSpec => []InspectTypeOK
<1>1. InspectInit => TablesInv /\ WikiTypes
  BY InitTables, WikiTypesInit
<1>2. TablesInv /\ WikiTypes /\ [InspectNext]_inspectVars => (TablesInv /\ WikiTypes)'
  BY TablesStep, WikiTypesStep
<1>3. TablesInv /\ WikiTypes => InspectTypeOK
  <2>1. Tables \cup {0} = 0..TableCount
    BY Counts DEF Tables
  <2> QED
    BY <2>1 DEF TablesInv, WikiTypes, InspectTypeOK, TableTypes, AssignedLast, Matches
<1> QED
  BY <1>1, <1>2, <1>3, PTL DEF InspectSpec

-----------------------------------------------------------------------------
(* The search for the base.                                                *)

Below(done) == {q \in Places : q[1] \in done}

\* The nodes in done have been listed, those in the queue will be; the queue
\* holds each once, and nothing but what leads on from done.
ScanOK(done) ==
    /\ done \cup ToSet(parents) \subseteq InSpace
    /\ Top \in done \cup ToSet(parents)
    /\ done \cap ToSet(parents) = {} /\ IsInjective(parents)
    /\ \A n \in (done \cup ToSet(parents)) \ {Top} : \E q \in Below(done) : NodeAt(q) = n
    /\ \A q \in Below(done) :
          /\ wiki.title[NodeAt(q)] # "exact"
          /\ wiki.below[NodeAt(q)] # <<>> => NodeAt(q) \in done \cup ToSet(parents)
    /\ scanned = Cardinality(Below(done))

WikiInv ==
    /\ seeking \in {"space", "nodes"} => base = NoNode
    /\ seeking = "space" => parents = <<Top>> /\ scanned = 0
    /\ fallback # NoNode => wiki.title[fallback] = "near"
    /\ seeking = "nodes" /\ WithinBounds => \E done \in SUBSET DOMAIN wiki.below : ScanOK(done)
    /\ ExactTitleWins

\* What the lists lead to: the top, with each node those below it, and nothing
\* that is not in every set of this kind.
LEMMA SpaceIsClosed ==
    ASSUME wiki \in Wikis
    PROVE  /\ InSpace \subseteq Nodes \cup {Top} /\ Top \in InSpace
           /\ \A p \in InSpace : ToSet(wiki.below[p]) \subseteq InSpace
           /\ \A ns \in SUBSET DOMAIN wiki.below :
                 Top \in ns /\ (\A p \in ns : ToSet(wiki.below[p]) \subseteq ns)
                     => InSpace \subseteq ns
<1>1. /\ InSpace \subseteq Nodes \cup {Top} /\ Top \in InSpace
      /\ \A ns \in SUBSET DOMAIN wiki.below :
            Top \in ns /\ (\A p \in ns : ToSet(wiki.below[p]) \subseteq ns)
                => InSpace \subseteq ns
  BY AboutWiki DEF InSpace
<1>2. ASSUME NEW p \in InSpace, NEW n \in ToSet(wiki.below[p]) PROVE n \in InSpace
  <2>1. n \in DOMAIN wiki.below
    BY <1>1, AboutWiki DEF ToSet
  <2>2. ASSUME NEW ns \in SUBSET DOMAIN wiki.below, Top \in ns,
               \A o \in ns : ToSet(wiki.below[o]) \subseteq ns
        PROVE  n \in ns
    <3>1. p \in ns
      BY <2>2 DEF InSpace
    <3> QED
      BY <2>2, <3>1
  <2> QED
    BY <2>1, <2>2 DEF InSpace
<1> QED
  BY <1>1, <1>2

\* There are finitely many places.
LEMMA FinitePlaces ==
    ASSUME wiki \in Wikis
    PROVE  /\ IsFiniteSet(Places)
           /\ \A done : Below(done) \in SUBSET Places /\ IsFiniteSet(Below(done))
<1>1. IsFiniteSet(Nodes \cup {Top})
  BY AboutWiki, FS_AddElement
<1>2. IsFiniteSet(InSpace)
  BY <1>1, SpaceIsClosed, FS_Subset
<1>3. IsFiniteSet(InSpace \X (1..MaxNodes))
  <2>1. 1 \in Int /\ MaxNodes \in Int
    BY Limits
  <2>2. IsFiniteSet(1..MaxNodes)
    BY <2>1, FS_Interval
  <2> QED
    BY <1>2, <2>2, FS_Product
<1>4. IsFiniteSet(Places)
  BY <1>3, FS_Subset DEF Places
<1>5. \A done : Below(done) \in SUBSET Places
  BY DEF Below
<1> QED
  BY <1>4, <1>5, FS_Subset

\* The places below a node are as many as its list has, when the bounds are kept.
LEMMA PlacesOfNode ==
    ASSUME wiki \in Wikis, WithinBounds, NEW p \in InSpace
    PROVE  /\ Below({p}) = {<<p, i>> : i \in 1..Len(wiki.below[p])}
           /\ Cardinality(Below({p})) = Len(wiki.below[p])
<1> DEFINE n == Len(wiki.below[p])
<1>1. /\ wiki.below[p] \in Seq(Nodes) /\ n \in Nat /\ DOMAIN wiki.below[p] = 1..n
      /\ p \in DOMAIN wiki.below
  BY AboutWiki, SpaceIsClosed
<1>2. n <= MaxNodes
  <2>1. n <= Min({MaxNodes, MaxPages * NodePage})
    BY <1>1 DEF WithinBounds
  <2> QED
    BY <1>1, <2>1, Limits, MinOfTwo
<1> HIDE DEF n
<1>3. Below({p}) = {<<p, i>> : i \in 1..n}
  BY <1>1, <1>2, Limits DEF Below, Places
<1> DEFINE f == [i \in 1..n |-> <<p, i>>]
<1>4. f \in Surjection(1..n, Below({p})) /\ f \in Injection(1..n, Below({p}))
  BY <1>3 DEF Surjection, Injection, IsInjective
<1>5. IsFiniteSet(1..n) /\ Cardinality(1..n) = n
  BY <1>1, FS_Interval
<1>6. Cardinality(Below({p})) = n
  BY <1>4, <1>5, FS_Surjection
<1> QED
  BY <1>3, <1>6 DEF n

\* A node is below one node at one place, within the bounds.
LEMMA OnePlace ==
    ASSUME WithinBounds, NEW p \in Places, NEW q \in Places, NodeAt(p) = NodeAt(q)
    PROVE  p = q
BY DEF WithinBounds

\* The children of a node are at the places below it, and none has been met.
LEMMA NewChildren ==
    ASSUME WikiTypes, WithinBounds, NEW done, ScanOK(done), NEW p \in ToSet(parents)
    PROVE  /\ p \in InSpace /\ p \notin done
           /\ \A i \in DOMAIN wiki.below[p] :
                 /\ <<p, i>> \in Below({p}) /\ NodeAt(<<p, i>>) = wiki.below[p][i]
                 /\ wiki.below[p][i] \notin done \cup ToSet(parents)
           /\ IsInjective(wiki.below[p]) /\ wiki.below[p] \in Seq(Nodes)
<1>1. p \in InSpace /\ p \notin done /\ wiki \in Wikis
  BY DEF ScanOK, WikiTypes
<1>2. wiki.below[p] \in Seq(Nodes) /\ DOMAIN wiki.below[p] = 1..Len(wiki.below[p])
  BY <1>1, AboutWiki, SpaceIsClosed
<1>3. \A i \in DOMAIN wiki.below[p] : <<p, i>> \in Below({p}) /\ <<p, i>> \in Places
  BY <1>1, <1>2, PlacesOfNode, FinitePlaces
<1>4. \A i \in DOMAIN wiki.below[p] : NodeAt(<<p, i>>) = wiki.below[p][i]
  BY DEF NodeAt
<1>5. ASSUME NEW i \in DOMAIN wiki.below[p], wiki.below[p][i] \in done \cup ToSet(parents)
      PROVE  FALSE
  <2>1. wiki.below[p][i] # Top
    BY <1>1, <1>2, AboutWiki
  <2>2. PICK q \in Below(done) : NodeAt(q) = wiki.below[p][i]
    BY <1>5, <2>1 DEF ScanOK
  <2>3. q = <<p, i>>
    BY <1>3, <1>4, <2>2, OnePlace DEF Below
  <2> QED
    BY <1>1, <2>2, <2>3 DEF Below
<1>6. IsInjective(wiki.below[p])
  <2>1. ASSUME NEW i \in DOMAIN wiki.below[p], NEW j \in DOMAIN wiki.below[p],
               wiki.below[p][i] = wiki.below[p][j]
        PROVE  i = j
    <3>1. <<p, i>> = <<p, j>>
      BY <1>3, <1>4, <2>1, OnePlace
    <3> QED
      BY <3>1
  <2> QED
    BY <2>1 DEF IsInjective
<1> QED
  BY <1>1, <1>2, <1>3, <1>4, <1>5, <1>6

\* A scan without an exact title takes the head of the queue to those that are done.
LEMMA ScanOn ==
    ASSUME WikiTypes, WithinBounds, NEW done, ScanOK(done), ScanNodes, Titled("exact") = {},
           NEW p, p = Head(parents)
    PROVE  ScanOK(done \cup {p})'
<1> DEFINE rest == Tail(parents)
           more == WithChildren
<1>1. /\ wiki \in Wikis /\ parents \in Seq(Nodes \cup {Top}) /\ parents # <<>> /\ wiki' = wiki
      /\ scanned' = scanned + Len(Shown) /\ parents' = rest \o more
  BY DEF WikiTypes, ScanNodes, Scanning
<1>2. /\ ToSet(parents) = {p} \cup ToSet(rest) /\ p \notin ToSet(rest)
      /\ rest \in Seq(Nodes \cup {Top}) /\ IsInjective(rest)
  BY <1>1, HeadAndTail DEF ScanOK
<1>3. /\ p \in InSpace /\ p \notin done
      /\ \A i \in DOMAIN wiki.below[p] :
            /\ <<p, i>> \in Below({p}) /\ NodeAt(<<p, i>>) = wiki.below[p][i]
            /\ wiki.below[p][i] \notin done \cup ToSet(parents)
      /\ IsInjective(wiki.below[p]) /\ wiki.below[p] \in Seq(Nodes)
  BY <1>2, NewChildren
<1>4. Shown = wiki.below[p]
  <2>1. p \in DOMAIN wiki.below
    BY <1>1, <1>3, AboutWiki, SpaceIsClosed
  <2>2. Len(wiki.below[p]) <= Min({MaxNodes, MaxPages * NodePage}) /\ Len(wiki.below[p]) \in Nat
    <3>1. \A n \in DOMAIN wiki.below : Len(wiki.below[n]) <= Min({MaxNodes, MaxPages * NodePage})
      BY DEF WithinBounds
    <3>2. wiki.below[p] \in Seq(Nodes)
      BY <1>3
    <3>3. Len(wiki.below[p]) \in Nat
      BY <3>2
    <3>4. Len(wiki.below[p]) <= Min({MaxNodes, MaxPages * NodePage})
      BY <2>1, <3>1, Zenon
    <3> QED
      BY <3>3, <3>4
  <2>3. Len(wiki.below[p]) <= MaxPages * NodePage
    BY <2>2, Limits, MinOfTwo
  <2> QED
    BY <1>1, <2>3, AboutShown
<1>5. /\ more \in Seq(Nodes) /\ more \in Seq(Nodes \cup {Top}) /\ IsInjective(more)
      /\ ToSet(more) = {n \in ToSet(wiki.below[p]) : wiki.below[n] # <<>>}
  <2>1. more = Among(wiki.below[p], {n \in ToSet(wiki.below[p]) : wiki.below[n] # <<>>})
    BY <1>4 DEF WithChildren
  <2>2. more \in Seq(Nodes) /\ IsInjective(more)
    BY <1>3, <2>1, AmongKeeps, AmongInjective
  <2>3. ToSet(more) = {n \in ToSet(wiki.below[p]) : wiki.below[n] # <<>>}
    BY <1>3, <2>1, AmongKeeps
  <2> HIDE DEF more
  <2> QED
    BY <2>2, <2>3
<1>6. \A n \in ToSet(wiki.below[p]) : n \notin done \cup ToSet(parents)
  BY <1>3 DEF ToSet
<1> HIDE DEF rest, more
<1>7. ToSet(parents') = ToSet(rest) \cup ToSet(more) /\ IsInjective(parents')
  <2>1. ToSet(rest) \cap ToSet(more) = {}
    BY <1>2, <1>5, <1>6
  <2> QED
    BY <1>1, <1>2, <1>5, <2>1, ConcatSet, ConcatInjective
<1>8. Below(done \cup {p}) = Below(done) \cup Below({p}) /\ Below(done) \cap Below({p}) = {}
  BY <1>3 DEF Below
<1>9. scanned' = Cardinality(Below(done \cup {p}))
  <2>1. IsFiniteSet(Below(done)) /\ IsFiniteSet(Below({p}))
    BY <1>1, FinitePlaces
  <2>2. Cardinality(Below({p})) = Len(wiki.below[p])
    BY <1>1, <1>3, PlacesOfNode
  <2>3. Cardinality(Below(done)) \in Nat /\ Cardinality(Below({p})) \in Nat
    BY <2>1, FS_CardinalityType
  <2>4. Cardinality(Below(done \cup {p})) = Cardinality(Below(done)) + Cardinality(Below({p}))
    <3> DEFINE a == Below(done)
               b == Below({p})
    <3>1. /\ IsFiniteSet(a) /\ IsFiniteSet(b) /\ Cardinality(a \cap b) = 0
          /\ Cardinality(a) \in Nat /\ Cardinality(b) \in Nat
      BY <1>8, <2>1, <2>3, FS_EmptySet
    <3> HIDE DEF a, b
    <3>2. Cardinality(a \cup b) = Cardinality(a) + Cardinality(b) - Cardinality(a \cap b)
      BY <3>1, FS_Union
    <3>3. Cardinality(a \cup b) = Cardinality(a) + Cardinality(b)
      BY <3>1, <3>2
    <3> QED
      BY <1>8, <3>3, Zenon DEF a, b
  <2> QED
    BY <1>1, <1>4, <2>2, <2>4 DEF ScanOK
<1> DEFINE now == done \cup {p} \cup ToSet(parents')
<1>10. now = done \cup ToSet(parents) \cup ToSet(more)
  BY <1>2, <1>7
<1>11. now \subseteq InSpace /\ Top \in now
  <2>1. ToSet(more) \subseteq InSpace
    BY <1>1, <1>3, <1>5, SpaceIsClosed
  <2> QED
    BY <1>10, <2>1 DEF ScanOK
<1>12. (done \cup {p}) \cap ToSet(parents') = {}
  BY <1>2, <1>3, <1>5, <1>6, <1>7 DEF ScanOK
<1>13. ASSUME NEW n \in now \ {Top} PROVE \E q \in Below(done \cup {p}) : NodeAt(q) = n
  <2>1. CASE n \in done \cup ToSet(parents)
    BY <1>8, <2>1 DEF ScanOK
  <2>2. CASE n \in ToSet(more)
    <3>0. n \in ToSet(wiki.below[p])
      BY <1>5, <2>2
    <3>1. PICK i \in DOMAIN wiki.below[p] : n = wiki.below[p][i]
      BY <3>0 DEF ToSet
    <3> QED
      BY <1>3, <1>8, <3>1
  <2> QED
    BY <1>10, <2>1, <2>2
<1>14. ASSUME NEW q \in Below(done \cup {p})
       PROVE  /\ wiki.title[NodeAt(q)] # "exact"
              /\ wiki.below[NodeAt(q)] # <<>> => NodeAt(q) \in now
  <2>1. CASE q \in Below(done)
    BY <1>10, <2>1 DEF ScanOK
  <2>2. CASE q \in Below({p})
    <3>1. PICK i \in 1..Len(wiki.below[p]) : q = <<p, i>>
      BY <1>1, <1>3, <2>2, PlacesOfNode
    <3>2. i \in DOMAIN wiki.below[p] /\ NodeAt(q) = wiki.below[p][i]
      BY <1>3, <3>1
    <3>3. wiki.title[NodeAt(q)] # "exact"
      BY <1>4, <3>2 DEF Titled
    <3>4. NodeAt(q) \in ToSet(wiki.below[p])
      BY <3>2 DEF ToSet
    <3> QED
      BY <1>5, <1>10, <3>3, <3>4
  <2> QED
    BY <1>8, <2>1, <2>2
<1>15. /\ InSpace' = InSpace /\ Places' = Places
       /\ Below(done \cup {p})' = Below(done \cup {p}) /\ \A q : NodeAt(q)' = NodeAt(q)
  BY <1>1 DEF InSpace, Places, Below, NodeAt
<1> QED
  <2>1. now \subseteq InSpace' /\ Top \in now
    BY <1>11, <1>15
  <2>2. \A n \in now \ {Top} : \E q \in Below(done \cup {p})' : NodeAt(q)' = n
    BY <1>13, <1>15
  <2>3. \A q \in Below(done \cup {p})' :
           /\ wiki'.title[NodeAt(q)'] # "exact"
           /\ wiki'.below[NodeAt(q)'] # <<>> => NodeAt(q)' \in now
    BY <1>1, <1>14, <1>15
  <2>4. scanned' = Cardinality(Below(done \cup {p})')
    BY <1>9, <1>15
  <2> QED
    BY <1>7, <1>12, <2>1, <2>2, <2>3, <2>4 DEF ScanOK

\* When the search is at its end it has met every place of the space.
LEMMA NothingExact ==
    ASSUME WikiTypes, WithinBounds, NEW done \in SUBSET DOMAIN wiki.below, ScanOK(done),
           parents = <<>> \/ scanned >= MaxNodes
    PROVE  \A q \in Places : wiki.title[NodeAt(q)] # "exact"
<1>1. wiki \in Wikis /\ MaxNodes \in Nat
  BY Limits DEF WikiTypes
<1>2. CASE parents = <<>>
  <2> DEFINE ns == done \cup {n \in Nodes \cup {Top} : wiki.below[n] = <<>>}
  <2>1. ToSet(parents) = {}
    <3>1. DOMAIN <<>> = {}
      OBVIOUS
    <3> QED
      BY <1>2, <3>1 DEF ToSet
  <2>2. Top \in ns /\ ns \in SUBSET DOMAIN wiki.below
    BY <1>1, <2>1, AboutWiki DEF ScanOK
  <2>3. ASSUME NEW p \in ns, NEW n \in ToSet(wiki.below[p]) PROVE n \in ns
    <3>1. PICK i \in DOMAIN wiki.below[p] : n = wiki.below[p][i]
      BY DEF ToSet
    <3>2. p \in DOMAIN wiki.below /\ wiki.below[p] \in Seq(Nodes)
      BY <1>1, <2>2, AboutWiki
    <3>3. n \in Nodes
      BY <3>1, <3>2
    <3>4. p \in done
      BY <3>1, <3>2
    <3>5. p \in InSpace
      BY <3>4 DEF ScanOK
    <3>6. <<p, i>> \in Below({p}) /\ NodeAt(<<p, i>>) = n
      BY <1>1, <3>1, <3>2, <3>5, PlacesOfNode DEF NodeAt
    <3>7. <<p, i>> \in Below(done)
      BY <3>4, <3>6 DEF Below
    <3> QED
      BY <2>1, <3>3, <3>6, <3>7 DEF ScanOK
  <2>4. InSpace \subseteq ns
    BY <1>1, <2>2, <2>3, SpaceIsClosed
  <2>5. ASSUME NEW q \in Places PROVE q \in Below(done)
    <3>1. q[1] \in InSpace /\ q[2] \in DOMAIN wiki.below[q[1]]
      BY DEF Places
    <3>2. wiki.below[q[1]] # <<>>
      BY <3>1
    <3> QED
      BY <2>4, <3>1, <3>2 DEF Below
  <2> QED
    BY <2>5 DEF ScanOK
<1>3. CASE scanned >= MaxNodes
  <2>1. IsFiniteSet(Places) /\ Below(done) \in SUBSET Places
    BY <1>1, FinitePlaces
  <2>2. /\ Cardinality(Places) <= MaxNodes /\ scanned = Cardinality(Below(done))
        /\ Cardinality(Below(done)) <= Cardinality(Places) /\ Cardinality(Places) \in Nat
        /\ scanned \in Nat
    BY <2>1, FS_Subset, FS_CardinalityType DEF WithinBounds, ScanOK
  <2>3. Cardinality(Places) = Cardinality(Below(done))
    BY <1>1, <1>3, <2>2
  <2>4. Below(done) = Places
    BY <2>1, <2>3, FS_Subset
  <2> QED
    BY <2>4 DEF ScanOK
<1> QED
  BY <1>2, <1>3

\* The search starts from the top.
LEMMA ScanFromTop ==
    ASSUME wiki \in Wikis, parents = <<Top>>, scanned = 0
    PROVE  ScanOK({})
<1>1. ToSet(parents) = {Top} /\ IsInjective(parents)
  BY DEF ToSet, IsInjective
<1>2. Below({}) = {}
  BY DEF Below
<1>3. Top \in InSpace
  BY SpaceIsClosed
<1> QED
  BY <1>1, <1>2, <1>3, FS_EmptySet DEF ScanOK

\* What is said of a wiki that stays.
LEMMA SameWiki ==
    ASSUME wiki' = wiki
    PROVE  /\ WithinBounds' = WithinBounds
           /\ UNCHANGED <<parents, scanned>> => \A done : ScanOK(done) => ScanOK(done)'
           /\ base' = base => ExactTitleWins' = ExactTitleWins
<1>1. InSpace' = InSpace /\ Places' = Places /\ \A q : NodeAt(q)' = NodeAt(q)
  BY DEF InSpace, Places, NodeAt
<1>2. \A done : Below(done)' = Below(done)
  BY <1>1 DEF Below
<1> QED
  BY <1>1, <1>2 DEF WithinBounds, ScanOK, ExactTitleWins

\* A base that is found ends the search.
LEMMA FoundInv ==
    ASSUME WikiInv, WikiTypes, seeking = "nodes", NEW n, Found(n), wiki' = wiki,
           WithinBounds /\ wiki.title[n] = "near" =>
               \A q \in Places : wiki.title[NodeAt(q)] # "exact"
    PROVE  WikiInv'
<1>1. ExactTitleWins'
  <2>1. Places' = Places /\ \A q : NodeAt(q)' = NodeAt(q)
    BY DEF InSpace, Places, NodeAt
  <2>2. base' = n /\ WithinBounds' = WithinBounds
    BY SameWiki DEF Found
  <2> QED
    BY <2>1, <2>2 DEF ExactTitleWins
<1> QED
  BY <1>1 DEF WikiInv, Found

\* Every step keeps what is known of the search.
LEMMA WikiStep ==
    ASSUME WikiInv, WikiTypes, [InspectNext]_inspectVars
    PROVE  WikiInv'
<1>0. wiki' = wiki
  BY DEF InspectNext, InspectStep, FindSpace, ReadPage, ScanNodes, GiveUp, MatchNames, ReadSchema,
     RankSchemas, Assign, CallFails, Raised, inspectVars
<1>1. CASE /\ UNCHANGED <<base, parents, scanned, fallback>>
           /\ seeking' \in {"space", "nodes"} => seeking' = seeking
  BY <1>0, <1>1, SameWiki DEF WikiInv
<1>2. CASE FindSpace
  <2>1. UNCHANGED <<base, parents, scanned, fallback>> /\ seeking = "space"
    BY <1>2 DEF FindSpace, Raised, wikiVars
  <2>2. CASE seeking' = "nodes"
    <3>1. ScanOK({})
      BY <2>1, ScanFromTop DEF WikiInv, WikiTypes
    <3>2. ScanOK({})'
      BY <1>0, <2>1, <3>1, SameWiki
    <3> QED
      BY <1>0, <2>1, <2>2, <3>2, SameWiki DEF WikiInv
  <2>3. CASE seeking' = "raised"
    BY <1>1, <2>1, <2>3
  <2> QED
    BY <1>2, <2>2, <2>3 DEF FindSpace, Raised
<1>3. CASE ReadPage
  BY <1>1, <1>3 DEF ReadPage
<1>4. CASE ScanNodes
  <2>1. seeking = "nodes" /\ parents # <<>>
    BY <1>4 DEF ScanNodes, Scanning
  <2>2. /\ Shown \in Seq(Nodes) /\ Len(Shown) \in Nat
        /\ \A how : Titled(how) \in SUBSET (1..Len(Shown))
    BY <2>1, AboutShown DEF WikiTypes, Titled
  <2>3. CASE Titled("exact") # {}
    <3>1. Min(Titled("exact")) \in Titled("exact")
      BY <2>2, <2>3, MinAndMax
    <3>2. wiki.title[Shown[Min(Titled("exact"))]] = "exact"
      BY <3>1 DEF Titled
    <3>3. Found(Shown[Min(Titled("exact"))])
      BY <1>4, <2>3 DEF ScanNodes
    <3> DEFINE n == Shown[Min(Titled("exact"))]
    <3>4. PICK m : m = n
      OBVIOUS
    <3>5. Found(m) /\ wiki.title[m] = "exact"
      BY <3>2, <3>3, <3>4
    <3> QED
      BY <1>0, <2>1, <3>5, FoundInv
  <2>4. CASE Titled("exact") = {}
    <3>1. fallback' # NoNode => wiki'.title[fallback'] = "near"
      <4>1. CASE Titled("near") = {}
        BY <1>0, <1>4, <2>4, <4>1 DEF ScanNodes, WikiInv
      <4>2. CASE Titled("near") # {}
        <5>1. Max(Titled("near")) \in Titled("near")
          BY <2>2, <4>2, MinAndMax
        <5>2. wiki.title[Shown[Max(Titled("near"))]] = "near"
          BY <5>1 DEF Titled
        <5> QED
          BY <1>0, <1>4, <2>4, <4>2, <5>2 DEF ScanNodes
      <4> QED
        BY <4>1, <4>2
    <3>2. base' = base /\ seeking' = seeking
      BY <1>4, <2>4 DEF ScanNodes
    <3>3. WithinBounds' => \E done \in SUBSET DOMAIN wiki'.below : ScanOK(done)'
      <4> SUFFICES ASSUME WithinBounds PROVE \E done \in SUBSET DOMAIN wiki.below : ScanOK(done)'
        BY <1>0, SameWiki
      <4>1. PICK done \in SUBSET DOMAIN wiki.below : ScanOK(done)
        BY <2>1 DEF WikiInv
      <4>2. PICK p : p = Head(parents)
        OBVIOUS
      <4>3. p \in DOMAIN wiki.below
        BY <2>1, <4>2, AboutWiki, AboutShown DEF WikiTypes
      <4>4. ScanOK(done \cup {p})'
        BY <1>4, <2>4, <4>1, <4>2, ScanOn
      <4> QED
        BY <4>1, <4>3, <4>4
    <3> QED
      BY <1>0, <2>1, <3>1, <3>2, <3>3, SameWiki DEF WikiInv
  <2> QED
    BY <2>3, <2>4
<1>5. CASE GiveUp
  <2>1. CASE fallback # NoNode /\ Found(fallback)
    <3>1. /\ seeking = "nodes" /\ parents \in Seq(Nodes \cup {Top})
          /\ parents = <<>> \/ scanned >= MaxNodes
      BY <1>5, Limits DEF GiveUp, Scanning, WikiTypes
    <3>2. WithinBounds => \A q \in Places : wiki.title[NodeAt(q)] # "exact"
      BY <3>1, NothingExact DEF WikiInv
    <3>3. PICK m : m = fallback
      OBVIOUS
    <3> QED
      BY <1>0, <2>1, <3>1, <3>2, <3>3, FoundInv
  <2>2. CASE Raised
    BY <1>1, <2>2 DEF Raised, wikiVars
  <2> QED
    BY <1>5, <2>1, <2>2 DEF GiveUp
<1>6. CASE MatchNames \/ ReadSchema \/ RankSchemas \/ Assign
  <2>1. UNCHANGED <<base, parents, scanned, fallback>>
    BY <1>6 DEF MatchNames, ReadSchema, RankSchemas, Assign, wikiVars
  <2>2. seeking' \notin {"space", "nodes"}
    BY <1>6 DEF MatchNames, ReadSchema, RankSchemas, Assign
  <2> QED
    BY <1>1, <2>1, <2>2
<1>7. CASE CallFails \/ UNCHANGED inspectVars
  BY <1>1, <1>7 DEF CallFails, Raised, inspectVars, wikiVars
<1> QED
  BY <1>2, <1>3, <1>4, <1>5, <1>6, <1>7 DEF InspectNext, InspectStep

\* In any space that keeps the bounds of the search a base with the title itself is
\* found before one is taken that comes near.
THEOREM ExactTitlesWin == InspectSpec => []ExactTitleWins
<1>1. InspectInit => WikiInv
  BY DEF InspectInit, WikiInv, ExactTitleWins
<1>2. InspectInit => WikiTypes
  BY WikiTypesInit
<1>3. WikiInv /\ WikiTypes /\ [InspectNext]_inspectVars => WikiInv' /\ WikiTypes'
  BY WikiStep, WikiTypesStep
<1>4. WikiInv => ExactTitleWins
  BY DEF WikiInv
<1> QED
  BY <1>1, <1>2, <1>3, <1>4, PTL DEF InspectSpec

\* The inspection works on the best base and tables that it may find: whatever the
\* wiki, the bounds and the scores, and whatever call fails.
THEOREM BestFound == InspectSpec => []BestIsFound
BY InspectTypeCorrect, ExactTitlesWin, TablesSuitRoles, PTL DEF BestIsFound

=============================================================================
