---------------------------- MODULE InboxProofs -----------------------------
(***************************************************************************)
(* For every number of requests, notifications and page sizes: once a      *)
(* notification is marked read and the mark is committed, the time in it   *)
(* stays, unless a request writes that had loaded it before; and a client  *)
(* that turns the pages sees every notification once, whatever is added or *)
(* marked between two pages.                                               *)
(***************************************************************************)
EXTENDS Inbox, RowStoreProofs, FiniteSetTheorems

NoticeRows == [i \in Ids |-> Row]
NoticeFixed == [i \in Ids |-> {"created"}]

\* What a handler makes of a notification, it makes of one that was unread.
FromUnread == {p \in Row \X Row : p[1].read = NotRead}

Inv ==
  /\ StoreGood(NoticeRows, NoticeFixed)
  /\ Based(FromUnread)
  /\ Undeleted
  /\ clock \in Times

LEMMA NoticeTables == Tables(NoticeRows, NoticeFixed) /\ Mixable(NoticeRows, FromUnread)
<1>1. \A e, old, cur \in Row : Written(e, old, cur) \in Row
  BY DEF Row, Written
<1>2. \A e \in Row : {"created"} \subseteq DOMAIN e
  BY DEF Row
<1>3. Tables(NoticeRows, NoticeFixed)
  BY <1>1, <1>2, InboxAssumption DEF Tables, NoticeRows, NoticeFixed
<1>4. ASSUME NEW row \in Row, NEW entity \in Row, NEW old \in Row, NEW cur \in Row,
             <<row, entity>> \in FromUnread
      PROVE  <<row, Written(entity, old, cur)>> \in FromUnread
  BY <1>1, <1>4 DEF FromUnread
<1>5. Mixable(NoticeRows, FromUnread)
  BY <1>4 DEF Mixable, NoticeRows
<1>. QED
  BY <1>3, <1>5

LEMMA InboxInit == Init => Inv
<1>. SUFFICES ASSUME Init PROVE Inv
  OBVIOUS
<1>1. Nothing \in [Ids -> AnyVersion(NoticeRows)] /\ \A i \in Ids : Nothing[i] = NoRow
  BY NothingTyped
<1>2. StoreTyped(NoticeRows)
  BY <1>1 DEF Init, StoreInit, StoreTyped
<1>3. StoreInv
  BY <1>1 DEF Init, StoreInit, StoreInv
<1>4. \A i \in Ids : Versions(i) = {}
  BY <1>1 DEF Init, StoreInit, Versions
<1>5. Fixed(NoticeFixed)
  BY <1>4 DEF Fixed
<1>6. Based(FromUnread) /\ Undeleted /\ clock \in Times
  BY <1>1, InboxAssumption DEF Init, StoreInit, Based, Undeleted, Times
<1>. QED
  BY <1>2, <1>3, <1>5, <1>6 DEF Inv, StoreGood

\* MarkRead and Notify stage what the invariant allows.
LEMMA NoticeStaged ==
  ASSUME Inv, NEW s \in Sessions, NEW i \in Ids, NEW entity \in Row, NEW next,
         pc[s] = "idle", Stage(s, Only(i, entity), next), clock' = clock,
         \/ next = "insert" /\ Fresh(i)
         \/ next = "save" /\ rows[i] # NoRow /\ rows[i].read = NotRead
                          /\ entity.created = rows[i].created
  PROVE  Inv'
<1>. DEFINE entities == Only(i, entity)
<1>1. /\ \A j \in Ids : entities[j] = IF j = i THEN entity ELSE NoRow
      /\ entities \in [Ids -> AnyVersion(NoticeRows)]
  BY NothingTyped, AnyRow DEF Only, NoticeRows
<1>2. StoreTyped(NoticeRows) /\ StoreInv /\ Fixed(NoticeFixed)
  BY DEF Inv, StoreGood
<1>3. rows[i] # NoRow => rows[i] \in Row /\ rows[i] \in Versions(i)
  BY <1>2, NoticeTables DEF StoreTyped, Tables, NoticeRows, Versions
<1>4. ASSUME NEW w \in Versions(i) PROVE entity.created = w.created
  <2>1. CASE next = "insert"
    <3>1. rows[i] = NoRow /\ \A u \in Sessions : staged[u][i] = NoRow /\ draft[u][i] = NoRow
                                               /\ seen[u][i] = NoRow
      BY <1>2, <2>1 DEF Fresh, StoreInv
    <3>. QED
      BY <3>1 DEF Versions
  <2>2. CASE next = "save" /\ rows[i] # NoRow
    BY <1>2, <1>3, <2>2 DEF Fixed, NoticeFixed
  <2>. QED
    BY <2>1, <2>2
<1>5. Stageable(NoticeRows, NoticeFixed, s, entities, next)
  <2>1. \A j \in Ids : draft[s][j] = NoRow
    BY <1>2 DEF StoreInv, Writing
  <2>2. \A j \in Ids : entities[j] # NoRow =>
          /\ entities[j] \in NoticeRows[j]
          /\ \A w \in Versions(j) : \A c \in NoticeFixed[j] : entities[j][c] = w[c]
    BY <1>1, <1>4 DEF NoticeRows, NoticeFixed
  <2>3. \A j \in Ids : entities[j] # NoRow =>
          IF next = "insert" THEN Fresh(j)
          ELSE pc[s] # "insert" /\ rows[j] # NoRow
    BY <1>1
  <2>. QED
    BY <1>1, <2>1, <2>2, <2>3 DEF Stageable
<1>6. StoreGood(NoticeRows, NoticeFixed)'
  BY <1>5, StageGood, NoticeTables DEF Inv
<1>7. Based(FromUnread)'
  <2>1. \A j \in Ids : entities[j] # NoRow /\ rows[j] # NoRow /\ j \notin outdated[s] =>
          <<rows[j], entities[j]>> \in FromUnread
    BY <1>1, <1>3 DEF Fresh, FromUnread
  <2>. QED
    BY <1>2, <2>1, StageBased DEF Inv
<1>8. Undeleted'
  BY StepUndeleted, NoticeTables DEF Inv, Stage
<1>. QED
  BY <1>6, <1>7, <1>8 DEF Inv

LEMMA InboxStep == Inv /\ [Next]_vars => Inv'
<1>. SUFFICES ASSUME Inv, [Next]_vars PROVE Inv'
  OBVIOUS
<1>0. StoreTyped(NoticeRows) /\ Tables(NoticeRows, NoticeFixed) /\ Mixable(NoticeRows, FromUnread)
  BY NoticeTables DEF Inv, StoreGood
<1>1. ASSUME NEW s \in Sessions, NEW i \in Ids, Notify(s, i) PROVE Inv'
  <2>1. [created |-> clock, read |-> NotRead] \in Row
    BY DEF Inv, Row
  <2>. QED
    BY <1>1, <2>1, NoticeStaged DEF Notify, TakeUp
<1>2. ASSUME NEW s \in Sessions, NEW i \in Ids, MarkRead(s, i) PROVE Inv'
  <2>1. rows[i] \in Row
    BY <1>0, <1>2 DEF StoreTyped, NoticeRows, MarkRead
  <2>2. /\ [rows[i] EXCEPT !.read = clock] \in Row
        /\ [rows[i] EXCEPT !.read = clock].created = rows[i].created
    BY <2>1 DEF Inv, Row
  <2>. QED
    BY <1>2, <2>2, NoticeStaged DEF MarkRead, TakeUp
<1>3. ASSUME NEW s \in Sessions, NEW i \in Ids, Save(s, i) PROVE Inv'
  <2>1. CASE SelectRow(s, i)
    <3>1. UNCHANGED <<rows, staged, draft, outdated>>
      BY <2>1 DEF SelectRow
    <3>. QED
      BY <1>0, <1>3, <2>1, <3>1, SelectGood, QuietBased, StepUndeleted DEF Inv, Save
  <2>2. CASE WriteRow(s, i)
    BY <1>0, <1>3, <2>2, WriteGood, WriteBased, StepUndeleted DEF Inv, Save
  <2>. QED
    BY <1>3, <2>1, <2>2 DEF Save
<1>4. ASSUME NEW s \in Sessions, Insert(s) PROVE Inv'
  BY <1>0, <1>4, InsertGood, InsertBased, StepUndeleted DEF Inv, Insert
<1>5. ASSUME NEW s \in Sessions, Commit(s) PROVE Inv'
  BY <1>0, <1>5, CommitGood, CommitBased, StepUndeleted DEF Inv, Commit
<1>6. ASSUME NEW s \in Sessions, Fail(s) PROVE Inv'
  BY <1>0, <1>6, RollbackGood, RollbackBased, StepUndeleted DEF Inv, Fail, Abort
<1>7. CASE UNCHANGED storeVars /\ clock' \in Times
  BY <1>7 DEF Inv, StoreGood, StoreTyped, StoreInv, Fixed, Versions, Based, Undeleted, storeVars
<1>8. CASE StartPass \/ NextPage \/ Tick \/ UNCHANGED vars
  BY <1>7, <1>8, InboxAssumption DEF Inv, StartPass, NextPage, Tick, vars, Times
<1>. QED
  BY <1>1, <1>2, <1>3, <1>4, <1>5, <1>6, <1>8 DEF Next

THEOREM InboxInvariant == Spec => []Inv
BY InboxInit, InboxStep, PTL DEF Spec

\* notification.py:37-41: the time at which a notification was read does not
\* move, for any number of requests; only a request that loaded it unread before
\* that commit can still write another time.
THEOREM ReadOnce == Spec => ReadIsFinal
<1>1. Inv /\ [Next]_vars =>
        [\A i \in Ids : rows[i] # NoRow /\ rows[i].read # NotRead =>
           rows'[i] = rows[i] \/ i \in lost']_vars
  <2>. SUFFICES ASSUME Inv, [Next]_vars, NEW i \in Ids,
                       rows[i] # NoRow, rows[i].read # NotRead
                PROVE  rows'[i] = rows[i] \/ i \in lost'
    OBVIOUS
  <2>0. StoreTyped(NoticeRows) /\ Tables(NoticeRows, NoticeFixed) /\ Based(FromUnread)
    BY NoticeTables DEF Inv, StoreGood
  <2>1. ASSUME NEW s \in Sessions, Commit(s) PROVE rows'[i] = rows[i] \/ i \in lost'
    <3>1. \/ rows'[i] = rows[i] \/ rows'[i] = NoRow
          \/ <<rows[i], rows'[i]>> \in FromUnread \/ i \in lost'
      BY <2>0, <2>1, CommitReplaces DEF Commit
    <3>2. <<rows[i], rows'[i]>> \notin FromUnread
      BY DEF FromUnread
    <3>3. rows'[i] # NoRow
      BY <2>0, <2>1, RowStays DEF Commit, Inv
    <3>. QED
      BY <3>1, <3>2, <3>3
  <2>2. CASE \A s \in Sessions : ~Commit(s)
    <3>1. rows' = rows
      BY <2>2 DEF Next, vars, storeVars, Notify, MarkRead, Save, Insert, Fail, Stage,
         SelectRow, WriteRow, InsertRows, Abort, Rollback, StartPass, NextPage, Tick
    <3>. QED
      BY <3>1
  <2>. QED
    BY <2>1, <2>2
<1>. QED
  BY <1>1, InboxInvariant, PTL DEF Spec, ReadIsFinal

-----------------------------------------------------------------------------
(***************************************************************************)
(* The pages.                                                              *)
(***************************************************************************)

\* What transaction s will add to the inbox or change in it.
Touched(s) == {i \in Ids : staged[s][i] # NoRow \/ draft[s][i] # NoRow}

\* There are finitely many notifications, so a query can put them in order.
Few == IsFiniteSet(Listed(FALSE)) /\ \A s \in Sessions : IsFiniteSet(Touched(s))

\* A notification that is not committed yet is known to its transaction only;
\* none that has been read is ever written as unread again.
Marks ==
  \A s \in Sessions, i \in Ids :
    /\ staged[s][i] # NoRow => draft[s][i] = NoRow
    /\ rows[i] = NoRow /\ i \in Touched(s) => \A u \in Sessions \ {s} : i \notin Touched(u)
    /\ rows[i] # NoRow =>
         /\ staged[s][i] # NoRow => staged[s][i].read # NotRead
         /\ draft[s][i] # NoRow => draft[s][i].read # NotRead
         /\ seen[s][i] # NoRow /\ seen[s][i].read # NotRead => rows[i].read # NotRead

\* What a pass has shown is newer than its cursor, or is the cursor.
Turned ==
  /\ pass \in Passes
  /\ Shown \cup pass.start \subseteq Listed(FALSE)
  /\ pass.open => /\ pass.cursor \in Listed(FALSE)
                  /\ \A i \in Shown : i = pass.cursor \/ Newer(i, pass.cursor)

PassInv == Few /\ Marks /\ Turned /\ PassShowsEachOnce

\* Newer orders the notifications in the table.
LEMMA NewerOrders ==
  ASSUME Inv
  PROVE  /\ \A i, j \in Listed(FALSE) : i # j => Newer(i, j) \/ Newer(j, i)
         /\ \A i \in Listed(FALSE) : ~Newer(i, i)
         /\ \A i, j, k \in Listed(FALSE) : Newer(i, j) /\ Newer(j, k) => Newer(i, k)
<1>1. \A i \in Listed(FALSE) : i \in Nat /\ rows[i].created \in Nat
  <2>1. \A i \in Listed(FALSE) : rows[i] \in Row
    BY DEF Inv, StoreGood, StoreTyped, NoticeRows, Listed
  <2>. QED
    BY <2>1, InboxAssumption DEF Listed, Row, Times
<1>2. \A i, j \in Listed(FALSE) : i # j => Newer(i, j) \/ Newer(j, i)
  <2>. SUFFICES ASSUME NEW i \in Listed(FALSE), NEW j \in Listed(FALSE), i # j
                PROVE  Newer(i, j) \/ Newer(j, i)
    OBVIOUS
  <2>1. /\ i \in Nat /\ rows[i].created \in Nat
        /\ j \in Nat /\ rows[j].created \in Nat
    BY <1>1
  <2>. QED
    BY <2>1 DEF Newer
<1>3. \A i \in Listed(FALSE) : ~Newer(i, i)
  <2>. SUFFICES ASSUME NEW i \in Listed(FALSE) PROVE ~Newer(i, i)
    OBVIOUS
  <2>1. i \in Nat /\ rows[i].created \in Nat
    BY <1>1
  <2>. QED
    BY <2>1 DEF Newer
<1>4. \A i, j, k \in Listed(FALSE) : Newer(i, j) /\ Newer(j, k) => Newer(i, k)
  <2>. SUFFICES ASSUME NEW i \in Listed(FALSE), NEW j \in Listed(FALSE),
                       NEW k \in Listed(FALSE), Newer(i, j), Newer(j, k)
                PROVE  Newer(i, k)
    OBVIOUS
  <2>1. /\ i \in Nat /\ rows[i].created \in Nat
        /\ j \in Nat /\ rows[j].created \in Nat
        /\ k \in Nat /\ rows[k].created \in Nat
    BY <1>1
  <2>. QED
    BY <2>1 DEF Newer
<1>. QED
  BY <1>2, <1>3, <1>4

\* ORDER BY: finitely many notifications have a list that is sorted and shows each.
\* The place of a notification is one more than the number of the newer ones.
LEMMA Sorted ==
  ASSUME Inv, NEW S \in SUBSET Listed(FALSE), IsFiniteSet(S)
  PROVE  /\ Cardinality(S) \in Nat
         /\ NewestFirst(S) \in [1..Cardinality(S) -> S]
         /\ \A m, n \in 1..Cardinality(S) :
              m < n => Newer(NewestFirst(S)[m], NewestFirst(S)[n])
         /\ \A i \in S : \E n \in 1..Cardinality(S) : NewestFirst(S)[n] = i
<1>. DEFINE N == Cardinality(S)
            before(i) == {j \in S : Newer(j, i)}
            place == [i \in S |-> Cardinality(before(i)) + 1]
            list == [n \in 1..N |-> CHOOSE i \in S : place[i] = n]
<1>0. /\ \A i, j \in S : i # j => Newer(i, j) \/ Newer(j, i)
      /\ \A i \in S : ~Newer(i, i)
      /\ \A i, j, k \in S : Newer(i, j) /\ Newer(j, k) => Newer(i, k)
  BY NewerOrders
<1>1. N \in Nat
  BY FS_CardinalityType
<1>2. ASSUME NEW i \in S
      PROVE  IsFiniteSet(before(i)) /\ Cardinality(before(i)) \in Nat
             /\ Cardinality(before(i)) < N
  <2>1. before(i) \in SUBSET (S \ {i})
    BY <1>0
  <2>2. IsFiniteSet(S \ {i}) /\ Cardinality(S \ {i}) = N - 1
    BY FS_RemoveElement
  <2>3. IsFiniteSet(before(i)) /\ Cardinality(before(i)) <= N - 1
    BY <2>1, <2>2, FS_Subset
  <2>4. Cardinality(before(i)) \in Nat
    BY <2>3, FS_CardinalityType
  <2>. QED
    BY <1>1, <2>3, <2>4
<1>3. ASSUME NEW i \in S, NEW j \in S, Newer(i, j)
      PROVE  place[i] < place[j]
  <2>1. before(i) \cup {i} \in SUBSET before(j) /\ i \notin before(i)
    BY <1>0, <1>3
  <2>2. /\ IsFiniteSet(before(i)) /\ Cardinality(before(i)) \in Nat
        /\ IsFiniteSet(before(j)) /\ Cardinality(before(j)) \in Nat
    BY <1>2
  <2>3. Cardinality(before(i) \cup {i}) = Cardinality(before(i)) + 1
    BY <2>1, <2>2, FS_AddElement
  <2>4. Cardinality(before(i) \cup {i}) <= Cardinality(before(j))
    BY <2>1, <2>2, FS_Subset
  <2>5. place[i] = Cardinality(before(i)) + 1 /\ place[j] = Cardinality(before(j)) + 1
    OBVIOUS
  <2>. HIDE DEF before, place
  <2>. QED
    BY <2>2, <2>3, <2>4, <2>5
<1>4. place \in [S -> 1..N]
  <2>1. ASSUME NEW i \in S PROVE Cardinality(before(i)) + 1 \in 1..N
    <3>1. Cardinality(before(i)) \in Nat /\ Cardinality(before(i)) < N
      BY <1>2
    <3>. HIDE DEF before, N
    <3>. QED
      BY <1>1, <3>1
  <2>. QED
    BY <2>1
<1>. HIDE DEF place
<1>5. \A i, j \in S : place[i] = place[j] => i = j
  <2>1. \A i \in S : place[i] \in Nat
    BY <1>1, <1>4
  <2>. QED
    BY <1>0, <1>3, <2>1
<1>6. \A n \in 1..N : \E i \in S : place[i] = n
  <2>1. place \in Injection(S, 1..N)
    BY <1>4, <1>5 DEF Injection, IsInjective
  <2>2. IsFiniteSet(1..N) /\ Cardinality(1..N) = N
    BY <1>1, FS_Interval
  <2>3. place \in Surjection(S, 1..N)
    BY <2>1, <2>2, FS_Injection
  <2>. QED
    BY <2>3 DEF Surjection
<1>7. \A n \in 1..N : list[n] \in S /\ place[list[n]] = n
  BY <1>6
<1>8. list \in [1..N -> S]
  BY <1>7
<1>. HIDE DEF list
<1>9. \A m, n \in 1..N : m < n => Newer(list[m], list[n])
  <2>. SUFFICES ASSUME NEW m \in 1..N, NEW n \in 1..N, m < n PROVE Newer(list[m], list[n])
    OBVIOUS
  <2>1. /\ list[m] \in S /\ place[list[m]] = m
        /\ list[n] \in S /\ place[list[n]] = n
    BY <1>7
  <2>2. ~Newer(list[n], list[m]) /\ list[n] # list[m]
    BY <1>1, <1>3, <2>1
  <2>. QED
    BY <1>0, <2>1, <2>2
<1>10. \E f \in [1..N -> S] : \A m, n \in DOMAIN f : m < n => Newer(f[m], f[n])
  <2>1. DOMAIN list = 1..N
    BY <1>8
  <2>. QED
    BY <1>8, <1>9, <2>1
<1>. DEFINE sorted == NewestFirst(S)
<1>11. /\ sorted \in [1..N -> S]
       /\ \A m, n \in DOMAIN sorted : m < n => Newer(sorted[m], sorted[n])
  BY <1>10 DEF NewestFirst
<1>. HIDE DEF sorted
<1>12. \A m, n \in 1..N : m < n => Newer(sorted[m], sorted[n])
  BY <1>11
<1>13. \A i \in S : \E n \in 1..N : sorted[n] = i
  <2>1. \A m, n \in 1..N : sorted[m] = sorted[n] => m = n
    <3>1. \A m, n \in 1..N : m # n => m < n \/ n < m
      BY <1>1
    <3>. QED
      BY <1>0, <1>11, <1>12, <3>1
  <2>2. sorted \in Injection(1..N, S)
    BY <1>11, <2>1 DEF Injection, IsInjective
  <2>3. IsFiniteSet(1..N) /\ Cardinality(1..N) = N
    BY <1>1, FS_Interval
  <2>4. sorted \in Surjection(1..N, S)
    BY <2>2, <2>3, FS_Injection
  <2>. QED
    BY <2>4 DEF Surjection
<1>. QED
  BY <1>1, <1>11, <1>12, <1>13 DEF sorted

\* What a pass knows when it asks for a page.
Resumes(unread, cursor, shown, start) ==
  /\ \A m, n \in 1..Len(shown) : shown[m] = shown[n] => m = n
  /\ \A n \in 1..Len(shown) :
       /\ cursor \in Listed(FALSE) /\ shown[n] \in Listed(FALSE)
       /\ shown[n] = cursor \/ Newer(shown[n], cursor)
  /\ \A i \in start :
       \/ \E n \in 1..Len(shown) : shown[n] = i
       \/ cursor \notin Listed(FALSE) \/ Newer(cursor, i)
       \/ unread /\ rows[i].read # NotRead

\* One page: what it adds to a pass follows the cursor in the order of the pages,
\* and what it leaves out follows the next cursor.
LEMMA PageTurned ==
  ASSUME Inv, Few, UNCHANGED rows,
         NEW unread \in BOOLEAN, NEW limit \in Limits,
         NEW cursor \in Ids \cup Foreign \cup {NoCursor},
         NEW shown \in Seq(Ids), NEW start \in SUBSET Listed(FALSE),
         ReadPage(unread, limit, cursor, shown, start),
         Resumes(unread, cursor, shown, start)
  PROVE  Turned' /\ PassShowsEachOnce'
<1>. /\ \A m, n \in 1..Len(shown) : shown[m] = shown[n] => m = n
     /\ \A n \in 1..Len(shown) :
          /\ cursor \in Listed(FALSE) /\ shown[n] \in Listed(FALSE)
          /\ shown[n] = cursor \/ Newer(shown[n], cursor)
     /\ \A i \in start :
          \/ \E n \in 1..Len(shown) : shown[n] = i
          \/ cursor \notin Listed(FALSE) \/ Newer(cursor, i)
          \/ unread /\ rows[i].read # NotRead
  BY DEF Resumes
<1>. DEFINE A == After(unread, cursor)
            found == NewestFirst(A)
            N == Cardinality(A)
            L == Clamp(limit)
            more == Len(found) > L
            page == IF more THEN SubSeq(found, 1, L) ELSE found
            M == IF more THEN L ELSE N
            all == shown \o page
<1>1. A \in SUBSET Listed(FALSE) /\ IsFiniteSet(A)
  <2>1. A \in SUBSET Listed(FALSE)
    BY DEF After, Listed
  <2>. QED
    BY <2>1, FS_Subset DEF Few
<1>2. /\ N \in Nat /\ found \in [1..N -> A]
      /\ \A m, n \in 1..N : m < n => Newer(found[m], found[n])
      /\ \A i \in A : \E n \in 1..N : found[n] = i
  BY <1>1, Sorted
<1>3. Listed(FALSE) \subseteq Ids
  BY DEF Listed
<1>4. \A i \in A : /\ i \in Listed(FALSE) /\ i \in Ids
                   /\ cursor \in Listed(FALSE) => Newer(cursor, i)
  BY <1>1, <1>3 DEF After
<1>5. \A i \in Listed(FALSE) :
        \/ i \in A
        \/ cursor \in Listed(FALSE) /\ ~Newer(cursor, i)
        \/ unread /\ rows[i].read # NotRead
  BY DEF After, Listed
<1>6. L \in Nat /\ L >= 1
  BY InboxAssumption DEF Clamp
<1>7. pass' = [open |-> more, unread |-> unread, limit |-> limit,
               cursor |-> IF more THEN page[Len(page)] ELSE NoCursor,
               shown |-> all, start |-> start]
  BY DEF ReadPage
<1>. HIDE DEF A, L, N, found
<1>8. /\ found \in Seq(Ids) /\ Len(found) = N
  <2>1. \A n \in 1..N : found[n] \in Ids
    BY <1>2, <1>4
  <2>2. found \in [1..N -> Ids]
    BY <1>2, <2>1
  <2>. QED
    BY <1>2, <2>2
<1>9. /\ page \in Seq(Ids) /\ Len(page) = M
      /\ M \in Nat /\ M <= N /\ \A n \in 1..M : page[n] = found[n]
  BY <1>2, <1>6, <1>8
<1>10. more => M = L /\ M >= 1 /\ M < N
  BY <1>6, <1>8
<1>11. ~more => M = N
  OBVIOUS
<1>. HIDE DEF page, more, M
<1>12. /\ all \in Seq(Ids) /\ Len(all) = Len(shown) + M
       /\ \A n \in 1..Len(shown) : all[n] = shown[n]
       /\ \A n \in 1..M : all[Len(shown) + n] = found[n]
  BY <1>9
<1>13. \A n \in 1..Len(all) :
         \/ n \in 1..Len(shown) /\ all[n] = shown[n]
         \/ \E k \in 1..M : n = Len(shown) + k /\ all[n] = found[k]
  <2>. SUFFICES ASSUME NEW n \in 1..Len(all), n \notin 1..Len(shown)
                PROVE  n - Len(shown) \in 1..M /\ n = Len(shown) + (n - Len(shown))
    BY <1>12
  <2>1. Len(shown) \in Nat
    OBVIOUS
  <2>. QED
    BY <1>9, <1>12, <2>1
<1>. HIDE DEF all
<1>14. \A k \in 1..M : k \in 1..N /\ found[k] \in A
  BY <1>2, <1>9
<1>15. \A i, j \in Listed(FALSE) : Newer(i, j) => i # j /\ ~Newer(j, i)
  BY NewerOrders
<1>16. \A m, n \in 1..Len(all) : all[m] = all[n] => m = n
  <2>1. \A k \in 1..M, n \in 1..Len(shown) : found[k] # shown[n]
    BY <1>4, <1>14, <1>15
  <2>2. ASSUME NEW j \in 1..M, NEW k \in 1..M, found[j] = found[k] PROVE j = k
    <3>1. j \in 1..N /\ k \in 1..N /\ found[j] \in Listed(FALSE) /\ found[k] \in Listed(FALSE)
      BY <1>4, <1>14
    <3>2. ~(j < k) /\ ~(k < j)
      BY <1>2, <1>15, <2>2, <3>1
    <3>. QED
      BY <1>2, <3>1, <3>2
  <2>. SUFFICES ASSUME NEW m \in 1..Len(all), NEW n \in 1..Len(all), all[m] = all[n]
                PROVE  m = n
    OBVIOUS
  <2>3. CASE m \in 1..Len(shown) /\ all[m] = shown[m]
    <3>1. n \in 1..Len(shown) /\ all[n] = shown[n]
      BY <1>13, <2>1, <2>3
    <3>. QED
      BY <2>3, <3>1
  <2>4. ASSUME NEW j \in 1..M, m = Len(shown) + j, all[m] = found[j] PROVE m = n
    <3>. PICK k \in 1..M : n = Len(shown) + k /\ all[n] = found[k]
      BY <1>13, <2>1, <2>4
    <3>. QED
      BY <2>2, <2>4
  <2>. QED
    BY <1>13, <2>3, <2>4
<1>17. more => page[Len(page)] = found[M] /\ found[M] \in A /\ M \in 1..M
  BY <1>9, <1>10, <1>14
<1>18. ASSUME more, NEW n \in 1..Len(all)
       PROVE  all[n] = found[M] \/ Newer(all[n], found[M])
  <2>0. found[M] \in A /\ found[M] \in Listed(FALSE)
    BY <1>4, <1>17, <1>18
  <2>1. CASE n \in 1..Len(shown) /\ all[n] = shown[n]
    <3>1. /\ cursor \in Listed(FALSE) /\ shown[n] \in Listed(FALSE)
          /\ Newer(cursor, found[M])
      BY <1>4, <2>0, <2>1
    <3>. QED
      BY <2>0, <2>1, <3>1, NewerOrders
  <2>2. ASSUME NEW k \in 1..M, all[n] = found[k] PROVE all[n] = found[M] \/ Newer(all[n], found[M])
    <3>1. k = M \/ k < M
      BY <1>9
    <3>. QED
      BY <1>2, <1>14, <1>17, <1>18, <2>2, <3>1
  <2>. QED
    BY <1>13, <2>1, <2>2
<1>19. \A n \in 1..Len(all) : all[n] \in Listed(FALSE)
  BY <1>4, <1>13, <1>14
<1>20. \A n \in 1..Len(shown) : \E k \in 1..Len(all) : all[k] = shown[n]
  BY <1>9, <1>12
<1>21. \A k \in 1..M : \E n \in 1..Len(all) : all[n] = found[k]
  <2>. SUFFICES ASSUME NEW k \in 1..M PROVE Len(shown) + k \in 1..Len(all)
    BY <1>12
  <2>. QED
    BY <1>9, <1>12
<1>22. ASSUME NEW i \in start
       PROVE  \/ \E n \in 1..Len(all) : all[n] = i
              \/ more /\ Newer(found[M], i)
              \/ unread /\ rows[i].read # NotRead
  <2>1. CASE \E n \in 1..Len(shown) : shown[n] = i
    BY <1>20, <2>1
  <2>2. CASE i \in A
    <3>. PICK k \in 1..N : found[k] = i
      BY <1>2, <2>2
    <3>1. CASE k \in 1..M
      BY <1>21, <3>1
    <3>2. CASE k \notin 1..M
      <4>1. more /\ M < k
        BY <1>2, <1>9, <1>11, <3>2
      <4>2. M \in 1..N
        BY <1>14, <1>17, <4>1
      <4>3. Newer(found[M], found[k])
        BY <1>2, <4>1, <4>2
      <4>. QED
        BY <4>1, <4>3
    <3>. QED
      BY <3>1, <3>2
  <2>. QED
    BY <1>5, <2>1, <2>2
<1>23. /\ pass'.open = more /\ pass'.unread = unread /\ pass'.limit = limit
       /\ pass'.cursor = IF more THEN found[M] ELSE NoCursor
       /\ pass'.shown = all /\ pass'.start = start
  BY <1>7, <1>17
<1>24. pass' \in Passes
  <2>1. more \in BOOLEAN
    BY DEF more
  <2>2. (IF more THEN page[Len(page)] ELSE NoCursor) \in Ids \cup Foreign \cup {NoCursor}
    BY <1>4, <1>17
  <2>3. start \in SUBSET Ids
    BY <1>3
  <2>. QED
    BY <1>7, <1>12, <2>1, <2>2, <2>3 DEF Passes
<1>25. /\ Listed(FALSE)' = Listed(FALSE)
       /\ \A i, j : Newer(i, j)' <=> Newer(i, j)
       /\ \A i : rows'[i] = rows[i]
  BY DEF Listed, Newer
<1>26. Shown' = {all[n] : n \in 1..Len(all)}
  BY <1>12, <1>23 DEF Shown
<1>27. Turned'
  <2>1. Shown' \cup pass'.start \subseteq Listed(FALSE)
    BY <1>19, <1>23, <1>26
  <2>2. ASSUME more
        PROVE  /\ pass'.cursor \in Listed(FALSE)
               /\ \A i \in Shown' : i = pass'.cursor \/ Newer(i, pass'.cursor)
    BY <1>4, <1>17, <1>18, <1>23, <1>26, <2>2
  <2>. QED
    BY <1>23, <1>24, <1>25, <2>1, <2>2 DEF Turned
<1>28. PassShowsEachOnce'
  <2>1. \A i \in pass'.start : \/ i \in Shown'
                               \/ pass'.open /\ Newer(pass'.cursor, i)
                               \/ pass'.unread /\ rows'[i].read # NotRead
    BY <1>22, <1>23, <1>25, <1>26
  <2>2. \A m, n \in DOMAIN pass'.shown : pass'.shown[m] = pass'.shown[n] => m = n
    BY <1>12, <1>16, <1>23
  <2>. QED
    BY <1>25, <2>1, <2>2 DEF PassShowsEachOnce
<1>. QED
  BY <1>27, <1>28

\* What a handler stages, and what a transaction touches, step by step.
LEMMA StagedNotice ==
  ASSUME Inv, NEW s \in Sessions, NEW i \in Ids, NEW entity \in Row, NEW next,
         pc[s] = "idle", Stage(s, Only(i, entity), next)
  PROVE  /\ rows' = rows /\ seen' = seen /\ draft' = draft
         /\ \A u \in Sessions, j \in Ids :
              staged'[u][j] = IF u = s /\ j = i THEN entity ELSE staged[u][j]
         /\ \A j \in Ids : staged[s][j] = NoRow /\ draft[s][j] = NoRow /\ seen[s][j] = NoRow
<1>1. \A j \in Ids : Only(i, entity)[j] = IF j = i THEN entity ELSE NoRow
  BY NothingTyped DEF Only
<1>2. StoreTyped(NoticeRows) /\ StoreInv
  BY DEF Inv, StoreGood
<1>3. \A j \in Ids : staged[s][j] = NoRow /\ draft[s][j] = NoRow /\ seen[s][j] = NoRow
  BY <1>2 DEF StoreInv, Writing
<1>4. \A u \in Sessions : staged'[u] = IF u = s THEN Only(i, entity) ELSE staged[u]
  BY <1>2 DEF Stage, StoreTyped
<1>. QED
  BY <1>1, <1>3, <1>4 DEF Stage

\* A query always finds finitely many notifications.
LEMMA FewNext == Inv /\ Inv' /\ Few /\ [Next]_vars => Few'
<1>. SUFFICES ASSUME Inv, Inv', Few, [Next]_vars PROVE Few'
  OBVIOUS
<1>0. StoreTyped(NoticeRows) /\ StoreInv /\ Undeleted
  BY DEF Inv, StoreGood
<1>1. ASSUME NEW s \in Sessions, NEW i \in Ids, NEW entity \in Row, NEW next,
             pc[s] = "idle", Stage(s, Only(i, entity), next)
      PROVE  Few'
  <2>1. /\ Listed(FALSE)' = Listed(FALSE)
        /\ \A u \in Sessions : Touched(u)' \in SUBSET (Touched(u) \cup {i})
    BY <1>1, StagedNotice DEF Listed, Touched
  <2>2. \A u \in Sessions : IsFiniteSet(Touched(u) \cup {i})
    BY FS_AddElement DEF Few
  <2>. QED
    BY <2>1, <2>2, FS_Subset DEF Few
<1>2. ASSUME Listed(FALSE)' = Listed(FALSE),
             \A u \in Sessions : Touched(u)' \in SUBSET Touched(u)
      PROVE  Few'
  BY <1>2, FS_Subset DEF Few
<1>3. ASSUME NEW s \in Sessions, NEW i \in Ids, Notify(s, i) \/ MarkRead(s, i) PROVE Few'
  <2>1. CASE Notify(s, i)
    <3>1. [created |-> clock, read |-> NotRead] \in Row
      BY DEF Inv, Row
    <3>. QED
      BY <1>1, <2>1, <3>1 DEF Notify, TakeUp
  <2>2. CASE MarkRead(s, i)
    <3>1. rows[i] \in Row
      BY <1>0, <2>2 DEF StoreTyped, NoticeRows, MarkRead
    <3>2. [rows[i] EXCEPT !.read = clock] \in Row
      BY <3>1 DEF Inv, Row
    <3>. QED
      BY <1>1, <2>2, <3>2 DEF MarkRead, TakeUp
  <2>. QED
    BY <1>3, <2>1, <2>2
<1>4. ASSUME NEW s \in Sessions, NEW i \in Ids, Save(s, i) PROVE Few'
  <2>1. CASE SelectRow(s, i)
    BY <1>2, <2>1 DEF SelectRow, Listed, Touched
  <2>2. CASE WriteRow(s, i)
    <3>1. /\ rows' = rows /\ staged[s][i] # NoRow
          /\ \A u \in Sessions, j \in Ids :
               /\ staged'[u][j] # NoRow => staged[u][j] # NoRow
               /\ draft'[u][j] # NoRow => (u = s /\ j = i) \/ draft[u][j] # NoRow
      BY <1>0, <2>2 DEF WriteRow, Unsaved, StoreTyped
    <3>. QED
      BY <1>2, <3>1 DEF Listed, Touched
  <2>. QED
    BY <1>4, <2>1, <2>2 DEF Save
<1>5. ASSUME NEW s \in Sessions, Insert(s) PROVE Few'
  <2>1. /\ rows' = rows /\ \A j \in Ids : Nothing[j] = NoRow
        /\ \A u \in Sessions : /\ draft'[u] = IF u = s THEN staged[s] ELSE draft[u]
                               /\ staged'[u] = IF u = s THEN Nothing ELSE staged[u]
    BY <1>0, <1>5, NothingTyped DEF Insert, InsertRows, StoreTyped
  <2>. QED
    BY <1>2, <2>1 DEF Listed, Touched
<1>6. ASSUME NEW s \in Sessions, Close(s)
      PROVE  \A u \in Sessions : Touched(u)' \in SUBSET Touched(u)
  BY <1>0, <1>6, ClosedSession DEF Touched
<1>7. ASSUME NEW s \in Sessions, Commit(s) PROVE Few'
  <2>1. \A j \in Ids : rows'[j] # NoRow => rows[j] # NoRow \/ draft[s][j] # NoRow
    BY <1>7 DEF Commit, CommitRows, View
  <2>2. Listed(FALSE)' \in SUBSET (Listed(FALSE) \cup Touched(s))
    BY <2>1 DEF Listed, Touched
  <2>3. IsFiniteSet(Listed(FALSE) \cup Touched(s))
    BY FS_Union DEF Few
  <2>4. \A u \in Sessions : Touched(u)' \in SUBSET Touched(u)
    BY <1>6, <1>7 DEF Commit, CommitRows
  <2>. QED
    BY <2>2, <2>3, <2>4, FS_Subset DEF Few
<1>8. ASSUME NEW s \in Sessions, Fail(s) PROVE Few'
  <2>1. Close(s) /\ rows' = rows
    BY <1>8 DEF Fail, Abort, Rollback
  <2>. QED
    BY <1>2, <1>6, <2>1 DEF Listed
<1>9. CASE StartPass \/ NextPage \/ Tick \/ UNCHANGED vars
  BY <1>9, <1>2 DEF StartPass, NextPage, Tick, vars, storeVars, Listed, Touched
<1>. QED
  BY <1>3, <1>4, <1>5, <1>7, <1>8, <1>9 DEF Next

\* What is committed as read is not written as unread again, whoever races.
LEMMA MarksStage ==
  ASSUME Inv, Marks, NEW s \in Sessions, NEW i \in Ids, NEW entity \in Row, NEW next,
         pc[s] = "idle", Stage(s, Only(i, entity), next),
         Fresh(i) \/ (rows[i] # NoRow /\ entity.read # NotRead)
  PROVE  Marks'
<1>1. /\ rows' = rows /\ seen' = seen /\ draft' = draft
      /\ \A u \in Sessions, j \in Ids :
           staged'[u][j] = IF u = s /\ j = i THEN entity ELSE staged[u][j]
      /\ \A j \in Ids : staged[s][j] = NoRow /\ draft[s][j] = NoRow /\ seen[s][j] = NoRow
  BY StagedNotice
<1>2. \A u \in Sessions, j \in Ids :
        j \in Touched(u)' <=> j \in Touched(u) \/ (u = s /\ j = i)
  BY <1>1, InboxAssumption DEF Touched
<1>. SUFFICES ASSUME NEW u \in Sessions, NEW j \in Ids
              PROVE  /\ staged'[u][j] # NoRow => draft'[u][j] = NoRow
                     /\ rows'[j] = NoRow /\ j \in Touched(u)' =>
                          \A v \in Sessions \ {u} : j \notin Touched(v)'
                     /\ rows'[j] # NoRow =>
                          /\ staged'[u][j] # NoRow => staged'[u][j].read # NotRead
                          /\ draft'[u][j] # NoRow => draft'[u][j].read # NotRead
                          /\ seen'[u][j] # NoRow /\ seen'[u][j].read # NotRead =>
                               rows'[j].read # NotRead
  BY DEF Marks
<1>3. staged'[u][j] # NoRow => draft'[u][j] = NoRow
  BY <1>1 DEF Marks
<1>4. rows'[j] = NoRow /\ j \in Touched(u)' =>
        \A v \in Sessions \ {u} : j \notin Touched(v)'
  <2>1. CASE j = i
    <3>1. rows[i] = NoRow => \A v \in Sessions : i \notin Touched(v)
      BY DEF Fresh, Touched
    <3>. QED
      BY <1>1, <1>2, <2>1, <3>1
  <2>2. CASE j # i
    BY <1>1, <1>2, <2>2 DEF Marks
  <2>. QED
    BY <2>1, <2>2
<1>5. rows'[j] # NoRow =>
        /\ staged'[u][j] # NoRow => staged'[u][j].read # NotRead
        /\ draft'[u][j] # NoRow => draft'[u][j].read # NotRead
        /\ seen'[u][j] # NoRow /\ seen'[u][j].read # NotRead => rows'[j].read # NotRead
  BY <1>1 DEF Marks, Fresh
<1>. QED
  BY <1>3, <1>4, <1>5

LEMMA MarksWrite ==
  ASSUME Inv, Marks, NEW s \in Sessions, NEW i \in Ids, WriteRow(s, i)
  PROVE  Marks'
<1>. DEFINE version == Written(staged[s][i], seen[s][i], View(s, i))
<1>0. StoreTyped(NoticeRows) /\ StoreInv
  BY DEF Inv, StoreGood
<1>1. /\ rows' = rows /\ staged[s][i] # NoRow /\ seen[s][i] # NoRow
      /\ \A u \in Sessions, j \in Ids :
           /\ staged'[u][j] = IF u = s /\ j = i THEN NoRow ELSE staged[u][j]
           /\ seen'[u][j] = IF u = s /\ j = i THEN NoRow ELSE seen[u][j]
           /\ draft'[u][j] = IF u = s /\ j = i THEN version ELSE draft[u][j]
  BY <1>0 DEF WriteRow, Unsaved, StoreTyped
<1>2. staged[s][i] \in Row /\ seen[s][i] \in Row
  BY <1>0, <1>1 DEF StoreTyped, NoticeRows
<1>3. rows[i] # NoRow => version.read # NotRead
  <2>. SUFFICES ASSUME rows[i] # NoRow PROVE version.read # NotRead
    OBVIOUS
  <2>1. draft[s][i] = NoRow /\ staged[s][i].read # NotRead
    BY <1>1 DEF Marks
  <2>2. View(s, i) = rows[i]
    BY <2>1, InboxAssumption DEF View
  <2>3. version.read = IF staged[s][i].read # seen[s][i].read
                       THEN staged[s][i].read ELSE rows[i].read
    BY <1>2, <2>2 DEF Written, Row
  <2>. QED
    BY <1>1, <2>1, <2>3 DEF Marks
<1>. HIDE DEF version
<1>4. \A u \in Sessions : Touched(u)' \subseteq Touched(u)
  BY <1>1 DEF Touched
<1>5. \A u \in Sessions, j \in Ids : staged'[u][j] # NoRow => draft'[u][j] = NoRow
  BY <1>1 DEF Marks
<1>6. \A u \in Sessions, j \in Ids : rows'[j] = NoRow /\ j \in Touched(u)' =>
        \A v \in Sessions \ {u} : j \notin Touched(v)'
  BY <1>1, <1>4 DEF Marks
<1>7. \A u \in Sessions, j \in Ids : rows'[j] # NoRow =>
        /\ staged'[u][j] # NoRow => staged'[u][j].read # NotRead
        /\ draft'[u][j] # NoRow => draft'[u][j].read # NotRead
        /\ seen'[u][j] # NoRow /\ seen'[u][j].read # NotRead => rows'[j].read # NotRead
  BY <1>1, <1>3 DEF Marks
<1>. QED
  BY <1>5, <1>6, <1>7 DEF Marks

LEMMA MarksClose ==
  ASSUME Inv, Marks, NEW s \in Sessions, Close(s),
         \A i \in Ids : rows'[i] = rows[i] \/ (rows'[i] = draft[s][i] /\ draft[s][i] # NoRow)
  PROVE  Marks' /\ \A i \in Ids : rows[i] # NoRow /\ rows[i].read # NotRead =>
                                    rows'[i].read # NotRead
<1>0. StoreTyped(NoticeRows) /\ StoreInv
  BY DEF Inv, StoreGood
<1>1. \A u \in Sessions, j \in Ids :
        /\ staged'[u][j] = IF u = s THEN NoRow ELSE staged[u][j]
        /\ seen'[u][j] = IF u = s THEN NoRow ELSE seen[u][j]
        /\ draft'[u][j] = IF u = s THEN NoRow ELSE draft[u][j]
  BY <1>0, ClosedSession
<1>2. \A u \in Sessions : Touched(u)' \subseteq Touched(u)
  BY <1>1 DEF Touched
<1>3. \A i \in Ids : rows[i] # NoRow /\ rows[i].read # NotRead => rows'[i].read # NotRead
  BY DEF Marks
<1>4. \A u \in Sessions, j \in Ids : staged'[u][j] # NoRow => draft'[u][j] = NoRow
  BY <1>1 DEF Marks
<1>5. \A u \in Sessions, j \in Ids : rows'[j] = NoRow /\ j \in Touched(u)' =>
        \A v \in Sessions \ {u} : j \notin Touched(v)'
  BY <1>2 DEF Marks
<1>6. ASSUME NEW u \in Sessions, NEW j \in Ids, rows'[j] # NoRow
      PROVE  /\ staged'[u][j] # NoRow => staged'[u][j].read # NotRead
             /\ draft'[u][j] # NoRow => draft'[u][j].read # NotRead
             /\ seen'[u][j] # NoRow /\ seen'[u][j].read # NotRead => rows'[j].read # NotRead
  <2>1. CASE rows[j] # NoRow
    BY <1>1, <1>3, <2>1 DEF Marks
  <2>2. CASE rows[j] = NoRow
    <3>1. j \in Touched(s)
      BY <1>6, <2>2 DEF Touched
    <3>2. u # s => staged[u][j] = NoRow /\ draft[u][j] = NoRow
      BY <2>2, <3>1 DEF Marks, Touched
    <3>3. u # s => seen[u][j] = NoRow
      BY <1>0, <3>2 DEF StoreInv
    <3>. QED
      BY <1>1, <3>2, <3>3
  <2>. QED
    BY <2>1, <2>2
<1>. QED
  BY <1>3, <1>4, <1>5, <1>6 DEF Marks

LEMMA MarksNext ==
  Inv /\ Marks /\ [Next]_vars =>
    Marks' /\ \A i \in Ids : rows[i] # NoRow /\ rows[i].read # NotRead => rows'[i].read # NotRead
<1>. DEFINE Stays == \A i \in Ids : rows[i] # NoRow /\ rows[i].read # NotRead =>
                                      rows'[i].read # NotRead
<1>. SUFFICES ASSUME Inv, Marks, [Next]_vars PROVE Marks' /\ Stays
  OBVIOUS
<1>0. StoreTyped(NoticeRows) /\ StoreInv /\ Undeleted
  BY DEF Inv, StoreGood
<1>1. ASSUME UNCHANGED rows PROVE Stays
  BY <1>1
<1>2. ASSUME NEW s \in Sessions, NEW i \in Ids, Notify(s, i) PROVE Marks' /\ Stays
  <2>1. [created |-> clock, read |-> NotRead] \in Row
    BY DEF Inv, Row
  <2>2. Marks'
    BY <1>2, <2>1, MarksStage DEF Notify, TakeUp
  <2>3. rows' = rows
    BY <1>2 DEF Notify, Stage
  <2>. QED
    BY <1>1, <2>2, <2>3
<1>3. ASSUME NEW s \in Sessions, NEW i \in Ids, MarkRead(s, i) PROVE Marks' /\ Stays
  <2>1. rows[i] \in Row /\ clock # NotRead
    BY <1>0, <1>3, InboxAssumption DEF Inv, Times, StoreTyped, NoticeRows, MarkRead
  <2>2. /\ [rows[i] EXCEPT !.read = clock] \in Row
        /\ [rows[i] EXCEPT !.read = clock].read # NotRead
    BY <2>1 DEF Inv, Row
  <2>3. Marks'
    BY <1>3, <2>2, MarksStage DEF MarkRead, TakeUp
  <2>4. rows' = rows
    BY <1>3 DEF MarkRead, Stage
  <2>. QED
    BY <1>1, <2>3, <2>4
<1>4. ASSUME NEW s \in Sessions, NEW i \in Ids, Save(s, i) PROVE Marks' /\ Stays
  <2>1. CASE SelectRow(s, i)
    <3>1. /\ rows' = rows /\ staged' = staged /\ draft' = draft /\ staged[s][i] # NoRow
          /\ \A u \in Sessions, j \in Ids :
               seen'[u][j] = IF u = s /\ j = i THEN View(s, i) ELSE seen[u][j]
      BY <1>0, <2>1 DEF SelectRow, Unsaved, StoreTyped
    <3>2. View(s, i) = rows[i]
      BY <3>1, InboxAssumption DEF Marks, View
    <3>. QED
      BY <1>1, <3>1, <3>2 DEF Marks, Touched
  <2>2. CASE WriteRow(s, i)
    BY <1>1, <2>2, MarksWrite DEF WriteRow
  <2>. QED
    BY <1>4, <2>1, <2>2 DEF Save
<1>5. ASSUME NEW s \in Sessions, Insert(s) PROVE Marks' /\ Stays
  <2>1. /\ rows' = rows /\ seen' = seen /\ pc[s] = "insert"
        /\ \A u \in Sessions : /\ draft'[u] = IF u = s THEN staged[s] ELSE draft[u]
                               /\ staged'[u] = IF u = s THEN Nothing ELSE staged[u]
    BY <1>0, <1>5 DEF Insert, InsertRows, StoreTyped
  <2>2. \A j \in Ids : /\ Nothing[j] = NoRow /\ draft[s][j] = NoRow
                       /\ staged[s][j] # NoRow => rows[j] = NoRow
    BY <1>0, <2>1, NothingTyped DEF StoreInv, Writing
  <2>3. \A u \in Sessions : Touched(u)' = Touched(u)
    BY <2>1, <2>2 DEF Touched
  <2>. QED
    BY <1>1, <2>1, <2>2, <2>3 DEF Marks
<1>6. ASSUME NEW s \in Sessions, Commit(s) PROVE Marks' /\ Stays
  <2>1. Close(s) /\ rows' = [i \in Ids |-> View(s, i)]
    BY <1>6 DEF Commit, CommitRows
  <2>2. \A i \in Ids : rows'[i] = rows[i] \/ (rows'[i] = draft[s][i] /\ draft[s][i] # NoRow)
    BY <1>0, <2>1 DEF View, Undeleted
  <2>. QED
    BY <2>1, <2>2, MarksClose
<1>7. ASSUME NEW s \in Sessions, Fail(s) PROVE Marks' /\ Stays
  <2>1. Close(s) /\ rows' = rows
    BY <1>7 DEF Fail, Abort, Rollback
  <2>. QED
    BY <2>1, MarksClose
<1>8. CASE StartPass \/ NextPage \/ Tick \/ UNCHANGED vars
  <2>1. UNCHANGED <<rows, staged, seen, draft>>
    BY <1>8 DEF StartPass, NextPage, Tick, vars, storeVars
  <2>. QED
    BY <1>1, <2>1 DEF Marks, Touched
<1>. QED
  BY <1>2, <1>3, <1>4, <1>5, <1>6, <1>7, <1>8 DEF Next

\* Between two pages, notifications appear and are marked; none of them
\* disappears or changes its place.
LEMMA SameOrder ==
  ASSUME Inv, [Next]_vars
  PROVE  /\ Listed(FALSE) \subseteq Listed(FALSE)'
         /\ \A i, j \in Listed(FALSE) : Newer(i, j) <=> Newer(i, j)'
<1>0. StoreTyped(NoticeRows) /\ StoreInv /\ Undeleted /\ Fixed(NoticeFixed)
      /\ Tables(NoticeRows, NoticeFixed)
  BY NoticeTables DEF Inv, StoreGood
<1>1. \A i \in Ids : rows[i] # NoRow =>
        rows'[i] # NoRow /\ rows'[i].created = rows[i].created
  <2>1. ASSUME NEW s \in Sessions, Commit(s), NEW i \in Ids, rows[i] # NoRow
        PROVE  rows'[i] # NoRow /\ rows'[i].created = rows[i].created
    <3>1. /\ draft[s][i] = NoRow => rows'[i] = rows[i]
          /\ draft[s][i] # NoRow => rows'[i] = draft[s][i]
      BY <1>0, <2>1, CommitRowsChanges DEF Commit, Undeleted
    <3>2. draft[s][i] # NoRow => draft[s][i].created = rows[i].created
      <4>1. draft[s][i] # NoRow => draft[s][i] \in Versions(i) /\ rows[i] \in Versions(i)
        BY <1>0, <2>1 DEF Versions, Undeleted, StoreTyped, Tables
      <4>. QED
        BY <1>0, <4>1 DEF Fixed, NoticeFixed
    <3>. QED
      BY <2>1, <3>1, <3>2
  <2>2. CASE \A s \in Sessions : ~Commit(s)
    <3>1. rows' = rows
      BY <2>2 DEF Next, vars, storeVars, Notify, MarkRead, Save, Insert, Fail, Stage,
         SelectRow, WriteRow, InsertRows, Abort, Rollback, StartPass, NextPage, Tick
    <3>. QED
      BY <3>1
  <2>. QED
    BY <2>1, <2>2
<1>2. Listed(FALSE) \subseteq Listed(FALSE)'
  BY <1>1 DEF Listed
<1>3. \A i, j \in Listed(FALSE) : Newer(i, j) <=> Newer(i, j)'
  BY <1>1 DEF Listed, Newer
<1>. QED
  BY <1>2, <1>3

LEMMA PassNext == Inv /\ PassInv /\ [Next]_vars => (Turned /\ PassShowsEachOnce)'
<1>. SUFFICES ASSUME Inv, Few, Marks, Turned, PassShowsEachOnce, [Next]_vars
              PROVE  Turned' /\ PassShowsEachOnce'
  BY DEF PassInv
<1>1. /\ pass \in Passes /\ DOMAIN pass.shown = 1..Len(pass.shown)
      /\ pass.shown \in Seq(Ids) /\ pass.unread \in BOOLEAN /\ pass.limit \in Limits
      /\ pass.cursor \in Ids \cup Foreign \cup {NoCursor}
  BY DEF Turned, Passes
<1>2. ASSUME StartPass PROVE Turned' /\ PassShowsEachOnce'
  <2>. PICK unread \in BOOLEAN, cursor \in Foreign \cup {NoCursor} :
         ReadPage(unread, pass.limit, cursor, <<>>, Listed(unread))
    BY <1>2 DEF StartPass
  <2>1. cursor \notin Listed(FALSE)
    BY InboxAssumption DEF Listed
  <2>2. Listed(unread) \in SUBSET Listed(FALSE) /\ rows' = rows
    BY <1>2 DEF Listed, StartPass, storeVars
  <2>3. <<>> \in Seq(Ids) /\ \A n \in 1..Len(<<>>) : FALSE
    OBVIOUS
  <2>4. Resumes(unread, cursor, <<>>, Listed(unread))
    BY <2>1, <2>3 DEF Resumes
  <2>. QED
    BY <1>1, <2>2, <2>3, <2>4, PageTurned
<1>3. ASSUME NextPage PROVE Turned' /\ PassShowsEachOnce'
  <2>1. /\ ReadPage(pass.unread, pass.limit, pass.cursor, pass.shown, pass.start)
        /\ rows' = rows /\ pass.open
    BY <1>3 DEF NextPage, storeVars
  <2>2. pass.start \in SUBSET Listed(FALSE)
    BY DEF Turned
  <2>3. \A n \in 1..Len(pass.shown) :
          /\ pass.cursor \in Listed(FALSE) /\ pass.shown[n] \in Listed(FALSE)
          /\ pass.shown[n] = pass.cursor \/ Newer(pass.shown[n], pass.cursor)
    BY <1>1, <2>1 DEF Turned, Shown
  <2>4. \A m, n \in 1..Len(pass.shown) : pass.shown[m] = pass.shown[n] => m = n
    BY <1>1 DEF PassShowsEachOnce
  <2>5. \A i \in pass.start :
          \/ \E n \in 1..Len(pass.shown) : pass.shown[n] = i
          \/ pass.cursor \notin Listed(FALSE) \/ Newer(pass.cursor, i)
          \/ pass.unread /\ rows[i].read # NotRead
    <3>1. \A i \in pass.start : \/ i \in Shown
                                \/ pass.open /\ Newer(pass.cursor, i)
                                \/ pass.unread /\ rows[i].read # NotRead
      BY DEF PassShowsEachOnce
    <3>2. \A i \in Shown : \E n \in 1..Len(pass.shown) : pass.shown[n] = i
      BY <1>1 DEF Shown
    <3>. QED
      BY <3>1, <3>2
  <2>6. Resumes(pass.unread, pass.cursor, pass.shown, pass.start)
    BY <2>3, <2>4, <2>5 DEF Resumes
  <2>. QED
    BY <1>1, <2>1, <2>2, <2>6, PageTurned
<1>4. CASE UNCHANGED pass
  <2>1. /\ Listed(FALSE) \subseteq Listed(FALSE)'
        /\ \A i, j \in Listed(FALSE) : Newer(i, j) <=> Newer(i, j)'
    BY SameOrder
  <2>2. \A i \in Ids : rows[i] # NoRow /\ rows[i].read # NotRead => rows'[i].read # NotRead
    BY MarksNext
  <2>3. Shown' = Shown
    BY <1>4 DEF Shown
  <2>4. Shown \subseteq Listed(FALSE) /\ pass.start \subseteq Listed(FALSE)
    BY DEF Turned
  <2>5. \A i \in Listed(FALSE) : i \in Ids /\ rows[i] # NoRow
    BY DEF Listed
  <2>6. Turned'
    <3>1. pass'.open => /\ pass'.cursor \in Listed(FALSE)'
                        /\ \A i \in Shown' : i = pass'.cursor \/ Newer(i, pass.cursor)'
      <4>1. pass.open => /\ pass.cursor \in Listed(FALSE)
                         /\ \A i \in Shown : i = pass.cursor \/ Newer(i, pass.cursor)
        BY DEF Turned
      <4>. QED
        BY <1>4, <2>1, <2>3, <2>4, <4>1
    <3>. QED
      BY <1>1, <1>4, <2>1, <2>3, <2>4, <3>1 DEF Turned
  <2>7. PassShowsEachOnce'
    <3>1. \A i \in pass'.start : \/ i \in Shown'
                                 \/ pass'.open /\ Newer(pass.cursor, i)'
                                 \/ pass'.unread /\ rows'[i].read # NotRead
      <4>1. pass.open => pass.cursor \in Listed(FALSE)
        BY DEF Turned
      <4>2. \A i \in pass.start : \/ i \in Shown
                                  \/ pass.open /\ Newer(pass.cursor, i)
                                  \/ pass.unread /\ rows[i].read # NotRead
        BY DEF PassShowsEachOnce
      <4>. QED
        BY <1>4, <2>1, <2>2, <2>3, <2>4, <2>5, <4>1, <4>2
    <3>. QED
      BY <1>4, <3>1 DEF PassShowsEachOnce
  <2>. QED
    BY <2>6, <2>7
<1>5. StartPass \/ NextPage \/ UNCHANGED pass
  BY DEF Next, vars, Notify, MarkRead, Save, Insert, Commit, Fail, Tick
<1>. QED
  BY <1>2, <1>3, <1>4, <1>5

LEMMA PassInit == Init => PassInv
<1>. SUFFICES ASSUME Init PROVE PassInv
  OBVIOUS
<1>1. Nothing \in [Ids -> AnyVersion(NoticeRows)] /\ \A i \in Ids : Nothing[i] = NoRow
  BY NothingTyped
<1>2. Listed(FALSE) = {} /\ \A s \in Sessions : Touched(s) = {}
  BY <1>1 DEF Init, StoreInit, Listed, Touched
<1>3. Few
  BY <1>2, FS_EmptySet DEF Few
<1>4. Marks
  BY <1>1, <1>2 DEF Init, StoreInit, Marks
<1>5. /\ pass.open = FALSE /\ pass.unread = FALSE /\ pass.limit \in Limits
      /\ pass.cursor = NoCursor /\ pass.shown = <<>> /\ pass.start = {}
      /\ pass = [open |-> FALSE, unread |-> FALSE, limit |-> pass.limit,
                 cursor |-> NoCursor, shown |-> <<>>, start |-> {}]
  <2>1. pass \in [open : {FALSE}, unread : {FALSE}, limit : Limits, cursor : {NoCursor},
                  shown : {<<>>}, start : {{}}]
    BY DEF Init
  <2>. QED
    BY <2>1
<1>6. pass \in Passes /\ Shown = {}
  <2>1. <<>> \in Seq(Ids) /\ DOMAIN <<>> = {}
    OBVIOUS
  <2>. QED
    BY <1>5, <2>1 DEF Passes, Shown
<1>7. Turned
  BY <1>5, <1>6 DEF Turned
<1>8. PassShowsEachOnce
  <2>1. DOMAIN pass.shown = {}
    BY <1>5
  <2>. QED
    BY <1>5, <2>1 DEF PassShowsEachOnce
<1>. QED
  BY <1>3, <1>4, <1>7, <1>8 DEF PassInv

\* notification_repository.py:67-100: for any number of requests, notifications
\* and page sizes, page after page shows everything that was there when the
\* client began, unless it asked for unread ones and it has been read since, and
\* nothing twice.
THEOREM EachShownOnce == Spec => []PassShowsEachOnce
<1>1. Inv /\ Inv' /\ PassInv /\ [Next]_vars => PassInv'
  BY FewNext, MarksNext, PassNext DEF PassInv
<1>2. PassInv => PassShowsEachOnce
  BY DEF PassInv
<1>. QED
  BY <1>1, <1>2, PassInit, InboxInvariant, PTL DEF Spec
=============================================================================
