--------------------------- MODULE RowStoreProofs ---------------------------
(***************************************************************************)
(* What transactions over a RowStore keep, whatever the tables are: rows   *)
(* keep their columns' types, a row has one uncommitted version, and       *)
(* columns that no handler changes are the same in all versions of a row.  *)
(*                                                                         *)
(* The tables are two functions on the keys: R[i] is the set of rows that  *)
(* key i may have, K[i] the columns of it that are fixed.                  *)
(***************************************************************************)
EXTENDS RowStore, TLAPS

Tables(R, K) ==
  /\ NoRow # Gone
  /\ \A i \in Ids : NoRow \notin R[i] /\ Gone \notin R[i]
  /\ \A i \in Ids : \A e, old, cur \in R[i] : Written(e, old, cur) \in R[i]
  /\ \A i \in Ids : \A e \in R[i] : K[i] \subseteq DOMAIN e

AnyVersion(R) == (UNION {R[i] : i \in Ids}) \cup {NoRow, Gone}

StoreTyped(R) ==
  /\ rows \in [Ids -> AnyVersion(R)]
  /\ DOMAIN pc = Sessions
  /\ staged \in [Sessions -> [Ids -> AnyVersion(R)]]
  /\ seen \in [Sessions -> [Ids -> AnyVersion(R)]]
  /\ draft \in [Sessions -> [Ids -> AnyVersion(R)]]
  /\ mixed \in [Sessions -> SUBSET Ids] /\ outdated \in [Sessions -> SUBSET Ids]
  /\ torn \subseteq Ids /\ lost \subseteq Ids
  /\ \A i \in Ids : rows[i] \in R[i] \cup {NoRow}
  /\ \A s \in Sessions, i \in Ids :
       /\ staged[s][i] \in R[i] \cup {NoRow}
       /\ seen[s][i] \in R[i] \cup {NoRow}
       /\ draft[s][i] \in R[i] \cup {NoRow, Gone}

\* Where a handler may have written: it saves, or goes on with the next part.
Writing == {"save", "base"}

\* An idle session holds nothing and has written nothing; a row that update() has
\* selected is still to be written; a row has one uncommitted version; a row to be
\* inserted is new to all.
StoreInv ==
  /\ \A s \in Sessions, i \in Ids :
       /\ pc[s] = "idle" => staged[s][i] = NoRow
       /\ pc[s] \notin Writing => draft[s][i] = NoRow
  /\ \A s \in Sessions, i \in Ids :
       seen[s][i] # NoRow => staged[s][i] # NoRow /\ pc[s] = "save"
  /\ \A s, u \in Sessions, i \in Ids :
       s # u /\ draft[s][i] # NoRow => draft[u][i] = NoRow
  /\ \A s \in Sessions, i \in Ids : pc[s] = "insert" /\ staged[s][i] # NoRow =>
       /\ rows[i] = NoRow
       /\ \A u \in Sessions : draft[u][i] = NoRow
       /\ \A u \in Sessions \ {s} : staged[u][i] = NoRow

\* Every version of a row there is, committed or not.
Versions(i) ==
  ({rows[i]} \cup {staged[s][i] : s \in Sessions} \cup {seen[s][i] : s \in Sessions}
    \cup {draft[s][i] : s \in Sessions}) \ {NoRow, Gone}

Fixed(K) == \A i \in Ids : \A v, w \in Versions(i) : \A c \in K[i] : v[c] = w[c]

StoreGood(R, K) == StoreTyped(R) /\ StoreInv /\ Fixed(K)

(***************************************************************************)
(* Facts used throughout.                                                  *)
(***************************************************************************)
LEMMA AnyRow ==
  ASSUME NEW R, NEW i \in Ids
  PROVE  R[i] \cup {NoRow, Gone} \subseteq AnyVersion(R)
BY DEF AnyVersion

LEMMA NothingTyped ==
  ASSUME NEW R
  PROVE  /\ Nothing \in [Ids -> AnyVersion(R)]
         /\ \A i \in Ids : Nothing[i] = NoRow
BY DEF Nothing, AnyVersion

\* A SELECT returns a row of the table, and a version of it.
LEMMA ViewTyped ==
  ASSUME NEW R, NEW K, Tables(R, K), StoreTyped(R), NEW s \in Sessions, NEW i \in Ids
  PROVE  /\ View(s, i) \in R[i] \cup {NoRow}
         /\ View(s, i) # NoRow => View(s, i) \in Versions(i)
BY DEF Tables, StoreTyped, View, Versions

\* New versions that agree with the old ones in the fixed columns, and with each
\* other, keep them fixed.
LEMMA FixedStep ==
  ASSUME NEW K, Fixed(K),
         \A i \in Ids : \A v \in Versions(i)' :
           \/ v \in Versions(i)
           \/ /\ \A w \in Versions(i) : \A c \in K[i] : v[c] = w[c]
              /\ \A w \in Versions(i)' \ Versions(i) : \A c \in K[i] : v[c] = w[c]
  PROVE  Fixed(K)'
<1>1. ASSUME NEW i \in Ids, NEW v \in Versions(i)', NEW w \in Versions(i)', NEW c \in K[i]
      PROVE  v[c] = w[c]
  <2>1. CASE v \in Versions(i) /\ w \in Versions(i)
    BY <2>1 DEF Fixed
  <2>2. CASE v \notin Versions(i)
    BY <2>2
  <2>3. CASE v \in Versions(i) /\ w \notin Versions(i)
    BY <2>3
  <2>. QED
    BY <2>1, <2>2, <2>3
<1>. QED
  BY <1>1 DEF Fixed

(***************************************************************************)
(* The steps of a transaction.                                             *)
(***************************************************************************)

\* What a handler may stage: rows of the tables that it has loaded, with their
\* fixed columns as they are, or new rows to be inserted.
Stageable(R, K, s, entities, next) ==
  /\ pc[s] # "save" \/ staged[s] = Nothing
  /\ next # "idle"
  /\ next \notin Writing => \A i \in Ids : draft[s][i] = NoRow
  /\ entities \in [Ids -> AnyVersion(R)]
  /\ \A i \in Ids : entities[i] # NoRow =>
       /\ entities[i] \in R[i]
       /\ \A w \in Versions(i) : \A c \in K[i] : entities[i][c] = w[c]
       /\ IF next = "insert" THEN Fresh(i)
          ELSE /\ pc[s] # "insert"
               /\ rows[i] # NoRow \/ draft[s][i] # NoRow \/ staged[s][i] # NoRow

LEMMA StageGood ==
  ASSUME NEW R, NEW K, Tables(R, K), StoreGood(R, K),
         NEW s \in Sessions, NEW entities, NEW next,
         Stageable(R, K, s, entities, next), Stage(s, entities, next)
  PROVE  StoreGood(R, K)'
<1>1. StoreTyped(R)'
  BY DEF StoreGood, StoreTyped, Stageable, Stage
<1>2. StoreInv'
  <2>1. \A u \in Sessions : /\ staged'[u] = IF u = s THEN entities ELSE staged[u]
                            /\ pc'[u] = IF u = s THEN next ELSE pc[u]
    BY DEF StoreGood, StoreTyped, Stage
  <2>2. \A i \in Ids : seen[s][i] = NoRow
    BY NothingTyped DEF StoreGood, StoreInv, Writing, Stageable
  <2>. QED
    BY <2>1, <2>2 DEF StoreGood, StoreInv, Writing, Stageable, Stage, Fresh
<1>3. Fixed(K)'
  <2>1. \A i \in Ids : \A v \in Versions(i)' : v \in Versions(i) \/ v = entities[i]
    BY DEF StoreGood, StoreTyped, Stage, Versions
  <2>2. \A i \in Ids : \A v \in Versions(i)' : v # NoRow
    BY DEF Versions
  <2>. QED
    BY <2>1, <2>2, FixedStep DEF StoreGood, Stageable
<1>. QED
  BY <1>1, <1>2, <1>3 DEF StoreGood

\* A handler that only goes on: nothing is staged, selected or written.
LEMMA GoOnGood ==
  ASSUME NEW R, NEW K, StoreGood(R, K), NEW s \in Sessions, pc[s] \notin {"save", "insert", "base"},
         NEW next, next \notin {"idle", "insert"},
         pc' = [pc EXCEPT ![s] = next],
         UNCHANGED <<rows, staged, seen, draft, mixed, outdated, torn, lost>>
  PROVE  StoreGood(R, K)'
<1>1. StoreTyped(R)'
  BY DEF StoreGood, StoreTyped
<1>2. StoreInv'
  <2>1. \A u \in Sessions : pc'[u] = IF u = s THEN next ELSE pc[u]
    BY DEF StoreGood, StoreTyped
  <2>. QED
    BY <2>1 DEF StoreGood, StoreInv, Writing
<1>3. Fixed(K)'
  BY DEF StoreGood, Fixed, Versions
<1>. QED
  BY <1>1, <1>2, <1>3 DEF StoreGood

LEMMA SelectGood ==
  ASSUME NEW R, NEW K, Tables(R, K), StoreGood(R, K),
         NEW s \in Sessions, NEW i \in Ids, SelectRow(s, i)
  PROVE  StoreGood(R, K)'
<1>1. View(s, i) \in R[i] /\ View(s, i) \in Versions(i)
  BY ViewTyped DEF StoreGood, SelectRow
<1>2. seen' \in [Sessions -> [Ids -> AnyVersion(R)]]
  BY <1>1, AnyRow DEF StoreGood, StoreTyped, SelectRow
<1>3. \A u \in Sessions, j \in Ids :
        seen'[u][j] = IF u = s /\ j = i THEN View(s, i) ELSE seen[u][j]
  BY DEF StoreGood, StoreTyped, SelectRow
<1>4. StoreTyped(R)'
  BY <1>1, <1>2, <1>3 DEF StoreGood, StoreTyped, SelectRow
<1>5. StoreInv'
  BY <1>3 DEF StoreGood, StoreInv, Writing, SelectRow, Unsaved
<1>6. Fixed(K)'
  <2>1. \A j \in Ids : \A v \in Versions(j)' : v \in Versions(j)
    BY <1>1, <1>3 DEF SelectRow, Versions
  <2>. QED
    BY <2>1, FixedStep DEF StoreGood
<1>. QED
  BY <1>4, <1>5, <1>6 DEF StoreGood

\* The version that an UPDATE writes has the fixed columns of all others.
LEMMA WrittenFixed ==
  ASSUME NEW R, NEW K, Tables(R, K), StoreGood(R, K),
         NEW s \in Sessions, NEW i \in Ids, WriteRow(s, i)
  PROVE  /\ Written(staged[s][i], seen[s][i], View(s, i)) \in R[i]
         /\ \A w \in Versions(i) : \A c \in K[i] :
              Written(staged[s][i], seen[s][i], View(s, i))[c] = w[c]
<1>1. /\ staged[s][i] \in R[i] /\ staged[s][i] \in Versions(i)
      /\ seen[s][i] \in R[i]
      /\ View(s, i) \in R[i] /\ View(s, i) \in Versions(i)
  <2>1. StoreTyped(R) /\ staged[s][i] # NoRow /\ seen[s][i] # NoRow /\ View(s, i) # NoRow
    BY DEF StoreGood, WriteRow, Unsaved
  <2>2. staged[s][i] \in R[i] /\ seen[s][i] \in R[i]
    BY <2>1 DEF StoreTyped
  <2>3. staged[s][i] \in Versions(i)
    BY <2>1, <2>2 DEF Tables, Versions
  <2>4. View(s, i) \in R[i] /\ View(s, i) \in Versions(i)
    BY <2>1, ViewTyped
  <2>. QED
    BY <2>2, <2>3, <2>4
<1>2. \A c \in K[i] : c \in DOMAIN staged[s][i]
  BY <1>1 DEF Tables
<1>3. \A c \in K[i] : Written(staged[s][i], seen[s][i], View(s, i))[c]
                        \in {staged[s][i][c], View(s, i)[c]}
  BY <1>2 DEF Written
<1>. QED
  BY <1>1, <1>3 DEF Tables, StoreGood, Fixed

LEMMA WriteGood ==
  ASSUME NEW R, NEW K, Tables(R, K), StoreGood(R, K),
         NEW s \in Sessions, NEW i \in Ids, WriteRow(s, i)
  PROVE  StoreGood(R, K)'
<1>. DEFINE version == Written(staged[s][i], seen[s][i], View(s, i))
<1>1. version \in R[i] /\ version # NoRow
  BY WrittenFixed DEF Tables
<1>2. /\ draft' \in [Sessions -> [Ids -> AnyVersion(R)]]
      /\ staged' \in [Sessions -> [Ids -> AnyVersion(R)]]
      /\ seen' \in [Sessions -> [Ids -> AnyVersion(R)]]
      /\ mixed' \in [Sessions -> SUBSET Ids]
  <2>. HIDE DEF version
  <2>1. draft' = [draft EXCEPT ![s][i] = version]
    BY DEF WriteRow, version
  <2>2. draft' \in [Sessions -> [Ids -> AnyVersion(R)]]
    BY <1>1, <2>1, AnyRow DEF StoreGood, StoreTyped
  <2>3. staged' \in [Sessions -> [Ids -> AnyVersion(R)]] /\ seen' \in [Sessions -> [Ids -> AnyVersion(R)]]
    BY AnyRow DEF StoreGood, StoreTyped, WriteRow
  <2>4. mixed' \in [Sessions -> SUBSET Ids]
    BY DEF StoreGood, StoreTyped, WriteRow
  <2>. QED
    BY <2>2, <2>3, <2>4
<1>3. \A u \in Sessions, j \in Ids :
        /\ draft'[u][j] = IF u = s /\ j = i THEN version ELSE draft[u][j]
        /\ staged'[u][j] = IF u = s /\ j = i THEN NoRow ELSE staged[u][j]
        /\ seen'[u][j] = IF u = s /\ j = i THEN NoRow ELSE seen[u][j]
  BY DEF StoreGood, StoreTyped, WriteRow
<1>. HIDE DEF version
<1>4. StoreTyped(R)'
  BY <1>1, <1>2, <1>3 DEF StoreGood, StoreTyped, WriteRow
<1>5. StoreInv'
  <2>1. pc' = pc /\ rows' = rows /\ pc[s] = "save"
    BY DEF WriteRow, Unsaved
  <2>2. \A u \in Sessions \ {s} : draft[u][i] = NoRow
    BY DEF WriteRow, LockedAgainst
  <2>3. staged[s][i] # NoRow
    BY DEF WriteRow, Unsaved
  <2>. QED
    BY <1>1, <1>3, <2>1, <2>2, <2>3 DEF StoreGood, StoreInv, Writing
<1>6. Fixed(K)'
  <2>1. rows' = rows
    BY DEF WriteRow
  <2>2. \A j \in Ids : \A v \in Versions(j)' : v \in Versions(j) \/ (j = i /\ v = version)
    BY <1>3, <2>1 DEF Versions
  <2>3. \A w \in Versions(i) : \A c \in K[i] : version[c] = w[c]
    BY WrittenFixed DEF version
  <2>. QED
    BY <2>2, <2>3, FixedStep DEF StoreGood
<1>. QED
  BY <1>4, <1>5, <1>6 DEF StoreGood

LEMMA InsertGood ==
  ASSUME NEW R, NEW K, Tables(R, K), StoreGood(R, K), NEW s \in Sessions, InsertRows(s)
  PROVE  StoreGood(R, K)'
<1>1. \A u \in Sessions : /\ draft'[u] = IF u = s THEN staged[s] ELSE draft[u]
                          /\ staged'[u] = IF u = s THEN Nothing ELSE staged[u]
                          /\ pc'[u] = IF u = s THEN "save" ELSE pc[u]
  BY DEF StoreGood, StoreTyped, InsertRows
<1>2. StoreTyped(R)'
  <2>1. /\ Nothing \in [Ids -> AnyVersion(R)] /\ \A i \in Ids : Nothing[i] = NoRow
        /\ \A u \in Sessions : staged[u] \in [Ids -> AnyVersion(R)]
    BY NothingTyped DEF StoreGood, StoreTyped
  <2>2. draft' \in [Sessions -> [Ids -> AnyVersion(R)]] /\ staged' \in [Sessions -> [Ids -> AnyVersion(R)]]
    BY <2>1 DEF StoreGood, StoreTyped, InsertRows
  <2>3. DOMAIN pc' = Sessions
    BY DEF StoreGood, StoreTyped, InsertRows
  <2>4. \A u \in Sessions, i \in Ids : /\ staged'[u][i] \in R[i] \cup {NoRow}
                                      /\ draft'[u][i] \in R[i] \cup {NoRow, Gone}
    BY <1>1, <2>1 DEF StoreGood, StoreTyped
  <2>. QED
    BY <2>2, <2>3, <2>4 DEF StoreGood, StoreTyped, InsertRows
<1>3. StoreInv'
  <2>1. /\ pc[s] = "insert" /\ rows' = rows /\ seen' = seen
        /\ \A i \in Ids : Nothing[i] = NoRow
    BY NothingTyped DEF InsertRows
  <2>2. \A i \in Ids : seen[s][i] = NoRow
    BY <2>1 DEF StoreGood, StoreInv, Writing
  <2>3. \A u \in Sessions, i \in Ids :
          /\ pc'[u] = "idle" => staged'[u][i] = NoRow
          /\ pc'[u] \notin Writing => draft'[u][i] = NoRow
    BY <1>1, <2>1 DEF StoreGood, StoreInv, Writing
  <2>4. \A u \in Sessions, i \in Ids :
          seen'[u][i] # NoRow => staged'[u][i] # NoRow /\ pc'[u] = "save"
    BY <1>1, <2>1, <2>2 DEF StoreGood, StoreInv, Writing
  <2>5. \A u, v \in Sessions, i \in Ids :
          u # v /\ draft'[u][i] # NoRow => draft'[v][i] = NoRow
    BY <1>1, <2>1 DEF StoreGood, StoreInv, Writing
  <2>6. \A u \in Sessions, i \in Ids : pc'[u] = "insert" /\ staged'[u][i] # NoRow =>
          /\ rows'[i] = NoRow
          /\ \A v \in Sessions : draft'[v][i] = NoRow
          /\ \A v \in Sessions \ {u} : staged'[v][i] = NoRow
    BY <1>1, <2>1 DEF StoreGood, StoreInv, Writing
  <2>. QED
    BY <2>3, <2>4, <2>5, <2>6 DEF StoreInv, Writing
<1>4. Fixed(K)'
  <2>1. \A j \in Ids : \A v \in Versions(j)' : v \in Versions(j)
    BY <1>1, NothingTyped DEF InsertRows, Versions
  <2>. QED
    BY <2>1, FixedStep DEF StoreGood
<1>. QED
  BY <1>2, <1>3, <1>4 DEF StoreGood

\* A session is closed by a commit and by a rollback.
LEMMA ClosedSession ==
  ASSUME NEW R, StoreTyped(R), NEW s \in Sessions, Close(s)
  PROVE  /\ \A u \in Sessions : pc'[u] = IF u = s THEN "idle" ELSE pc[u]
         /\ \A u \in Sessions, i \in Ids :
              /\ staged'[u][i] = IF u = s THEN NoRow ELSE staged[u][i]
              /\ seen'[u][i] = IF u = s THEN NoRow ELSE seen[u][i]
              /\ draft'[u][i] = IF u = s THEN NoRow ELSE draft[u][i]
         /\ DOMAIN pc' = Sessions
         /\ staged' \in [Sessions -> [Ids -> AnyVersion(R)]]
         /\ seen' \in [Sessions -> [Ids -> AnyVersion(R)]]
         /\ draft' \in [Sessions -> [Ids -> AnyVersion(R)]]
         /\ mixed' \in [Sessions -> SUBSET Ids]
<1>1. /\ DOMAIN pc = Sessions /\ mixed \in [Sessions -> SUBSET Ids]
      /\ staged \in [Sessions -> [Ids -> AnyVersion(R)]]
      /\ seen \in [Sessions -> [Ids -> AnyVersion(R)]]
      /\ draft \in [Sessions -> [Ids -> AnyVersion(R)]]
  BY DEF StoreTyped
<1>2. Nothing \in [Ids -> AnyVersion(R)] /\ \A i \in Ids : Nothing[i] = NoRow
  BY NothingTyped
<1>3. /\ pc' = [pc EXCEPT ![s] = "idle"] /\ mixed' = [mixed EXCEPT ![s] = {}]
      /\ staged' = [staged EXCEPT ![s] = Nothing]
      /\ seen' = [seen EXCEPT ![s] = Nothing]
      /\ draft' = [draft EXCEPT ![s] = Nothing]
  BY DEF Close
<1>4. \A u \in Sessions : pc'[u] = IF u = s THEN "idle" ELSE pc[u]
  BY <1>1, <1>3
<1>5. DOMAIN pc' = Sessions /\ mixed' \in [Sessions -> SUBSET Ids]
  BY <1>1, <1>3
<1>6. /\ staged' \in [Sessions -> [Ids -> AnyVersion(R)]]
      /\ \A u \in Sessions, i \in Ids : staged'[u][i] = IF u = s THEN NoRow ELSE staged[u][i]
  BY <1>1, <1>2, <1>3
<1>7. /\ seen' \in [Sessions -> [Ids -> AnyVersion(R)]]
      /\ \A u \in Sessions, i \in Ids : seen'[u][i] = IF u = s THEN NoRow ELSE seen[u][i]
  BY <1>1, <1>2, <1>3
<1>8. /\ draft' \in [Sessions -> [Ids -> AnyVersion(R)]]
      /\ \A u \in Sessions, i \in Ids : draft'[u][i] = IF u = s THEN NoRow ELSE draft[u][i]
  BY <1>1, <1>2, <1>3
<1>. QED
  BY <1>4, <1>5, <1>6, <1>7, <1>8

LEMMA RollbackGood ==
  ASSUME NEW R, NEW K, Tables(R, K), StoreGood(R, K), NEW s \in Sessions, Rollback(s)
  PROVE  StoreGood(R, K)'
<1>1. StoreTyped(R) /\ Close(s)
  BY DEF StoreGood, Rollback
<1>2. /\ \A u \in Sessions : pc'[u] = IF u = s THEN "idle" ELSE pc[u]
      /\ \A u \in Sessions, i \in Ids :
           /\ staged'[u][i] = IF u = s THEN NoRow ELSE staged[u][i]
           /\ seen'[u][i] = IF u = s THEN NoRow ELSE seen[u][i]
           /\ draft'[u][i] = IF u = s THEN NoRow ELSE draft[u][i]
  BY <1>1, ClosedSession
<1>2a. /\ DOMAIN pc' = Sessions /\ mixed' \in [Sessions -> SUBSET Ids]
       /\ staged' \in [Sessions -> [Ids -> AnyVersion(R)]]
       /\ seen' \in [Sessions -> [Ids -> AnyVersion(R)]]
       /\ draft' \in [Sessions -> [Ids -> AnyVersion(R)]]
  BY <1>1, ClosedSession
<1>3. rows' = rows /\ torn' = torn /\ lost' = lost /\ outdated' \in [Sessions -> SUBSET Ids]
  BY <1>1 DEF StoreTyped, Rollback
<1>4. StoreTyped(R)'
  <2>1. \A u \in Sessions, i \in Ids :
          /\ staged'[u][i] \in R[i] \cup {NoRow}
          /\ seen'[u][i] \in R[i] \cup {NoRow}
          /\ draft'[u][i] \in R[i] \cup {NoRow, Gone}
    BY <1>1, <1>2 DEF StoreTyped
  <2>. QED
    BY <1>1, <1>2a, <1>3, <2>1 DEF StoreTyped
<1>5. StoreInv'
  <2>0. StoreInv
    BY DEF StoreGood
  <2>1. \A u \in Sessions, i \in Ids :
          /\ pc'[u] = "idle" => staged'[u][i] = NoRow
          /\ pc'[u] \notin Writing => draft'[u][i] = NoRow
    BY <1>2, <2>0 DEF StoreInv, Writing
  <2>2. \A u \in Sessions, i \in Ids :
          seen'[u][i] # NoRow => staged'[u][i] # NoRow /\ pc'[u] = "save"
    BY <1>2, <2>0 DEF StoreInv, Writing
  <2>3. \A u, v \in Sessions, i \in Ids :
          u # v /\ draft'[u][i] # NoRow => draft'[v][i] = NoRow
    BY <1>2, <2>0 DEF StoreInv, Writing
  <2>4. \A u \in Sessions, i \in Ids : pc'[u] = "insert" /\ staged'[u][i] # NoRow =>
          /\ rows'[i] = NoRow
          /\ \A v \in Sessions : draft'[v][i] = NoRow
          /\ \A v \in Sessions \ {u} : staged'[v][i] = NoRow
    BY <1>2, <2>0, <1>3 DEF StoreInv, Writing
  <2>. QED
    BY <2>1, <2>2, <2>3, <2>4 DEF StoreInv, Writing
<1>6. Fixed(K)'
  <2>1. \A j \in Ids : \A v \in Versions(j)' : v \in Versions(j)
    BY <1>2, <1>3 DEF Versions
  <2>. QED
    BY <2>1, FixedStep DEF StoreGood
<1>. QED
  BY <1>4, <1>5, <1>6 DEF StoreGood

\* A commit changes the rows that its transaction has written, and no others.
LEMMA CommitRowsChanges ==
  ASSUME NEW R, NEW K, Tables(R, K), StoreTyped(R), NEW s \in Sessions, CommitRows(s)
  PROVE  \A i \in Ids :
           /\ rows'[i] = View(s, i)
           /\ draft[s][i] = NoRow => rows'[i] = rows[i]
           /\ draft[s][i] \notin {NoRow, Gone} => rows'[i] = draft[s][i]
           /\ draft[s][i] = Gone => rows'[i] = NoRow
BY DEF Tables, StoreTyped, CommitRows, View

LEMMA CommitGood ==
  ASSUME NEW R, NEW K, Tables(R, K), StoreGood(R, K), NEW s \in Sessions, CommitRows(s)
  PROVE  StoreGood(R, K)'
<1>1. StoreTyped(R) /\ Close(s)
  BY DEF StoreGood, CommitRows
<1>2. /\ \A u \in Sessions : pc'[u] = IF u = s THEN "idle" ELSE pc[u]
      /\ \A u \in Sessions, i \in Ids :
           /\ staged'[u][i] = IF u = s THEN NoRow ELSE staged[u][i]
           /\ seen'[u][i] = IF u = s THEN NoRow ELSE seen[u][i]
           /\ draft'[u][i] = IF u = s THEN NoRow ELSE draft[u][i]
  BY <1>1, ClosedSession
<1>2a. /\ DOMAIN pc' = Sessions /\ mixed' \in [Sessions -> SUBSET Ids]
       /\ staged' \in [Sessions -> [Ids -> AnyVersion(R)]]
       /\ seen' \in [Sessions -> [Ids -> AnyVersion(R)]]
       /\ draft' \in [Sessions -> [Ids -> AnyVersion(R)]]
  BY <1>1, ClosedSession
<1>3. \A i \in Ids : View(s, i) \in R[i] \cup {NoRow}
  BY <1>1, ViewTyped
<1>4. rows' \in [Ids -> AnyVersion(R)] /\ \A i \in Ids : rows'[i] \in R[i] \cup {NoRow}
  BY <1>3, AnyRow DEF CommitRows
<1>5. StoreTyped(R)'
  <2>1. \A u \in Sessions, i \in Ids :
          /\ staged'[u][i] \in R[i] \cup {NoRow}
          /\ seen'[u][i] \in R[i] \cup {NoRow}
          /\ draft'[u][i] \in R[i] \cup {NoRow, Gone}
    BY <1>1, <1>2 DEF StoreTyped
  <2>2. outdated' \in [Sessions -> SUBSET Ids] /\ torn' \subseteq Ids /\ lost' \subseteq Ids
    BY <1>1 DEF StoreTyped, CommitRows
  <2>. QED
    BY <1>2a, <1>4, <2>1, <2>2 DEF StoreTyped
<1>6. StoreInv'
  <2>0. StoreInv
    BY DEF StoreGood
  <2>1. \A u \in Sessions \ {s}, i \in Ids :
          pc[u] = "insert" /\ staged[u][i] # NoRow => rows'[i] = NoRow
    <3>1. \A i \in Ids : draft[s][i] = NoRow => rows'[i] = rows[i]
      BY <1>1, CommitRowsChanges
    <3>. QED
      BY <3>1 DEF StoreGood, StoreInv, Writing
  <2>2. \A u \in Sessions, i \in Ids :
          /\ pc'[u] = "idle" => staged'[u][i] = NoRow
          /\ pc'[u] \notin Writing => draft'[u][i] = NoRow
    BY <1>2, <2>0 DEF StoreInv, Writing
  <2>3. \A u \in Sessions, i \in Ids :
          seen'[u][i] # NoRow => staged'[u][i] # NoRow /\ pc'[u] = "save"
    BY <1>2, <2>0 DEF StoreInv, Writing
  <2>4. \A u, v \in Sessions, i \in Ids :
          u # v /\ draft'[u][i] # NoRow => draft'[v][i] = NoRow
    BY <1>2, <2>0 DEF StoreInv, Writing
  <2>5. \A u \in Sessions, i \in Ids : pc'[u] = "insert" /\ staged'[u][i] # NoRow =>
          /\ rows'[i] = NoRow
          /\ \A v \in Sessions : draft'[v][i] = NoRow
          /\ \A v \in Sessions \ {u} : staged'[v][i] = NoRow
    BY <1>2, <2>0, <2>1 DEF StoreInv, Writing
  <2>. QED
    BY <2>2, <2>3, <2>4, <2>5 DEF StoreInv, Writing
<1>7. Fixed(K)'
  <2>1. \A j \in Ids : rows'[j] \in {rows[j], draft[s][j], NoRow}
    <3>1. \A j \in Ids :
            /\ draft[s][j] = NoRow => rows'[j] = rows[j]
            /\ draft[s][j] \notin {NoRow, Gone} => rows'[j] = draft[s][j]
            /\ draft[s][j] = Gone => rows'[j] = NoRow
      BY <1>1, CommitRowsChanges
    <3>. QED
      BY <3>1
  <2>2. \A j \in Ids : \A v \in Versions(j)' : v \in Versions(j)
    BY <1>2, <2>1 DEF Versions
  <2>. QED
    BY <2>2, FixedStep DEF StoreGood
<1>. QED
  BY <1>5, <1>6, <1>7 DEF StoreGood

\* Where no handler deletes, a row that is there stays.
Undeleted == \A s \in Sessions, i \in Ids : draft[s][i] # Gone

LEMMA StepUndeleted ==
  ASSUME NEW R, NEW K, Tables(R, K), StoreGood(R, K), Undeleted, NEW s \in Sessions,
         \/ UNCHANGED draft \/ \E i \in Ids : WriteRow(s, i)
         \/ InsertRows(s) \/ Rollback(s) \/ CommitRows(s)
  PROVE  Undeleted'
<1>0. StoreTyped(R)
  BY DEF StoreGood
<1>1. CASE UNCHANGED draft
  BY <1>1 DEF Undeleted
<1>2. ASSUME NEW i \in Ids, WriteRow(s, i) PROVE Undeleted'
  <2>1. Written(staged[s][i], seen[s][i], View(s, i)) # Gone
    BY <1>2, WrittenFixed DEF Tables
  <2>2. \A u \in Sessions, j \in Ids :
          draft'[u][j] = IF u = s /\ j = i THEN Written(staged[s][i], seen[s][i], View(s, i))
                         ELSE draft[u][j]
    BY <1>0, <1>2 DEF StoreTyped, WriteRow
  <2>. QED
    BY <2>1, <2>2 DEF Undeleted
<1>3. CASE InsertRows(s)
  <2>1. \A u \in Sessions : draft'[u] = IF u = s THEN staged[s] ELSE draft[u]
    BY <1>0, <1>3 DEF StoreTyped, InsertRows
  <2>2. \A i \in Ids : staged[s][i] # Gone
    BY <1>0 DEF StoreTyped, Tables
  <2>. QED
    BY <2>1, <2>2 DEF Undeleted
<1>4. CASE Rollback(s) \/ CommitRows(s)
  <2>1. \A u \in Sessions, i \in Ids : draft'[u][i] = IF u = s THEN NoRow ELSE draft[u][i]
    BY <1>0, <1>4, ClosedSession DEF Rollback, CommitRows
  <2>. QED
    BY <2>1 DEF Undeleted, Tables
<1>. QED
  BY <1>1, <1>2, <1>3, <1>4

LEMMA RowStays ==
  ASSUME NEW R, NEW K, Tables(R, K), StoreTyped(R), Undeleted,
         NEW s \in Sessions, CommitRows(s), NEW i \in Ids, rows[i] # NoRow
  PROVE  rows'[i] # NoRow
<1>1. /\ draft[s][i] = NoRow => rows'[i] = rows[i]
      /\ draft[s][i] \notin {NoRow, Gone} => rows'[i] = draft[s][i]
  BY CommitRowsChanges
<1>. QED
  BY <1>1 DEF Undeleted

(***************************************************************************)
(* Unique keys.  C is the set of pairs of rows whose keys are the same; it *)
(* is decided by fixed columns, so only an INSERT can bring a pair about.  *)
(***************************************************************************)
Real(i) == ({rows[i]} \cup {draft[s][i] : s \in Sessions}) \ {NoRow, Gone}

Unique(C) ==
  /\ \A i, j \in Ids : i # j => \A e \in Real(i), f \in Real(j) : <<e, f>> \notin C
  /\ \A s \in Sessions, i, j \in Ids :
       i # j /\ pc[s] = "insert" /\ staged[s][i] # NoRow /\ staged[s][j] # NoRow =>
         <<staged[s][i], staged[s][j]>> \notin C

Keyed(R, K, C) ==
  /\ \A i, j \in Ids : \A e, g \in R[i] : \A f \in R[j] :
       (\A c \in K[i] : e[c] = g[c]) => (<<e, f>> \in C <=> <<g, f>> \in C)
  /\ \A i, j \in Ids : \A e \in R[i] : \A f \in R[j] : <<e, f>> \in C => <<f, e>> \in C

LEMMA RealTyped ==
  ASSUME NEW R, StoreTyped(R), NEW i \in Ids
  PROVE  Real(i) \subseteq R[i] /\ Real(i) \subseteq Versions(i)
BY DEF StoreTyped, Real, Versions

LEMMA WriteUnique ==
  ASSUME NEW R, NEW K, NEW C, Tables(R, K), Keyed(R, K, C), StoreGood(R, K), Unique(C),
         NEW s \in Sessions, NEW i \in Ids, WriteRow(s, i)
  PROVE  Unique(C)'
<1>. DEFINE version == Written(staged[s][i], seen[s][i], View(s, i))
<1>1. /\ version \in R[i]
      /\ \A w \in Versions(i) : \A c \in K[i] : version[c] = w[c]
  BY WrittenFixed
<1>2. View(s, i) \in Real(i) /\ View(s, i) \in Versions(i) /\ View(s, i) \in R[i]
  <2>1. View(s, i) # NoRow /\ StoreTyped(R)
    BY DEF WriteRow, StoreGood
  <2>2. View(s, i) \in Versions(i) /\ View(s, i) \in R[i]
    BY <2>1, ViewTyped
  <2>3. View(s, i) \in {rows[i], draft[s][i]} /\ View(s, i) # Gone
    BY <2>2 DEF View, Versions
  <2>. QED
    BY <2>1, <2>2, <2>3 DEF Real
<1>3. \A j \in Ids : \A e \in Real(j)' : e \in Real(j) \/ (j = i /\ e = version)
  <2>1. rows' = rows /\ \A u \in Sessions, j \in Ids :
          draft'[u][j] = IF u = s /\ j = i THEN version ELSE draft[u][j]
    BY DEF StoreGood, StoreTyped, WriteRow
  <2>. HIDE DEF version
  <2>. QED
    BY <2>1 DEF Real
<1>. HIDE DEF version
<1>4. \A j \in Ids \ {i} : \A f \in Real(j) :
        <<version, f>> \notin C /\ <<f, version>> \notin C
  <2>1. ASSUME NEW j \in Ids \ {i}, NEW f \in Real(j)
        PROVE  <<version, f>> \notin C /\ <<f, version>> \notin C
    <3>1. f \in R[j]
      BY RealTyped DEF StoreGood
    <3>2. <<View(s, i), f>> \notin C
      BY <1>2 DEF Unique
    <3>3. \A c \in K[i] : version[c] = View(s, i)[c]
      BY <1>1, <1>2
    <3>4. <<version, f>> \notin C
      BY <1>1, <1>2, <3>1, <3>2, <3>3 DEF Keyed
    <3>. QED
      BY <1>1, <3>1, <3>4 DEF Keyed
  <2>. QED
    BY <2>1
<1>5. \A u \in Sessions, j \in Ids : pc'[u] = "insert" => pc[u] = "insert" /\ staged'[u] = staged[u]
  BY DEF StoreGood, StoreTyped, WriteRow, Unsaved
<1>. QED
  BY <1>3, <1>4, <1>5 DEF Unique

\* What an INSERT must not meet.
Clear(s, C) ==
  \A i \in Ids : staged[s][i] # NoRow =>
    \A f \in Stored \cup InFlight(s) : <<staged[s][i], f>> \notin C

LEMMA InsertUnique ==
  ASSUME NEW R, NEW K, NEW C, Tables(R, K), Keyed(R, K, C), StoreGood(R, K), Unique(C),
         NEW s \in Sessions, InsertRows(s), Clear(s, C)
  PROVE  Unique(C)'
<1>0. \A i, j \in Ids : i # j /\ staged[s][i] # NoRow =>
        /\ \A f \in Real(j) : <<staged[s][i], f>> \notin C
        /\ staged[s][j] # NoRow => <<staged[s][i], staged[s][j]>> \notin C
  <2>1. pc[s] = "insert" /\ \A j \in Ids : draft[s][j] = NoRow
    BY DEF StoreGood, StoreInv, InsertRows, Writing
  <2>2. \A j \in Ids : Real(j) \subseteq Stored \cup InFlight(s)
    BY <2>1 DEF Real, Stored, InFlight
  <2>. QED
    BY <2>1, <2>2 DEF Clear, Unique
<1>1. rows' = rows /\ \A u \in Sessions, j \in Ids :
        draft'[u][j] = IF u = s THEN staged[s][j] ELSE draft[u][j]
  BY DEF StoreGood, StoreTyped, InsertRows
<1>2. \A j \in Ids : \A e \in Real(j)' :
        e \in Real(j) \/ (e = staged[s][j] /\ staged[s][j] # NoRow /\ e \in R[j])
  BY <1>1 DEF Real, StoreGood, StoreTyped
<1>3. ASSUME NEW i \in Ids, NEW j \in Ids, i # j, NEW e \in Real(i)', NEW f \in Real(j)'
      PROVE  <<e, f>> \notin C
  <2>1. CASE e \in Real(i) /\ f \in Real(j)
    BY <1>3, <2>1 DEF Unique
  <2>2. CASE e \notin Real(i)
    BY <1>0, <1>2, <1>3, <2>2
  <2>3. CASE e \in Real(i) /\ f \notin Real(j)
    <3>1. f = staged[s][j] /\ staged[s][j] # NoRow /\ f \in R[j] /\ e \in R[i]
      BY <1>2, <2>3, RealTyped DEF StoreGood
    <3>2. <<f, e>> \notin C
      BY <1>0, <1>3, <2>3, <3>1
    <3>. QED
      BY <3>1, <3>2 DEF Keyed
  <2>. QED
    BY <2>1, <2>2, <2>3
<1>4. \A u \in Sessions : pc'[u] = "insert" => pc[u] = "insert" /\ staged'[u] = staged[u]
  BY DEF StoreGood, StoreTyped, InsertRows
<1>. QED
  BY <1>3, <1>4 DEF Unique

LEMMA StageUnique ==
  ASSUME NEW R, NEW C, StoreTyped(R), Unique(C),
         NEW s \in Sessions, NEW entities, NEW next, Stage(s, entities, next),
         next = "insert" =>
           \A i, j \in Ids : i # j /\ entities[i] # NoRow /\ entities[j] # NoRow =>
             <<entities[i], entities[j]>> \notin C
  PROVE  Unique(C)'
<1>1. rows' = rows /\ draft' = draft
  BY DEF Stage
<1>2. \A i \in Ids : Real(i)' = Real(i)
  BY <1>1 DEF Real
<1>3. \A u \in Sessions : /\ staged'[u] = IF u = s THEN entities ELSE staged[u]
                          /\ pc'[u] = IF u = s THEN next ELSE pc[u]
  BY DEF StoreTyped, Stage
<1>. QED
  BY <1>2, <1>3 DEF Unique

\* Nothing new is written or staged by any other step.
LEMMA QuietUnique ==
  ASSUME NEW C, Unique(C), UNCHANGED <<rows, draft, staged>>,
         \A s \in Sessions : pc'[s] = "insert" => pc[s] = "insert"
  PROVE  Unique(C)'
<1>1. \A i \in Ids : Real(i)' = Real(i)
  BY DEF Real
<1>. QED
  BY <1>1 DEF Unique

LEMMA RollbackUnique ==
  ASSUME NEW R, NEW C, StoreTyped(R), Unique(C), NEW s \in Sessions, Rollback(s)
  PROVE  Unique(C)'
<1>1. \A u \in Sessions, i \in Ids : draft'[u][i] = IF u = s THEN NoRow ELSE draft[u][i]
  BY ClosedSession DEF Rollback
<1>2. rows' = rows
  BY DEF Rollback
<1>3. \A i \in Ids : Real(i)' \subseteq Real(i)
  BY <1>1, <1>2 DEF Real
<1>4. \A u \in Sessions : pc'[u] = "insert" => pc[u] = "insert" /\ staged'[u] = staged[u]
  BY DEF StoreTyped, Rollback, Close
<1>. QED
  BY <1>3, <1>4 DEF Unique

LEMMA CommitUnique ==
  ASSUME NEW R, NEW K, NEW C, Tables(R, K), StoreTyped(R), Unique(C),
         NEW s \in Sessions, CommitRows(s)
  PROVE  Unique(C)'
<1>1. \A u \in Sessions, i \in Ids : draft'[u][i] = IF u = s THEN NoRow ELSE draft[u][i]
  BY ClosedSession DEF CommitRows
<1>2. \A i \in Ids : rows'[i] \in {rows[i], draft[s][i], NoRow}
  <2>1. \A i \in Ids :
          /\ draft[s][i] = NoRow => rows'[i] = rows[i]
          /\ draft[s][i] \notin {NoRow, Gone} => rows'[i] = draft[s][i]
          /\ draft[s][i] = Gone => rows'[i] = NoRow
    BY CommitRowsChanges
  <2>. QED
    BY <2>1
<1>3. \A i \in Ids : Real(i)' \subseteq Real(i)
  BY <1>1, <1>2 DEF Real
<1>4. \A u \in Sessions : pc'[u] = "insert" => pc[u] = "insert" /\ staged'[u] = staged[u]
  BY DEF StoreTyped, CommitRows, Close
<1>. QED
  BY <1>3, <1>4 DEF Unique

\* A step of something else.
LEMMA QuietGood ==
  ASSUME NEW R, NEW K, StoreGood(R, K), UNCHANGED storeVars
  PROVE  /\ StoreGood(R, K)' /\ (\A i \in Ids : Versions(i)' = Versions(i))
         /\ Undeleted => Undeleted'
         /\ \A C : Unique(C) => Unique(C)'
<1>1. \A i \in Ids : Versions(i)' = Versions(i) /\ Real(i)' = Real(i)
  BY DEF Versions, Real, storeVars
<1>2. StoreTyped(R)'
  BY DEF StoreGood, StoreTyped, storeVars
<1>3. StoreInv'
  BY DEF StoreGood, StoreInv, storeVars
<1>4. Fixed(K)'
  BY <1>1 DEF StoreGood, Fixed
<1>5. Undeleted => Undeleted'
  BY DEF Undeleted, storeVars
<1>6. ASSUME NEW C, Unique(C) PROVE Unique(C)'
  BY <1>1, <1>6 DEF Unique, storeVars
<1>. QED
  BY <1>1, <1>2, <1>3, <1>4, <1>5, <1>6 DEF StoreGood

(***************************************************************************)
(* Read, then written.  G is a set of pairs: what a handler loaded and what *)
(* it made of it.  As long as the row has not changed since, the version   *)
(* that is committed stands in G to the row that it replaces.              *)
(***************************************************************************)
Based(G) ==
  \A s \in Sessions, i \in Ids : i \notin outdated[s] /\ rows[i] # NoRow =>
    /\ staged[s][i] # NoRow => <<rows[i], staged[s][i]>> \in G
    /\ draft[s][i] \notin {NoRow, Gone} => <<rows[i], draft[s][i]>> \in G

\* An UPDATE mixes an entity with the row itself or an earlier version of its own.
Mixable(R, G) ==
  \A i \in Ids : \A row, entity, old, cur \in R[i] :
    <<row, entity>> \in G /\ (cur = row \/ <<row, cur>> \in G) =>
      <<row, Written(entity, old, cur)>> \in G

LEMMA StageBased ==
  ASSUME NEW R, NEW G, StoreTyped(R), Based(G),
         NEW s \in Sessions, NEW entities, NEW next, Stage(s, entities, next),
         \A i \in Ids : entities[i] # NoRow /\ rows[i] # NoRow /\ i \notin outdated[s] =>
           <<rows[i], entities[i]>> \in G
  PROVE  Based(G)'
<1>1. rows' = rows /\ draft' = draft /\ outdated' = outdated
  BY DEF Stage
<1>2. \A u \in Sessions : staged'[u] = IF u = s THEN entities ELSE staged[u]
  BY DEF Stage, StoreTyped
<1>. QED
  BY <1>1, <1>2 DEF Based

LEMMA WriteBased ==
  ASSUME NEW R, NEW K, NEW G, Tables(R, K), StoreGood(R, K), Mixable(R, G), Based(G),
         NEW s \in Sessions, NEW i \in Ids, WriteRow(s, i)
  PROVE  Based(G)'
<1>. DEFINE version == Written(staged[s][i], seen[s][i], View(s, i))
<1>1. /\ rows' = rows /\ outdated' = outdated
      /\ \A u \in Sessions, j \in Ids :
           /\ draft'[u][j] = IF u = s /\ j = i THEN version ELSE draft[u][j]
           /\ staged'[u][j] = IF u = s /\ j = i THEN NoRow ELSE staged[u][j]
  BY DEF StoreGood, StoreTyped, WriteRow
<1>2. ASSUME i \notin outdated[s], rows[i] # NoRow
      PROVE  <<rows[i], version>> \in G
  <2>1. /\ rows[i] \in R[i] /\ staged[s][i] \in R[i] /\ seen[s][i] \in R[i]
        /\ staged[s][i] # NoRow /\ View(s, i) # NoRow
    BY <1>2 DEF StoreGood, StoreTyped, WriteRow, Unsaved
  <2>2. View(s, i) \in R[i]
    BY <2>1, ViewTyped DEF StoreGood
  <2>3. <<rows[i], staged[s][i]>> \in G
    BY <1>2, <2>1 DEF Based
  <2>4. View(s, i) = rows[i] \/ <<rows[i], View(s, i)>> \in G
    <3>1. View(s, i) \in {rows[i], draft[s][i]} \ {NoRow}
      BY <2>1 DEF View
    <3>2. View(s, i) # Gone
      BY <2>2 DEF Tables
    <3>. QED
      BY <1>2, <3>1, <3>2 DEF Based
  <2>. QED
    BY <2>1, <2>2, <2>3, <2>4 DEF Mixable
<1>. HIDE DEF version
<1>. QED
  BY <1>1, <1>2 DEF Based

LEMMA InsertBased ==
  ASSUME NEW R, NEW K, NEW G, StoreGood(R, K), Based(G), NEW s \in Sessions, InsertRows(s)
  PROVE  Based(G)'
<1>1. /\ rows' = rows /\ outdated' = outdated /\ pc[s] = "insert"
      /\ \A i \in Ids : Nothing[i] = NoRow
      /\ \A u \in Sessions : /\ draft'[u] = IF u = s THEN staged[s] ELSE draft[u]
                             /\ staged'[u] = IF u = s THEN Nothing ELSE staged[u]
  BY DEF StoreGood, StoreTyped, InsertRows, Nothing
<1>. QED
  BY <1>1 DEF Based, StoreGood, StoreInv

LEMMA QuietBased ==
  ASSUME NEW G, Based(G), UNCHANGED <<rows, staged, draft, outdated>>
  PROVE  Based(G)'
BY DEF Based

LEMMA RollbackBased ==
  ASSUME NEW R, NEW G, StoreTyped(R), Based(G), NEW s \in Sessions, Rollback(s)
  PROVE  Based(G)'
<1>1. \A u \in Sessions, i \in Ids :
        /\ staged'[u][i] = IF u = s THEN NoRow ELSE staged[u][i]
        /\ draft'[u][i] = IF u = s THEN NoRow ELSE draft[u][i]
  BY ClosedSession DEF Rollback
<1>2. rows' = rows /\ \A u \in Sessions \ {s} : outdated'[u] = outdated[u]
  BY DEF Rollback, StoreTyped
<1>. QED
  BY <1>1, <1>2 DEF Based

\* What a commit puts in the place of a row.
LEMMA CommitReplaces ==
  ASSUME NEW R, NEW K, NEW G, Tables(R, K), StoreTyped(R), Based(G),
         NEW s \in Sessions, CommitRows(s), NEW i \in Ids, rows[i] # NoRow
  PROVE  \/ rows'[i] = rows[i] \/ rows'[i] = NoRow
         \/ <<rows[i], rows'[i]>> \in G \/ i \in lost'
<1>1. /\ draft[s][i] = NoRow => rows'[i] = rows[i]
      /\ draft[s][i] \notin {NoRow, Gone} => rows'[i] = draft[s][i]
      /\ draft[s][i] = Gone => rows'[i] = NoRow
  BY CommitRowsChanges
<1>2. lost' = lost \cup {j \in outdated[s] : draft[s][j] # NoRow}
  BY DEF CommitRows
<1>. QED
  BY <1>1, <1>2 DEF Based

LEMMA CommitBased ==
  ASSUME NEW R, NEW K, NEW G, Tables(R, K), StoreGood(R, K), Based(G),
         NEW s \in Sessions, CommitRows(s)
  PROVE  Based(G)'
<1>1. StoreTyped(R) /\ StoreInv
  BY DEF StoreGood
<1>2. \A u \in Sessions, i \in Ids :
        /\ staged'[u][i] = IF u = s THEN NoRow ELSE staged[u][i]
        /\ draft'[u][i] = IF u = s THEN NoRow ELSE draft[u][i]
  BY <1>1, ClosedSession DEF CommitRows
<1>3. \A u \in Sessions \ {s} :
        outdated'[u] = outdated[u] \cup {i \in Ids : staged[u][i] # NoRow /\ draft[s][i] # NoRow}
  BY DEF CommitRows
<1>4. \A i \in Ids : draft[s][i] = NoRow => rows'[i] = rows[i]
  BY <1>1, CommitRowsChanges
<1>5. \A u \in Sessions \ {s}, i \in Ids : draft[s][i] # NoRow => draft[u][i] = NoRow
  BY <1>1 DEF StoreInv
<1>6. ASSUME NEW u \in Sessions, NEW i \in Ids, i \notin outdated'[u], rows'[i] # NoRow
      PROVE  /\ staged'[u][i] # NoRow => <<rows'[i], staged'[u][i]>> \in G
             /\ draft'[u][i] \notin {NoRow, Gone} => <<rows'[i], draft'[u][i]>> \in G
  <2>1. CASE u = s
    BY <1>2, <2>1
  <2>2. CASE u # s /\ draft[s][i] # NoRow
    BY <1>2, <1>3, <1>5, <1>6, <2>2
  <2>3. CASE u # s /\ draft[s][i] = NoRow
    BY <1>2, <1>3, <1>4, <1>6, <2>3 DEF Based
  <2>. QED
    BY <2>1, <2>2, <2>3
<1>. QED
  BY <1>6 DEF Based

(***************************************************************************)
(* Whole entities.  W[i] is a set of rows that handlers make or keep of i. *)
(* A committed row is one of them unless two entities met in it.           *)
(***************************************************************************)
Whole(W) ==
  \A i \in Ids : i \notin torn =>
    /\ rows[i] # NoRow => rows[i] \in W[i]
    /\ \A s \in Sessions : i \notin mixed[s] =>
         /\ staged[s][i] # NoRow => staged[s][i] \in W[i]
         /\ draft[s][i] \notin {NoRow, Gone} => draft[s][i] \in W[i]

LEMMA StageWhole ==
  ASSUME NEW R, NEW W, StoreTyped(R), Whole(W),
         NEW s \in Sessions, NEW entities, NEW next, Stage(s, entities, next),
         \A i \in Ids : entities[i] # NoRow /\ i \notin torn /\ i \notin mixed[s] =>
           entities[i] \in W[i]
  PROVE  Whole(W)'
<1>1. rows' = rows /\ draft' = draft /\ mixed' = mixed /\ torn' = torn
  BY DEF Stage
<1>2. \A u \in Sessions : staged'[u] = IF u = s THEN entities ELSE staged[u]
  BY DEF Stage, StoreTyped
<1>. QED
  BY <1>1, <1>2 DEF Whole

LEMMA WriteWhole ==
  ASSUME NEW R, NEW W, StoreTyped(R), Whole(W), NEW s \in Sessions, NEW i \in Ids, WriteRow(s, i)
  PROVE  Whole(W)'
<1>. DEFINE version == Written(staged[s][i], seen[s][i], View(s, i))
<1>1. /\ rows' = rows /\ torn' = torn /\ staged[s][i] # NoRow
      /\ \A u \in Sessions, j \in Ids :
           /\ draft'[u][j] = IF u = s /\ j = i THEN version ELSE draft[u][j]
           /\ staged'[u][j] = IF u = s /\ j = i THEN NoRow ELSE staged[u][j]
  BY DEF StoreTyped, WriteRow, Unsaved
<1>2. \A u \in Sessions :
        mixed'[u] = IF u = s /\ version # staged[s][i] THEN mixed[u] \cup {i} ELSE mixed[u]
  BY DEF StoreTyped, WriteRow
<1>. HIDE DEF version
<1>3. ASSUME NEW j \in Ids, j \notin torn', NEW u \in Sessions, j \notin mixed'[u]
      PROVE  /\ staged'[u][j] # NoRow => staged'[u][j] \in W[j]
             /\ draft'[u][j] \notin {NoRow, Gone} => draft'[u][j] \in W[j]
  <2>1. j \notin torn /\ j \notin mixed[u]
    BY <1>1, <1>2, <1>3
  <2>2. CASE u = s /\ j = i
    <3>1. version = staged[s][i]
      BY <1>2, <1>3, <2>2
    <3>. QED
      BY <1>1, <2>1, <2>2, <3>1 DEF Whole
  <2>3. CASE ~(u = s /\ j = i)
    BY <1>1, <2>1, <2>3 DEF Whole
  <2>. QED
    BY <2>2, <2>3
<1>. QED
  BY <1>1, <1>3 DEF Whole

LEMMA InsertWhole ==
  ASSUME NEW R, NEW W, StoreTyped(R), Whole(W), NEW s \in Sessions, InsertRows(s)
  PROVE  Whole(W)'
<1>1. /\ rows' = rows /\ mixed' = mixed /\ torn' = torn
      /\ \A i \in Ids : Nothing[i] = NoRow
      /\ \A u \in Sessions : /\ draft'[u] = IF u = s THEN staged[s] ELSE draft[u]
                             /\ staged'[u] = IF u = s THEN Nothing ELSE staged[u]
  BY DEF StoreTyped, InsertRows, Nothing
<1>. QED
  BY <1>1 DEF Whole

LEMMA QuietWhole ==
  ASSUME NEW W, Whole(W), UNCHANGED <<rows, staged, draft, mixed, torn>>
  PROVE  Whole(W)'
BY DEF Whole

LEMMA RollbackWhole ==
  ASSUME NEW R, NEW W, StoreTyped(R), Whole(W), NEW s \in Sessions, Rollback(s)
  PROVE  Whole(W)'
<1>1. \A u \in Sessions, i \in Ids :
        /\ staged'[u][i] = IF u = s THEN NoRow ELSE staged[u][i]
        /\ draft'[u][i] = IF u = s THEN NoRow ELSE draft[u][i]
  BY ClosedSession DEF Rollback
<1>2. rows' = rows /\ torn' = torn /\ \A u \in Sessions \ {s} : mixed'[u] = mixed[u]
  BY DEF Rollback, Close, StoreTyped
<1>. QED
  BY <1>1, <1>2 DEF Whole

LEMMA CommitWhole ==
  ASSUME NEW R, NEW K, NEW W, Tables(R, K), StoreTyped(R), Whole(W),
         NEW s \in Sessions, CommitRows(s)
  PROVE  Whole(W)'
<1>1. \A u \in Sessions, i \in Ids :
        /\ staged'[u][i] = IF u = s THEN NoRow ELSE staged[u][i]
        /\ draft'[u][i] = IF u = s THEN NoRow ELSE draft[u][i]
  BY ClosedSession DEF CommitRows
<1>2. torn' = torn \cup mixed[s] /\ \A u \in Sessions \ {s} : mixed'[u] = mixed[u]
  BY DEF CommitRows, Close, StoreTyped
<1>3. \A i \in Ids :
        /\ draft[s][i] = NoRow => rows'[i] = rows[i]
        /\ draft[s][i] \notin {NoRow, Gone} => rows'[i] = draft[s][i]
        /\ draft[s][i] = Gone => rows'[i] = NoRow
  BY CommitRowsChanges
<1>. QED
  BY <1>1, <1>2, <1>3 DEF Whole
=============================================================================
