---------------------------- MODULE RatingProofs ----------------------------
(***************************************************************************)
(* For every number of requests, bookings and ratings: a booking has one   *)
(* rating, a rating shows a score and a comment that were sent together,   *)
(* unless the columns of two edits met in it, and the average of an owner  *)
(* is close to the true one.                                               *)
(***************************************************************************)
EXTENDS Ratings, RowStoreProofs, FiniteSetTheorems, WellFoundedInduction

Tabled == [i \in Ids |-> RowsOf(i)]

\* What no handler changes: a rating's booking, a booking's resource, and so on.
Columns ==
  [i \in Ids |-> IF i \in BookingIds THEN {"table", "resource", "customer", "end"}
                 ELSE {"table", "booking", "resource", "customer", "created"}]

Clashes == {p \in (BookingRow \cup RatingRow) \X (BookingRow \cup RatingRow) : SameKey(p[1], p[2])}

\* Rows whose score and comment were sent in one command.
Sent ==
  [i \in Ids |-> {row \in RowsOf(i) :
                    i \in RatingIds => <<row.score, row.comment>> \in submitted[i]}]

Inv ==
  /\ StoreGood(Tabled, Columns) /\ Undeleted
  /\ Unique(Clashes)
  /\ Whole(Sent)
  /\ clock \in Times
  /\ DOMAIN task = Sessions
  /\ \A s \in Sessions : pc[s] = "check" => task[s] \in RatingRow
  /\ DOMAIN submitted = RatingIds

LEMMA RatingTables == Tables(Tabled, Columns) /\ Keyed(Tabled, Columns, Clashes)
<1>1. \A e, old, cur \in BookingRow : Written(e, old, cur) \in BookingRow
  BY DEF BookingRow, Written
<1>2. \A e, old, cur \in RatingRow : Written(e, old, cur) \in RatingRow
  BY DEF RatingRow, Written
<1>3. \A i \in Ids : \A e \in RowsOf(i) : Columns[i] \subseteq DOMAIN e
  BY DEF RowsOf, BookingRow, RatingRow, Columns
<1>4. Tables(Tabled, Columns)
  BY <1>1, <1>2, <1>3, KeyAssumption DEF Tables, Tabled, RowsOf
<1>5. ASSUME NEW i \in Ids, NEW j \in Ids, NEW e \in RowsOf(i), NEW g \in RowsOf(i),
             NEW f \in RowsOf(j), \A c \in Columns[i] : e[c] = g[c]
      PROVE  <<e, f>> \in Clashes <=> <<g, f>> \in Clashes
  <2>1. e.table = g.table
    BY <1>5 DEF Columns
  <2>2. e.table = "rating" => e.booking = g.booking
    BY <1>5 DEF Columns, RowsOf, BookingRow
  <2>. QED
    BY <2>1, <2>2 DEF Clashes, SameKey, RowsOf
<1>6. \A i, j \in Ids : \A e \in RowsOf(i) : \A f \in RowsOf(j) :
        <<e, f>> \in Clashes => <<f, e>> \in Clashes
  BY DEF Clashes, SameKey
<1>7. Keyed(Tabled, Columns, Clashes)
  BY <1>5, <1>6 DEF Keyed, Tabled
<1>. QED
  BY <1>4, <1>7

LEMMA RatingInit == Init => Inv
<1>. SUFFICES ASSUME Init PROVE Inv
  OBVIOUS
<1>1. Nothing \in [Ids -> AnyVersion(Tabled)] /\ \A i \in Ids : Nothing[i] = NoRow
  BY NothingTyped
<1>2. \A i \in Ids : rows[i] \in RowsOf(i) \cup {NoRow} /\ (i \in RatingIds => rows[i] = NoRow)
  BY SeedAssumption, KeyAssumption DEF Init, RowsOf
<1>3. rows \in [Ids -> AnyVersion(Tabled)]
  <2>1. \A i \in Ids : rows[i] \in AnyVersion(Tabled)
    <3>1. ASSUME NEW i \in Ids PROVE rows[i] \in AnyVersion(Tabled)
      <4>1. rows[i] \in Tabled[i] \cup {NoRow, Gone}
        BY <1>2 DEF Tabled
      <4>. QED
        BY <4>1, AnyRow
    <3>. QED
      BY <3>1
  <2>. QED
    BY <2>1, SeedAssumption DEF Init
<1>4. StoreTyped(Tabled)
  BY <1>1, <1>2, <1>3 DEF Init, StoreInit, StoreTyped, Tabled
<1>5. StoreInv
  BY <1>1 DEF Init, StoreInit, StoreInv
<1>6. \A i \in Ids : Versions(i) \subseteq {rows[i]} /\ Real(i) \subseteq {rows[i]} \ {NoRow}
  BY <1>1 DEF Init, StoreInit, Versions, Real
<1>7. Fixed(Columns)
  BY <1>6 DEF Fixed
<1>8. Unique(Clashes)
  <2>1. ASSUME NEW i \in Ids, NEW e \in Real(i) PROVE e.table = "booking"
    BY <1>2, <1>6, KeyAssumption DEF RowsOf, BookingRow
  <2>. QED
    BY <1>1, <2>1 DEF Unique, Clashes, SameKey, Init, StoreInit
<1>9. Whole(Sent) /\ Undeleted
  BY <1>1, <1>2, KeyAssumption DEF Whole, Undeleted, Sent, Init, StoreInit
<1>. QED
  BY <1>4, <1>5, <1>7, <1>8, <1>9, KeyAssumption DEF Inv, StoreGood, Init, StoreInit, Times

\* What a step does to the rows, told of a step on the other variables.
LEMMA OthersKept ==
  ASSUME Inv, NEW s \in Sessions, StoreGood(Tabled, Columns)', Undeleted', Unique(Clashes)',
         Whole(Sent)', clock' = clock, DOMAIN task' = Sessions, DOMAIN submitted' = RatingIds,
         \A u \in Sessions : pc'[u] = "check" =>
           \/ pc[u] = "check" /\ task'[u] = task[u]
           \/ task'[u] \in RatingRow
  PROVE  Inv'
BY DEF Inv

LEMMA RatingStaged ==
  ASSUME Inv, NEW s \in Sessions, NEW i \in Ids, NEW entity \in RowsOf(i), NEW next,
         Stage(s, Only(i, entity), next), clock' = clock,
         \/ next = "insert" /\ pc[s] = "check" /\ Fresh(i)
         \/ /\ next = "save" /\ pc[s] = "idle" /\ rows[i] # NoRow
            /\ \A c \in Columns[i] : entity[c] = rows[i][c],
         DOMAIN task' = Sessions, \A u \in Sessions \ {s} : task'[u] = task[u],
         DOMAIN submitted' = RatingIds,
         \A j \in RatingIds : submitted[j] \subseteq submitted'[j] \/ (j = i /\ next = "insert"),
         i \in RatingIds => <<entity.score, entity.comment>> \in submitted'[i]
  PROVE  Inv'
<1>. DEFINE entities == Only(i, entity)
<1>1. /\ \A j \in Ids : entities[j] = IF j = i THEN entity ELSE NoRow
      /\ entities \in [Ids -> AnyVersion(Tabled)]
  BY NothingTyped, AnyRow DEF Only, Tabled
<1>2. StoreTyped(Tabled) /\ StoreInv /\ Fixed(Columns)
  BY DEF Inv, StoreGood
<1>3. next = "insert" =>
        /\ rows[i] = NoRow
        /\ \A u \in Sessions : staged[u][i] = NoRow /\ draft[u][i] = NoRow /\ seen[u][i] = NoRow
  BY <1>2 DEF Fresh, StoreInv
<1>4. ASSUME NEW w \in Versions(i), NEW c \in Columns[i] PROVE entity[c] = w[c]
  <2>1. CASE next = "insert"
    BY <1>3, <2>1 DEF Versions
  <2>2. CASE next = "save" /\ rows[i] # NoRow
    <3>1. rows[i] \in Versions(i)
      BY <1>2, <2>2, RatingTables DEF StoreTyped, Tables, Versions
    <3>. QED
      BY <1>2, <2>2, <3>1 DEF Fixed
  <2>. QED
    BY <2>1, <2>2
<1>5. Stageable(Tabled, Columns, s, entities, next)
  <2>1. \A j \in Ids : draft[s][j] = NoRow
    BY <1>2 DEF StoreInv, Writing
  <2>2. \A j \in Ids : entities[j] # NoRow =>
          /\ entities[j] \in Tabled[j]
          /\ \A w \in Versions(j) : \A c \in Columns[j] : entities[j][c] = w[c]
    BY <1>1, <1>4 DEF Tabled
  <2>3. \A j \in Ids : entities[j] # NoRow =>
          IF next = "insert" THEN Fresh(j) ELSE pc[s] # "insert" /\ rows[j] # NoRow
    BY <1>1
  <2>. QED
    BY <1>1, <2>1, <2>2, <2>3 DEF Stageable
<1>6. StoreGood(Tabled, Columns)' /\ Undeleted'
  BY <1>5, StageGood, StepUndeleted, RatingTables DEF Inv, Stage
<1>7. Unique(Clashes)'
  BY <1>1, <1>2, StageUnique DEF Inv
<1>8. Whole(Sent)'
  <2>1. PICK W : W = Sent'
    OBVIOUS
  <2>2. \A j \in Ids : j # i \/ next # "insert" => Sent[j] \subseteq W[j]
    BY <2>1, KeyAssumption DEF Sent
  <2>3. Whole(W)
    BY <1>3, <2>2 DEF Whole, Inv
  <2>4. entity \in W[i]
    BY <2>1 DEF Sent
  <2>5. Whole(W)'
    BY <1>1, <1>2, <2>3, <2>4, StageWhole
  <2>. QED
    BY <2>1, <2>5
<1>9. \A u \in Sessions : pc'[u] = IF u = s THEN next ELSE pc[u]
  BY <1>2 DEF Stage, StoreTyped
<1>. QED
  BY <1>6, <1>7, <1>8, <1>9, OthersKept

LEMMA RatingStep == Inv /\ [Next]_vars => Inv'
<1>. SUFFICES ASSUME Inv, [Next]_vars PROVE Inv'
  OBVIOUS
<1>0. /\ StoreTyped(Tabled) /\ StoreInv /\ Tables(Tabled, Columns)
      /\ Keyed(Tabled, Columns, Clashes)
  BY RatingTables DEF Inv, StoreGood
<1>1. ASSUME NEW s \in Sessions, NEW b \in BookingIds, LoadBooking(s, b) PROVE Inv'
  <2>1. pc[s] = "idle" /\ rows[b] \in BookingRow /\ clock \in Times /\ Stage(s, Nothing, "check")
    BY <1>0, <1>1, KeyAssumption DEF LoadBooking, TakeUp, StoreTyped, Tabled, RowsOf, Inv
  <2>2. Nothing \in [Ids -> AnyVersion(Tabled)] /\ \A j \in Ids : Nothing[j] = NoRow
    BY NothingTyped
  <2>3. Stageable(Tabled, Columns, s, Nothing, "check")
    BY <1>0, <2>1, <2>2 DEF Stageable, StoreInv, Writing
  <2>4. StoreGood(Tabled, Columns)' /\ Undeleted'
    BY <1>0, <2>1, <2>3, StageGood, StepUndeleted DEF Inv, Stage
  <2>5. Unique(Clashes)'
    BY <1>0, <2>1, StageUnique DEF Inv
  <2>6. Whole(Sent)'
    <3>1. PICK W : W = Sent
      OBVIOUS
    <3>2. Whole(W)'
      BY <1>0, <2>1, <2>2, <3>1, StageWhole DEF Inv
    <3>3. Sent' = Sent
      BY <1>1 DEF Sent, LoadBooking
    <3>. QED
      BY <3>1, <3>2, <3>3
  <2>7. DOMAIN task' = Sessions /\ task'[s] \in RatingRow /\ \A u \in Sessions \ {s} : task'[u] = task[u]
    <3>1. \A score \in Scores, comment \in Comments : NewRating(b, score, comment) \in RatingRow
      BY <2>1 DEF NewRating, RatingRow, BookingRow
    <3>. QED
      BY <1>1, <3>1 DEF LoadBooking, Inv
  <2>8. \A u \in Sessions : pc'[u] = IF u = s THEN "check" ELSE pc[u]
    BY <1>0, <2>1 DEF Stage, StoreTyped
  <2>. QED
    BY <1>1, <2>4, <2>5, <2>6, <2>7, <2>8, OthersKept DEF LoadBooking, Inv
<1>2. ASSUME NEW s \in Sessions, NEW b \in BookingIds, CancelBooking(s, b) PROVE Inv'
  <2>1. b \in Ids /\ b \notin RatingIds /\ rows[b] \in BookingRow
    BY <1>0, <1>2, KeyAssumption DEF CancelBooking, StoreTyped, Tabled, RowsOf
  <2>. DEFINE entity == [rows[b] EXCEPT !.status = "CANCELLED"]
  <2>2. entity \in RowsOf(b) /\ \A c \in Columns[b] : entity[c] = rows[b][c]
    BY <2>1 DEF RowsOf, BookingRow, Columns
  <2>3. Stage(s, Only(b, entity), "save") /\ pc[s] = "idle"
    BY <1>2 DEF CancelBooking, TakeUp
  <2>. HIDE DEF entity
  <2>. QED
    BY <1>2, <2>1, <2>2, <2>3, RatingStaged DEF CancelBooking, Inv
<1>3. ASSUME NEW s \in Sessions, NEW i \in RatingIds, Build(s, i) PROVE Inv'
  <2>1. i \in Ids /\ task[s] \in RowsOf(i)
    BY <1>3, KeyAssumption DEF Build, RowsOf, Inv
  <2>2. /\ submitted' = [submitted EXCEPT ![i] = {<<task[s].score, task[s].comment>>}]
        /\ DOMAIN submitted' = RatingIds
        /\ <<task[s].score, task[s].comment>> \in submitted'[i]
        /\ \A j \in RatingIds : j # i => submitted'[j] = submitted[j]
    BY <1>3 DEF Build, Inv
  <2>3. DOMAIN task' = Sessions /\ \A u \in Sessions \ {s} : task'[u] = task[u]
    BY <1>3 DEF Build, Inv
  <2>4. /\ Stage(s, Only(i, task[s]), "insert") /\ pc[s] = "check" /\ Fresh(i)
        /\ clock' = clock
    BY <1>3 DEF Build
  <2>5. \A j \in RatingIds : submitted[j] \subseteq submitted'[j] \/ j = i
    BY <2>2
  <2>6. ASSUME NEW entity, entity = task[s] PROVE Inv'
    BY <2>1, <2>2, <2>3, <2>4, <2>5, <2>6, RatingStaged
  <2>. QED
    BY <2>6
<1>4. ASSUME NEW s \in Sessions, NEW i \in RatingIds, UpdateRating(s, i) PROVE Inv'
  <2>1. i \in Ids /\ i \notin BookingIds /\ rows[i] # NoRow /\ rows[i] \in RatingRow /\ clock \in Times
    BY <1>0, <1>4, KeyAssumption DEF UpdateRating, Ratings, StoreTyped, Tabled, RowsOf, Inv
  <2>2. PICK score \in Scores, comment \in Comments :
          /\ Stage(s, Only(i, TextUpdated(rows[i], score, comment)), "save")
          /\ submitted' = [submitted EXCEPT ![i] = @ \cup {<<score, comment>>}]
    BY <1>4 DEF UpdateRating
  <2>. DEFINE entity == TextUpdated(rows[i], score, comment)
  <2>3. /\ entity \in RowsOf(i) /\ \A c \in Columns[i] : entity[c] = rows[i][c]
        /\ entity.score = score /\ entity.comment = comment
    BY <2>1 DEF TextUpdated, RowsOf, RatingRow, Columns
  <2>4. /\ DOMAIN submitted' = RatingIds
        /\ \A j \in RatingIds : submitted[j] \subseteq submitted'[j]
        /\ <<score, comment>> \in submitted'[i]
    BY <2>2 DEF Inv
  <2>5. Stage(s, Only(i, entity), "save") /\ pc[s] = "idle" /\ task' = task /\ clock' = clock
    BY <1>4, <2>2 DEF UpdateRating, TakeUp
  <2>. HIDE DEF entity
  <2>. QED
    BY <2>1, <2>3, <2>4, <2>5, RatingStaged DEF Inv
<1>5. ASSUME NEW s \in Sessions, Rollback(s), clock' = clock, submitted' = submitted,
             DOMAIN task' = Sessions, \A u \in Sessions \ {s} : task'[u] = task[u]
      PROVE  Inv'
  <2>1. StoreGood(Tabled, Columns)' /\ Undeleted' /\ Unique(Clashes)'
    BY <1>0, <1>5, RollbackGood, StepUndeleted, RollbackUnique DEF Inv
  <2>2. Whole(Sent)'
    <3>1. PICK W : W = Sent
      OBVIOUS
    <3>2. Whole(W)'
      BY <1>0, <1>5, <3>1, RollbackWhole DEF Inv
    <3>3. Sent' = Sent
      BY <1>5 DEF Sent
    <3>. QED
      BY <3>1, <3>2, <3>3
  <2>3. \A u \in Sessions : pc'[u] = IF u = s THEN "idle" ELSE pc[u]
    BY <1>0, <1>5 DEF Rollback, Close, StoreTyped
  <2>. QED
    BY <1>5, <2>1, <2>2, <2>3, OthersKept DEF Inv
<1>6. ASSUME NEW s \in Sessions, RefuseRated(s) \/ RefuseInsert(s) \/ Fail(s) PROVE Inv'
  BY <1>5, <1>6 DEF RefuseRated, RefuseInsert, InsertRefused, Fail, Abort, Inv
<1>7. ASSUME NEW s \in Sessions, Insert(s) PROVE Inv'
  <2>1. InsertRows(s) /\ UNCHANGED <<clock, task, submitted>>
    BY <1>7 DEF Insert
  <2>2. Clear(s, Clashes)
    BY <1>7 DEF Insert, KeysFree, Waits, Taken, Clear, Clashes
  <2>3. StoreGood(Tabled, Columns)' /\ Undeleted' /\ Unique(Clashes)'
    BY <1>0, <2>1, <2>2, InsertGood, StepUndeleted, InsertUnique DEF Inv
  <2>4. Whole(Sent)'
    <3>1. PICK W : W = Sent
      OBVIOUS
    <3>2. Whole(W)'
      BY <1>0, <2>1, <3>1, InsertWhole DEF Inv
    <3>3. Sent' = Sent
      BY <2>1 DEF Sent
    <3>. QED
      BY <3>1, <3>2, <3>3
  <2>5. \A u \in Sessions : pc'[u] = IF u = s THEN "save" ELSE pc[u]
    BY <1>0, <2>1 DEF InsertRows, StoreTyped
  <2>. QED
    BY <2>1, <2>3, <2>4, <2>5, OthersKept DEF Inv
<1>8. ASSUME NEW s \in Sessions, NEW i \in Ids, Save(s, i) PROVE Inv'
  <2>1. PICK W : W = Sent
    OBVIOUS
  <2>2. Sent' = Sent /\ UNCHANGED <<clock, task, submitted>> /\ Whole(W)
    BY <1>8, <2>1 DEF Sent, Save, Inv
  <2>3. CASE SelectRow(s, i)
    <3>1. UNCHANGED <<rows, pc, staged, draft, mixed, torn>>
      BY <2>3 DEF SelectRow
    <3>2. StoreGood(Tabled, Columns)' /\ Undeleted' /\ Unique(Clashes)' /\ Whole(W)'
      BY <1>0, <2>2, <2>3, <3>1, SelectGood, StepUndeleted, QuietUnique, QuietWhole DEF Inv
    <3>. QED
      BY <2>1, <2>2, <3>1, <3>2, OthersKept DEF Inv
  <2>4. CASE WriteRow(s, i)
    <3>1. pc' = pc
      BY <2>4 DEF WriteRow
    <3>2. StoreGood(Tabled, Columns)' /\ Undeleted' /\ Unique(Clashes)' /\ Whole(W)'
      BY <1>0, <2>2, <2>4, WriteGood, StepUndeleted, WriteUnique, WriteWhole DEF Inv
    <3>. QED
      BY <2>1, <2>2, <3>1, <3>2, OthersKept DEF Inv
  <2>. QED
    BY <1>8, <2>3, <2>4 DEF Save
<1>9. ASSUME NEW s \in Sessions, Commit(s) PROVE Inv'
  <2>1. CommitRows(s) /\ UNCHANGED <<clock, task, submitted>>
    BY <1>9 DEF Commit
  <2>2. PICK W : W = Sent
    OBVIOUS
  <2>3. Sent' = Sent /\ Whole(W)
    BY <2>1, <2>2 DEF Sent, Inv
  <2>4. StoreGood(Tabled, Columns)' /\ Undeleted' /\ Unique(Clashes)' /\ Whole(W)'
    BY <1>0, <2>1, <2>3, CommitGood, StepUndeleted, CommitUnique, CommitWhole DEF Inv
  <2>5. \A u \in Sessions : pc'[u] = IF u = s THEN "idle" ELSE pc[u]
    BY <1>0, <2>1 DEF CommitRows, Close, StoreTyped
  <2>. QED
    BY <2>1, <2>2, <2>3, <2>4, <2>5, OthersKept DEF Inv
<1>10. ASSUME UNCHANGED <<storeVars, task, submitted>>, clock' \in Times PROVE Inv'
  <2>1. Sent' = Sent
    BY <1>10 DEF Sent
  <2>2. Inv
    OBVIOUS
  <2>. QED
    BY <1>10, <2>1, <2>2, QuietGood DEF Inv, Whole, storeVars
<1>11. CASE Tick \/ UNCHANGED vars
  BY <1>10, <1>11, KeyAssumption DEF Tick, Inv, Times, vars
<1>. QED
  BY <1>1, <1>2, <1>3, <1>4, <1>6, <1>7, <1>8, <1>9, <1>11 DEF Next, Step, Finished

THEOREM RatingInvariant == Spec => []Inv
BY RatingInit, RatingStep, PTL DEF Spec

\* create_rating.py:81-82: a booking has one rating, however many requests of its
\* customer run at once.
THEOREM OneRating == Spec => []OneRatingPerBooking
<1>1. Inv => OneRatingPerBooking
  <2>. SUFFICES ASSUME Inv, NEW b \in BookingIds PROVE Cardinality(RatingOf(b)) <= 1
    BY DEF OneRatingPerBooking
  <2>1. \A i \in RatingOf(b) :
          /\ i \in Ids /\ rows[i] \in RatingRow /\ rows[i] \in Real(i)
          /\ rows[i].booking = b
    <3>1. ASSUME NEW i \in RatingOf(b)
          PROVE  /\ i \in Ids /\ rows[i] \in RatingRow /\ rows[i] # NoRow /\ rows[i] # Gone
                 /\ rows[i].booking = b
      <4>1. i \in Ids /\ i \notin BookingIds /\ rows[i] # NoRow /\ rows[i].booking = b
        BY <3>1, KeyAssumption DEF RatingOf, Ratings
      <4>2. rows[i] \in RatingRow
        BY <4>1 DEF Inv, StoreGood, StoreTyped, Tabled, RowsOf
      <4>. QED
        BY <4>1, <4>2, KeyAssumption DEF RowsOf
    <3>. QED
      BY <3>1 DEF Real
  <2>2. ASSUME NEW i \in RatingOf(b), NEW j \in RatingOf(b), i # j PROVE FALSE
    <3>1. <<rows[i], rows[j]>> \in Clashes
      BY <2>1 DEF Clashes, SameKey, RatingRow
    <3>. QED
      BY <2>1, <2>2, <3>1 DEF Inv, Unique
  <2>3. CASE RatingOf(b) = {}
    BY <2>3, FS_EmptySet
  <2>4. ASSUME NEW i \in RatingOf(b) PROVE Cardinality(RatingOf(b)) <= 1
    <3>1. RatingOf(b) = {i}
      BY <2>2, <2>4
    <3>2. Cardinality({i}) = 1
      BY FS_Singleton
    <3>. QED
      BY <3>1, <3>2
  <2>. QED
    BY <2>3, <2>4
<1>. QED
  BY <1>1, RatingInvariant, PTL

\* rating.py:44-55: score and comment are replaced together, for any number of
\* edits: a rating shows what was sent in one piece, unless its columns were mixed.
THEOREM ShownSent == Spec => []ShownAsSubmitted
<1>1. Inv => ShownAsSubmitted
  BY KeyAssumption DEF Inv, Whole, Sent, ShownAsSubmitted, Ratings
<1>. QED
  BY <1>1, RatingInvariant, PTL

(***************************************************************************)
(* Sums over finite sets: that the recursion behind MapThenSumSet has a    *)
(* solution, and what a sum is.  SlotGridProofs, about another state       *)
(* machine, needs the same of its prices.                                  *)
(***************************************************************************)
One(s) == CHOOSE x \in s : TRUE

\* g sums F over every subset of S, in the order in which CHOOSE takes the
\* elements.
Adds(g, F, S) ==
  \A s \in SUBSET S : g[s] = IF s = {} THEN 0 ELSE F[One(s)] + g[s \ {One(s)}]

IsSum(g, F, S) ==
  g = [s \in SUBSET S |-> IF s = {} THEN 0 ELSE F[One(s)] + g[s \ {One(s)}]]

\* Induction on finite sets: of those there are, one contains no other.
LEMMA Smallest ==
  ASSUME NEW S, IsFiniteSet(S), NEW Bad \in SUBSET SUBSET S, Bad # {}
  PROVE  \E T \in Bad : \A U \in Bad : U \subseteq T => U = T
<1>1. Bad \subseteq FiniteSubsetsOf(S)
  BY FS_Subset DEF FiniteSubsetsOf
<1>2. PICK T \in Bad : \A U \in Bad : <<U, T>> \notin StrictSubsetOrdering(S)
  BY <1>1, FS_StrictSubsetOrderingWellFounded, WFMin
<1>3. \A U \in Bad : U \notin (SUBSET T) \ {T}
  BY <1>1, <1>2 DEF StrictSubsetOrdering
<1>. QED
  BY <1>3

LEMMA OneOf == ASSUME NEW s, s # {} PROVE One(s) \in s
BY DEF One

\* The recursive definition behind a sum has a solution.
LEMMA SumExists ==
  ASSUME NEW S, IsFiniteSet(S), NEW F
  PROVE  \E g : IsSum(g, F, S)
<1>. DEFINE Value(g, s) == IF s = {} THEN 0 ELSE F[One(s)] + g[s \ {One(s)}]
            UpTo(g, T) == \A s \in SUBSET S :
                            Cardinality(s) <= Cardinality(T) => g[s] = Value(g, s)
            Bad == {T \in SUBSET S : ~\E g : UpTo(g, T)}
<1>1. \A s \in SUBSET S : IsFiniteSet(s) /\ Cardinality(s) \in Nat
  BY FS_Subset, FS_CardinalityType
<1>2. \A s \in SUBSET S : s # {} =>
        /\ s \ {One(s)} \in SUBSET S
        /\ Cardinality(s \ {One(s)}) = Cardinality(s) - 1
  BY <1>1, OneOf, FS_RemoveElement
<1>3. \A s \in SUBSET S : Cardinality(s) <= 0 => s = {}
  BY <1>1, FS_EmptySet
<1>4. Bad = {}
  <2>. SUFFICES ASSUME Bad # {} PROVE FALSE
    OBVIOUS
  <2>1. PICK T \in Bad : \A U \in Bad : U \subseteq T => U = T
    <3>1. Bad \in SUBSET SUBSET S
      OBVIOUS
    <3>. HIDE DEF Bad
    <3>. QED
      BY <3>1, Smallest
  <2>2. CASE T = {}
    <3>. DEFINE g == [s \in SUBSET S |-> 0]
    <3>1. Cardinality({}) = 0
      BY FS_EmptySet
    <3>2. UpTo(g, T)
      BY <1>3, <2>2, <3>1
    <3>. QED
      BY <2>1, <3>2
  <2>3. CASE T # {}
    <3>. DEFINE U == T \ {One(T)}
                n == Cardinality(U)
    <3>1. U \in SUBSET S /\ U # T /\ n \in Nat /\ Cardinality(T) = n + 1
      <4>1. U \in SUBSET S /\ Cardinality(U) = Cardinality(T) - 1 /\ T \in SUBSET S
        BY <1>2, <2>1, <2>3
      <4>2. Cardinality(U) \in Nat /\ Cardinality(T) \in Nat
        BY <1>1, <4>1
      <4>. HIDE DEF U
      <4>3. n \in Nat /\ Cardinality(T) = n + 1
        BY <4>1, <4>2
      <4>4. U # T
        BY <4>1, <4>2
      <4>. QED
        BY <4>1, <4>3, <4>4
    <3>2. PICK g : UpTo(g, U)
      <4>1. U \notin Bad
        BY <2>1, <3>1
      <4>. HIDE DEF UpTo, U
      <4>. QED
        BY <3>1, <4>1
    <3>. DEFINE h == [s \in SUBSET S |-> IF Cardinality(s) <= n THEN g[s] ELSE Value(g, s)]
    <3>3. ASSUME NEW s \in SUBSET S, Cardinality(s) <= n + 1
          PROVE  h[s] = Value(h, s)
      <4>1. h[s] = Value(g, s)
        BY <3>2
      <4>2. CASE s = {}
        BY <4>1, <4>2
      <4>3. CASE s # {}
        <5>. DEFINE r == s \ {One(s)}
        <5>1. r \in SUBSET S /\ Cardinality(r) <= n
          BY <1>1, <1>2, <3>1, <3>3, <4>3
        <5>2. h[r] = g[r]
          BY <5>1
        <5>. HIDE DEF h
        <5>. QED
          BY <4>1, <4>3, <5>2
      <4>. QED
        BY <4>2, <4>3
    <3>. HIDE DEF h
    <3>4. UpTo(h, T)
      BY <3>1, <3>3
    <3>. QED
      BY <2>1, <3>4
  <2>. QED
    BY <2>2, <2>3
<1>5. PICK g : UpTo(g, S)
  BY <1>4
<1>6. \A s \in SUBSET S : Cardinality(s) <= Cardinality(S)
  BY FS_Subset
<1>. DEFINE h == [s \in SUBSET S |-> g[s]]
<1>7. \A s \in SUBSET S : h[s] = Value(h, s)
  BY <1>2, <1>5, <1>6
<1>8. h = [s \in SUBSET S |-> Value(h, s)]
  <2>1. h = [s \in SUBSET S |-> h[s]]
    OBVIOUS
  <2>. HIDE DEF h
  <2>. QED
    BY <1>7, <2>1
<1>. QED
  BY <1>8 DEF IsSum

\* The order does not matter.
LEMMA SumOfParts ==
  ASSUME NEW S, IsFiniteSet(S), NEW F, \A x \in S : F[x] \in Int, NEW g, Adds(g, F, S)
  PROVE  /\ g[{}] = 0
         /\ \A T \in SUBSET S : g[T] \in Int
         /\ \A T \in SUBSET S : \A x \in T : g[T] = F[x] + g[T \ {x}]
<1>1. \A s \in SUBSET S : /\ s = {} => g[s] = 0
                          /\ s # {} => /\ One(s) \in s
                                       /\ g[s] = F[One(s)] + g[s \ {One(s)}]
  BY OneOf DEF Adds
<1>. DEFINE Odd == {T \in SUBSET S : g[T] \notin Int}
            Bad == {T \in SUBSET S : \E x \in T : g[T] # F[x] + g[T \ {x}]}
<1>2. Odd = {}
  <2>. SUFFICES ASSUME Odd # {} PROVE FALSE
    OBVIOUS
  <2>1. PICK T \in Odd : \A U \in Odd : U \subseteq T => U = T
    <3>1. Odd \in SUBSET SUBSET S
      OBVIOUS
    <3>. HIDE DEF Odd
    <3>. QED
      BY <3>1, Smallest
  <2>2. T # {}
    <3>1. g[T] \notin Int
      BY <2>1
    <3>2. g[{}] = 0
      BY <1>1
    <3>. QED
      BY <3>1, <3>2
  <2>. DEFINE U == T \ {One(T)}
  <2>3. U \in SUBSET S /\ U \subseteq T /\ U # T /\ g[T] = F[One(T)] + g[U] /\ One(T) \in S
    BY <1>1, <2>1, <2>2
  <2>4. g[U] \in Int
    BY <2>1, <2>3
  <2>. QED
    BY <2>1, <2>3, <2>4
<1>3. Bad = {}
  <2>. SUFFICES ASSUME Bad # {} PROVE FALSE
    OBVIOUS
  <2>1. PICK T \in Bad : \A U \in Bad : U \subseteq T => U = T
    <3>1. Bad \in SUBSET SUBSET S
      OBVIOUS
    <3>. HIDE DEF Bad
    <3>. QED
      BY <3>1, Smallest
  <2>2. PICK x \in T : g[T] # F[x] + g[T \ {x}]
    BY <2>1
  <2>. DEFINE p == One(T)
  <2>3. p \in T /\ g[T] = F[p] + g[T \ {p}] /\ p # x /\ T \in SUBSET S
    BY <1>1, <2>1, <2>2
  <2>. HIDE DEF p
  <2>4. g[T \ {p}] = F[x] + g[(T \ {p}) \ {x}]
    <3>1. T \ {p} \in SUBSET S /\ T \ {p} # T /\ x \in T \ {p}
      BY <2>2, <2>3
    <3>. QED
      BY <2>1, <3>1
  <2>5. g[T \ {x}] = F[p] + g[(T \ {x}) \ {p}]
    <3>1. T \ {x} \in SUBSET S /\ T \ {x} # T /\ p \in T \ {x}
      BY <2>2, <2>3
    <3>. QED
      BY <2>1, <3>1
  <2>6. (T \ {x}) \ {p} = (T \ {p}) \ {x}
    OBVIOUS
  <2>. DEFINE a == g[(T \ {p}) \ {x}]
  <2>7. /\ F[x] \in Int /\ F[p] \in Int /\ a \in Int
        /\ g[T] = F[p] + (F[x] + a) /\ g[T \ {x}] = F[p] + a
    BY <1>2, <2>2, <2>3, <2>4, <2>5, <2>6
  <2>. HIDE DEF a
  <2>. QED
    BY <2>2, <2>7
<1>. QED
  BY <1>1, <1>2, <1>3

\* Nor does what else there is.
LEMMA SumsAgree ==
  ASSUME NEW S, IsFiniteSet(S), NEW F, NEW g, Adds(g, F, S),
         NEW T \in SUBSET S, NEW h, Adds(h, F, T)
  PROVE  h[T] = g[T]
<1>. DEFINE Bad == {U \in SUBSET T : h[U] # g[U]}
<1>1. Bad = {}
  <2>. SUFFICES ASSUME Bad # {} PROVE FALSE
    OBVIOUS
  <2>1. PICK U \in Bad : \A V \in Bad : V \subseteq U => V = U
    <3>1. Bad \in SUBSET SUBSET S
      OBVIOUS
    <3>. HIDE DEF Bad
    <3>. QED
      BY <3>1, Smallest
  <2>2. /\ U \in SUBSET T /\ U \in SUBSET S
        /\ h[U] = IF U = {} THEN 0 ELSE F[One(U)] + h[U \ {One(U)}]
        /\ g[U] = IF U = {} THEN 0 ELSE F[One(U)] + g[U \ {One(U)}]
    BY DEF Adds
  <2>3. U # {}
    BY <2>1, <2>2
  <2>4. h[U \ {One(U)}] = g[U \ {One(U)}]
    BY <2>1, <2>3, OneOf
  <2>. QED
    BY <2>1, <2>2, <2>4
<1>. QED
  BY <1>1

\* Sums of what has nothing in common.
LEMMA SumOfTwo ==
  ASSUME NEW S, IsFiniteSet(S), NEW F, \A x \in S : F[x] \in Int, NEW g, Adds(g, F, S),
         NEW A \in SUBSET S, NEW B \in SUBSET S, A \cap B = {}
  PROVE  g[A \cup B] = g[A] + g[B]
<1>. DEFINE Bad == {C \in SUBSET A : g[C \cup B] # g[C] + g[B]}
<1>1. /\ g[{}] = 0
      /\ \A T \in SUBSET S : g[T] \in Int
      /\ \A T \in SUBSET S : \A x \in T : g[T] = F[x] + g[T \ {x}]
  BY SumOfParts
<1>2. Bad = {}
  <2>. SUFFICES ASSUME Bad # {} PROVE FALSE
    OBVIOUS
  <2>1. PICK C \in Bad : \A D \in Bad : D \subseteq C => D = C
    <3>1. Bad \in SUBSET SUBSET S
      OBVIOUS
    <3>. HIDE DEF Bad
    <3>. QED
      BY <3>1, Smallest
  <2>2. g[B] \in Int
    BY <1>1
  <2>3. C # {}
    <3>. SUFFICES ASSUME C = {} PROVE FALSE
      OBVIOUS
    <3>1. g[C \cup B] # g[C] + g[B]
      BY <2>1
    <3>2. C \cup B = B /\ g[C] = 0
      BY <1>1
    <3>. QED
      BY <2>2, <3>1, <3>2
  <2>4. PICK x : x \in C
    BY <2>3
  <2>. DEFINE D == C \ {x}
              V == C \cup B
              W == D \cup B
  <2>5. D \in SUBSET A /\ D # C /\ D \subseteq C /\ D \in SUBSET S /\ C \in SUBSET S
    BY <2>1, <2>4
  <2>6. V \ {x} = W /\ V \in SUBSET S /\ W \in SUBSET S /\ x \in V /\ x \in S
    BY <2>1, <2>4
  <2>. HIDE DEF V, W
  <2>7. g[V] = F[x] + g[W] /\ g[C] = F[x] + g[D]
    BY <1>1, <2>4, <2>5, <2>6
  <2>8. g[W] = g[D] + g[B]
    BY <2>1, <2>5 DEF W
  <2>9. g[V] # g[C] + g[B]
    BY <2>1 DEF V
  <2>. HIDE DEF D
  <2>10. F[x] \in Int /\ g[D] \in Int /\ g[B] \in Int
    BY <1>1, <2>5, <2>6
  <2>. QED
    BY <2>7, <2>8, <2>9, <2>10
<1>. QED
  BY <1>2

(***************************************************************************)
(* Averages.                                                               *)
(***************************************************************************)

\* Rounding moves a quotient by no more than a half.
LEMMA Rounding ==
  ASSUME NEW n \in Int, NEW d \in Nat \ {0}
  PROVE  /\ Quantize(n, d) \in Int
         /\ -d <= 2 * (Quantize(n, d) * d - n)
         /\ 2 * (Quantize(n, d) * d - n) <= d
<1>. DEFINE q == n \div d
            r == n % d
<1>1. n = d * q + r /\ r \in 0..(d - 1) /\ q \in Int
  OBVIOUS
<1>2. /\ Quantize(n, d) \in {q, q + 1}
      /\ Quantize(n, d) = q => 2 * r <= d
      /\ Quantize(n, d) = q + 1 => 2 * r >= d
  <2>1. Quantize(n, d) = IF 2 * r > d \/ (2 * r = d /\ q % 2 = 1) THEN q + 1 ELSE q
    BY DEF Quantize
  <2>. HIDE DEF q, r
  <2>. QED
    BY <1>1, <2>1
<1>. HIDE DEF q, r
<1>3. q * d = d * q /\ (q + 1) * d = d * q + d
  BY <1>1
<1>4. CASE Quantize(n, d) = q
  BY <1>1, <1>2, <1>3, <1>4
<1>5. CASE Quantize(n, d) = q + 1
  BY <1>1, <1>2, <1>3, <1>5
<1>. QED
  BY <1>2, <1>4, <1>5

\* Total and the weighted sum, as sums over all ratings and over all resources.
Scored == [i \in RatingIds |-> rows[i].score]
Weighed == [x \in Resources |-> Average(x) * Cardinality(Of(x))]

LEMMA TotalIsSum ==
  ASSUME NEW S \in SUBSET RatingIds, IsFiniteSet(S)
  PROVE  \E g : Adds(g, Scored, S) /\ Total(S) = g[S]
<1>. DEFINE g == CHOOSE h : h = [s \in SUBSET S |->
                                   IF s = {} THEN 0
                                   ELSE LET x == CHOOSE x \in s : TRUE
                                        IN  rows[x].score + h[s \ {x}]]
<1>1. Total(S) = g[S]
  BY DEF Total, MapThenSumSet, MapThenFoldSet
<1>2. PICK h : IsSum(h, Scored, S)
  BY SumExists
<1>3. \A s \in SUBSET S : s # {} => Scored[One(s)] = rows[One(s)].score
  <2>. TAKE s \in SUBSET S
  <2>. HAVE s # {}
  <2>1. One(s) \in RatingIds
    BY OneOf
  <2>. QED
    BY <2>1 DEF Scored
<1>4. h = [s \in SUBSET S |-> IF s = {} THEN 0 ELSE rows[One(s)].score + h[s \ {One(s)}]]
  BY <1>2, <1>3 DEF IsSum
<1>5. g = [s \in SUBSET S |-> IF s = {} THEN 0 ELSE rows[One(s)].score + g[s \ {One(s)}]]
  BY <1>4 DEF One
<1>. HIDE DEF g
<1>6. Adds(g, Scored, S)
  BY <1>3, <1>5 DEF Adds
<1>. QED
  BY <1>1, <1>6

LEMMA WeightIsSum ==
  ASSUME NEW listed \in SUBSET Resources, IsFiniteSet(Rated(listed))
  PROVE  \E g : /\ Adds(g, Weighed, Rated(listed))
                /\ OwnerAverage(listed) = Quantize(g[Rated(listed)], Cardinality(Counted(listed)))
<1>. DEFINE S == Rated(listed)
            g == CHOOSE h : h = [s \in SUBSET S |->
                                   IF s = {} THEN 0
                                   ELSE LET x == CHOOSE x \in s : TRUE
                                        IN  Average(x) * Cardinality(Of(x)) + h[s \ {x}]]
<1>1. OwnerAverage(listed) = Quantize(g[S], Cardinality(Counted(listed)))
  BY DEF OwnerAverage, MapThenSumSet, MapThenFoldSet
<1>2. PICK h : IsSum(h, Weighed, S)
  BY SumExists
<1>3. S \subseteq Resources
  BY DEF Rated
<1>. HIDE DEF S
<1>4. \A s \in SUBSET S : s # {} => Weighed[One(s)] = Average(One(s)) * Cardinality(Of(One(s)))
  <2>. TAKE s \in SUBSET S
  <2>. HAVE s # {}
  <2>1. One(s) \in Resources
    BY <1>3, OneOf
  <2>. QED
    BY <2>1 DEF Weighed
<1>5. h = [s \in SUBSET S |->
             IF s = {} THEN 0
             ELSE Average(One(s)) * Cardinality(Of(One(s))) + h[s \ {One(s)}]]
  BY <1>2, <1>4 DEF IsSum
<1>6. g = [s \in SUBSET S |->
             IF s = {} THEN 0
             ELSE Average(One(s)) * Cardinality(Of(One(s))) + g[s \ {One(s)}]]
  BY <1>5 DEF One
<1>. HIDE DEF g
<1>7. Adds(g, Weighed, S)
  BY <1>4, <1>6 DEF Adds
<1>. QED
  BY <1>1, <1>7 DEF S

\* The rounding errors of the resources add up to half the number of ratings.
LEMMA AveragesAreClose ==
  ASSUME NEW listed \in SUBSET Resources,
         IsFiniteSet(Counted(listed)), Counted(listed) # {},
         Counted(listed) \subseteq RatingIds,
         \A i \in Counted(listed) : rows[i].score \in Int /\ rows[i].resource \in listed
  PROVE  LET count == Cardinality(Counted(listed))
             error == OwnerAverage(listed) * count - 10 * Total(Counted(listed))
         IN  -count <= error /\ error <= count
<1>. DEFINE Under(Y) == {i \in Counted(listed) : rows[i].resource \in Y}
            T == Total(Counted(listed))
            N == Cardinality(Counted(listed))
<1>1. N \in Nat \ {0}
  BY FS_CardinalityType, FS_EmptySet
<1>2. IsFiniteSet(Rated(listed))
  <2>. DEFINE R == {rows[i].resource : i \in Counted(listed)}
              f == [i \in Counted(listed) |-> rows[i].resource]
  <2>1. IsFiniteSet(R)
    <3>1. f \in Surjection(Counted(listed), R)
      BY DEF Surjection
    <3>. QED
      BY <3>1, FS_Surjection
  <2>2. Rated(listed) \in SUBSET R
    BY DEF Rated, Of, Counted
  <2>. QED
    BY <2>1, <2>2, FS_Subset
<1>3. PICK t : Adds(t, Scored, Counted(listed)) /\ T = t[Counted(listed)]
  BY TotalIsSum
<1>4. \A i \in Counted(listed) : Scored[i] \in Int
  BY DEF Scored
<1>5. \A A \in SUBSET Counted(listed) :
        /\ IsFiniteSet(A) /\ Cardinality(A) \in Nat
        /\ t[A] \in Int /\ Total(A) = t[A]
  <2>. TAKE A \in SUBSET Counted(listed)
  <2>1. IsFiniteSet(A) /\ Cardinality(A) \in Nat
    BY FS_Subset, FS_CardinalityType
  <2>2. t[A] \in Int
    BY <1>3, <1>4, SumOfParts
  <2>3. PICK g : Adds(g, Scored, A) /\ Total(A) = g[A]
    <3>1. A \in SUBSET RatingIds
      OBVIOUS
    <3>. QED
      BY <2>1, <3>1, TotalIsSum
  <2>4. g[A] = t[A]
    BY <1>3, <2>3, SumsAgree
  <2>. QED
    BY <2>1, <2>2, <2>3, <2>4
<1>6. \A x \in Rated(listed) :
        /\ Weighed[x] \in Int
        /\ -Cardinality(Of(x)) <= 2 * (Weighed[x] - 10 * t[Of(x)])
        /\ 2 * (Weighed[x] - 10 * t[Of(x)]) <= Cardinality(Of(x))
  <2>. TAKE x \in Rated(listed)
  <2>1. Of(x) \in SUBSET Counted(listed) /\ Of(x) # {} /\ x \in Resources
    BY DEF Of, Rated, Counted
  <2>2. IsFiniteSet(Of(x)) /\ Total(Of(x)) = t[Of(x)] /\ t[Of(x)] \in Int
    BY <1>5, <2>1
  <2>. DEFINE d == Cardinality(Of(x))
              n == 10 * Total(Of(x))
              a == Quantize(n, d)
  <2>3. d \in Nat \ {0}
    BY <2>1, <2>2, FS_CardinalityType, FS_EmptySet
  <2>4. n \in Int /\ n = 10 * t[Of(x)]
    BY <2>2
  <2>5. a \in Int /\ -d <= 2 * (a * d - n) /\ 2 * (a * d - n) <= d
    <3>. HIDE DEF d, n
    <3>. QED
      BY <2>3, <2>4, Rounding
  <2>6. Weighed[x] = a * d
    BY <2>1 DEF Weighed, Average
  <2>. HIDE DEF d, n, a
  <2>7. Weighed[x] \in Int /\ -d <= 2 * (Weighed[x] - n) /\ 2 * (Weighed[x] - n) <= d
    BY <2>3, <2>5, <2>6
  <2>. QED
    BY <2>4, <2>7 DEF d
<1>7. PICK w : Adds(w, Weighed, Rated(listed)) /\ OwnerAverage(listed) = Quantize(w[Rated(listed)], N)
  BY <1>2, WeightIsSum
<1>8. /\ w[{}] = 0
      /\ \A Y \in SUBSET Rated(listed) : w[Y] \in Int
      /\ \A Y \in SUBSET Rated(listed) : \A x \in Y : w[Y] = Weighed[x] + w[Y \ {x}]
  <2>1. \A x \in Rated(listed) : Weighed[x] \in Int
    BY <1>6
  <2>. QED
    BY <1>2, <1>7, <2>1, SumOfParts
<1>. DEFINE Near(Y) == /\ -Cardinality(Under(Y)) <= 2 * (w[Y] - 10 * t[Under(Y)])
                        /\ 2 * (w[Y] - 10 * t[Under(Y)]) <= Cardinality(Under(Y))
            Bad == {Y \in SUBSET Rated(listed) : ~Near(Y)}
<1>9. Bad = {}
  <2>. SUFFICES ASSUME Bad # {} PROVE FALSE
    OBVIOUS
  <2>1. PICK Y \in Bad : \A Z \in Bad : Z \subseteq Y => Z = Y
    <3>1. Bad \in SUBSET SUBSET Rated(listed)
      OBVIOUS
    <3>. HIDE DEF Bad
    <3>. QED
      BY <1>2, <3>1, Smallest
  <2>2. Y # {}
    <3>. SUFFICES ASSUME Y = {} PROVE FALSE
      OBVIOUS
    <3>1. Under(Y) = {} /\ t[{}] = 0 /\ Cardinality({}) = 0
      BY <1>3, <1>4, SumOfParts, FS_EmptySet
    <3>2. w[Y] = 0 /\ t[Under(Y)] = 0 /\ Cardinality(Under(Y)) = 0
      BY <1>8, <3>1
    <3>3. ~(/\ -Cardinality(Under(Y)) <= 2 * (w[Y] - 10 * t[Under(Y)])
            /\ 2 * (w[Y] - 10 * t[Under(Y)]) <= Cardinality(Under(Y)))
      BY <2>1
    <3>. HIDE DEF Under
    <3>. QED
      BY <3>2, <3>3
  <2>3. PICK x : x \in Y
    BY <2>2
  <2>. DEFINE Z == Y \ {x}
              A == Under(Z)
              B == Of(x)
              C == Under(Y)
  <2>4. Z \in SUBSET Rated(listed) /\ Z # Y /\ Z \subseteq Y /\ x \in Rated(listed) /\ Y \in SUBSET Rated(listed)
    BY <2>1, <2>3
  <2>5. Near(Z)
    BY <2>1, <2>4
  <2>6. A \in SUBSET Counted(listed) /\ B \in SUBSET Counted(listed) /\ A \cap B = {} /\ C = A \cup B
    BY <2>3, <2>4 DEF Of, Counted, Rated
  <2>7. t[C] = t[A] + t[B]
    <3>. HIDE DEF A, B, C
    <3>. QED
      BY <1>3, <1>4, <2>6, SumOfTwo
  <2>8. Cardinality(C) = Cardinality(A) + Cardinality(B)
    <3>. HIDE DEF A, B, C
    <3>1. IsFiniteSet(A) /\ IsFiniteSet(B) /\ Cardinality(A \cap B) = 0
      BY <1>5, <2>6, FS_EmptySet
    <3>2. Cardinality(A) \in Nat /\ Cardinality(B) \in Nat
      BY <1>5, <2>6
    <3>3. Cardinality(A \cup B) = Cardinality(A) + Cardinality(B) - Cardinality(A \cap B)
      BY <3>1, FS_Union
    <3>. QED
      BY <2>6, <3>1, <3>2, <3>3
  <2>9. w[Y] = Weighed[x] + w[Z] /\ w[Z] \in Int
    BY <1>8, <2>3, <2>4
  <2>10. /\ Weighed[x] \in Int
         /\ -Cardinality(B) <= 2 * (Weighed[x] - 10 * t[B])
         /\ 2 * (Weighed[x] - 10 * t[B]) <= Cardinality(B)
    BY <1>6, <2>4
  <2>11. /\ t[A] \in Int /\ t[B] \in Int
         /\ Cardinality(A) \in Nat /\ Cardinality(B) \in Nat
    BY <1>5, <2>6
  <2>12. /\ -Cardinality(A) <= 2 * (w[Z] - 10 * t[A])
         /\ 2 * (w[Z] - 10 * t[A]) <= Cardinality(A)
    BY <2>5
  <2>13. ~Near(Y)
    BY <2>1
  <2>14. ~(/\ -Cardinality(C) <= 2 * (w[Y] - 10 * t[C])
           /\ 2 * (w[Y] - 10 * t[C]) <= Cardinality(C))
    BY <2>13
  <2>. HIDE DEF A, B, C, Z
  <2>. QED
    BY <2>7, <2>8, <2>9, <2>10, <2>11, <2>12, <2>14
<1>10. Under(Rated(listed)) = Counted(listed)
  BY DEF Rated, Of, Counted
<1>11. -N <= 2 * (w[Rated(listed)] - 10 * T) /\ 2 * (w[Rated(listed)] - 10 * T) <= N
  <2>1. Near(Rated(listed))
    BY <1>9
  <2>. QED
    BY <1>3, <1>10, <2>1
<1>12. w[Rated(listed)] \in Int /\ T \in Int
  BY <1>3, <1>5, <1>8
<1>. DEFINE a == OwnerAverage(listed)
            s == w[Rated(listed)]
<1>13. a \in Int /\ -N <= 2 * (a * N - s) /\ 2 * (a * N - s) <= N
  BY <1>1, <1>7, <1>12, Rounding
<1>. HIDE DEF N, T, a, s
<1>14. -N <= a * N - 10 * T /\ a * N - 10 * T <= N
  BY <1>1, <1>11, <1>12, <1>13 DEF s
<1>. QED
  BY <1>14 DEF N, T, a

\* get_owner_public_page.py:55,62-63,78-88: an average of averages, each rounded to
\* a tenth, is within a tenth of the true average of the ratings of the resources the
\* page lists, for any number of resources and ratings and any list of them.
THEOREM OwnerAverageIsClose == Spec => []AverageIsClose
<1>1. ASSUME Inv PROVE AverageIsClose
  <2>1. Ratings \subseteq RatingIds /\ IsFiniteSet(Ratings)
    <3>1. Ratings \in SUBSET RatingIds
      BY DEF Ratings
    <3>. QED
      BY <3>1, KeyAssumption, FS_Subset
  <2>2. ASSUME NEW i \in Ratings PROVE rows[i].score \in Int /\ rows[i].resource \in Resources
    <3>1. i \in Ids /\ i \notin BookingIds /\ rows[i] # NoRow
      BY KeyAssumption DEF Ratings
    <3>2. rows[i] \in RatingRow
      <4>1. rows[i] \in RowsOf(i)
        BY <1>1, <3>1 DEF Inv, StoreGood, StoreTyped, Tabled
      <4>. QED
        BY <3>1, <4>1 DEF RowsOf
    <3>3. rows[i].score \in Scores /\ rows[i].resource \in Resources
      BY <3>2 DEF RatingRow
    <3>4. rows[i].score \in 1..5
      BY <3>3, KeyAssumption
    <3>5. rows[i].score \in Int
      BY <3>4
    <3>. QED
      BY <3>3, <3>5
  <2>. SUFFICES ASSUME NEW listed \in SUBSET Resources, Cardinality(Counted(listed)) > 0
                PROVE  LET count == Cardinality(Counted(listed))
                           error == OwnerAverage(listed) * count - 10 * Total(Counted(listed))
                       IN  -count <= error /\ error <= count
    BY DEF AverageIsClose
  <2>3. Counted(listed) \in SUBSET Ratings
    BY DEF Counted
  <2>4. IsFiniteSet(Counted(listed)) /\ Counted(listed) \subseteq RatingIds
    BY <2>1, <2>3, FS_Subset
  <2>5. Counted(listed) # {}
    <3>1. Cardinality({}) = 0
      BY FS_EmptySet
    <3>. QED
      BY <3>1
  <2>6. \A i \in Counted(listed) : rows[i].score \in Int /\ rows[i].resource \in listed
    BY <2>2, <2>3 DEF Counted
  <2>. QED
    BY <2>4, <2>5, <2>6, AveragesAreClose
<1>. QED
  BY <1>1, RatingInvariant, PTL
=============================================================================
