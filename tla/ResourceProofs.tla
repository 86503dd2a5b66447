--------------------------- MODULE ResourceProofs ---------------------------
(***************************************************************************)
(* Resources and their types, for every number of requests, resources and  *)
(* inputs: the parts of an aggregate fit together, keys stay unique, no    *)
(* resource is without its type, and its attributes fit a schema that the  *)
(* type has had.                                                           *)
(***************************************************************************)
EXTENDS Resources, RowStoreProofs

(***************************************************************************)
(* What the checks of the factories are worth.                             *)
(***************************************************************************)
LEMMA OpenWhenPriced ==
  ASSUME NEW e \in ResourceRow, PartsAccepted(e), NEW n \in DOMAIN e.rules,
         NEW d \in Weekdays, NEW t \in TimesOfDay, Matches(e.rules[n], d, t)
  PROVE  Open(e.hours, d, t)
<1>1. e.hours \in Hours /\ e.rules \in Rules /\ t \in Nat
  BY DEF ResourceRow, TimesOfDay
<1>2. PICK k \in DOMAIN e.hours[d] : Within(e.rules[n].window, e.hours[d][k])
  BY DEF PartsAccepted, RulesAccepted, InOpeningHours, Matches
<1>3. e.hours[d][k] \in [start : Nat, end : Nat] /\ e.rules[n].window \in [start : Nat, end : Nat]
  BY <1>1, <1>2, InputAssumption
<1>4. /\ e.rules[n].window.start <= t /\ t < e.rules[n].window.end
      /\ e.hours[d][k].start <= e.rules[n].window.start
      /\ e.rules[n].window.end <= e.hours[d][k].end
  BY <1>2 DEF Matches, Within
<1>5. e.hours[d][k].start <= t /\ t < e.hours[d][k].end
  BY <1>1, <1>3, <1>4
<1>. QED
  BY <1>2, <1>5 DEF Open

LEMMA OnePrice ==
  ASSUME NEW e \in ResourceRow, PartsAccepted(e), NEW n \in DOMAIN e.rules, NEW m \in DOMAIN e.rules,
         NEW d \in Weekdays, NEW t \in TimesOfDay,
         Matches(e.rules[n], d, t), Matches(e.rules[m], d, t)
  PROVE  m = n
<1>1. /\ e.rules \in Rules /\ t \in Nat /\ DOMAIN e.rules = 1..Len(e.rules) /\ Len(e.rules) \in Nat
      /\ e.rules[n].window \in [start : Nat, end : Nat]
      /\ e.rules[m].window \in [start : Nat, end : Nat]
  BY InputAssumption DEF ResourceRow, TimesOfDay
<1>2. /\ d \in e.rules[n].days /\ d \in e.rules[m].days
      /\ e.rules[n].window.start <= t /\ t < e.rules[n].window.end
      /\ e.rules[m].window.start <= t /\ t < e.rules[m].window.end
  BY DEF Matches
<1>3. RulesClash(e.rules[n], e.rules[m]) /\ RulesClash(e.rules[m], e.rules[n])
  BY <1>1, <1>2 DEF RulesClash, Overlaps
<1>4. /\ \A j \in 1..(n - 1) : ~RulesClash(e.rules[n], e.rules[j])
      /\ \A j \in 1..(m - 1) : ~RulesClash(e.rules[m], e.rules[j])
  BY DEF PartsAccepted, RulesAccepted
<1>5. m \notin 1..(n - 1) /\ n \notin 1..(m - 1)
  BY <1>3, <1>4
<1>. QED
  BY <1>1, <1>5

\* resource.py:30-36: the invariants of the aggregate follow from what its methods
\* check, for any windows, rules and attributes.
LEMMA SoundParts ==
  ASSUME NEW e \in ResourceRow, PartsAccepted(e)
  PROVE  PartsSound(e)
<1>1. \A d \in Weekdays : \A n \in DOMAIN e.hours[d] : OnGrid(e.slot, e.hours[d][n])
  BY DEF PartsAccepted, ScheduleAccepted
<1>2. \A n \in DOMAIN e.rules : OnGrid(e.slot, e.rules[n].window)
  BY DEF PartsAccepted, RulesAccepted
<1>3. \A n \in DOMAIN e.rules : \A d \in Weekdays, t \in TimesOfDay : Matches(e.rules[n], d, t) =>
        /\ Open(e.hours, d, t)
        /\ \A m \in DOMAIN e.rules : Matches(e.rules[m], d, t) => m = n
  BY OpenWhenPriced, OnePrice
<1>4. ASSUME NEW n \in DOMAIN e.customs, NEW m \in DOMAIN e.customs, e.customs[m] = e.customs[n]
      PROVE  m = n
  <2>1. DOMAIN e.customs = 1..Len(e.customs) /\ Len(e.customs) \in Nat
    BY InputAssumption DEF ResourceRow
  <2>2. m \notin 1..(n - 1) /\ n \notin 1..(m - 1)
    BY <1>4 DEF PartsAccepted, AttributesDisjoint
  <2>. QED
    BY <2>1, <2>2
<1>5. \A n \in DOMAIN e.customs : e.customs[n] \notin DOMAIN e.base
  BY DEF PartsAccepted, AttributesDisjoint
<1>. QED
  BY <1>1, <1>2, <1>3, <1>4, <1>5 DEF PartsSound

(***************************************************************************)
(* The tables and the inductive invariant.                                 *)
(***************************************************************************)
Tabled == [i \in Ids |-> RowsOf(i)]

\* No command changes the owner, the type or the slug of a resource, or the slug
\* of a type.
Columns ==
  [i \in Ids |-> IF i \in TypeIds THEN {"table", "slug"} ELSE {"table", "slug", "owner", "type"}]

Clashes == {p \in (ResourceRow \cup TypeRow) \X (ResourceRow \cup TypeRow) : SameKey(p[1], p[2])}

Accepted == [i \in Ids |-> IF i \in TypeIds THEN TypeRow ELSE {e \in ResourceRow : PartsAccepted(e)}]

\* A version of a resource, committed or not, has its type, and nobody has
\* deleted that in a transaction that is still open.
Typed ==
  /\ \A r \in ResourceIds : \A e \in Real(r) :
       rows[e.type] # NoRow /\ \A v \in Sessions : draft[v][e.type] # Gone
  /\ \A s \in Sessions, r \in ResourceIds : draft[s][r] # Gone

\* Whatever version of a resource there is, in a row or in memory, has the base
\* attributes that somebody held against the schema of its type.
FitsOne(e) == \E schema \in versions[e.type] : Conforms(schema, e.base)
Fitted == \A r \in ResourceIds : \A e \in Versions(r) : FitsOne(e)

Recorded ==
  /\ versions \in [TypeIds -> SUBSET Schemas]
  /\ \A t \in TypeIds : rows[t] # NoRow => rows[t].schema \in versions[t]

Inv ==
  /\ StoreGood(Tabled, Columns) /\ Unique(Clashes) /\ Whole(Accepted)
  /\ pc \in [Sessions -> {"idle", "insert", "base", "remove", "save"}]
  /\ Typed /\ Fitted /\ Recorded

LEMMA WrittenResource ==
  ASSUME NEW e \in ResourceRow, NEW old \in ResourceRow, NEW cur \in ResourceRow
  PROVE  /\ Written(e, old, cur) \in ResourceRow
         /\ Written(e, old, cur).base \in {e.base, cur.base}
BY DEF ResourceRow, Written

LEMMA ResourceTables ==
  /\ Tables(Tabled, Columns) /\ Keyed(Tabled, Columns, Clashes)
  /\ \A r \in ResourceIds : r \in Ids /\ r \notin TypeIds /\ RowsOf(r) = ResourceRow
                            /\ Tabled[r] = ResourceRow
  /\ \A t \in TypeIds : t \in Ids /\ RowsOf(t) = TypeRow /\ Tabled[t] = TypeRow
<1>1. \A e, old, cur \in TypeRow : Written(e, old, cur) \in TypeRow
  BY DEF TypeRow, Written
<1>2. \A i \in Ids : \A e, old, cur \in RowsOf(i) : Written(e, old, cur) \in RowsOf(i)
  BY <1>1, WrittenResource DEF RowsOf
<1>3. \A i \in Ids : \A e \in RowsOf(i) : Columns[i] \subseteq DOMAIN e
  BY DEF RowsOf, TypeRow, ResourceRow, Columns
<1>4. Tables(Tabled, Columns)
  BY <1>2, <1>3, IdAssumption DEF Tables, Tabled
<1>5. ASSUME NEW i \in Ids, NEW j \in Ids, NEW e \in RowsOf(i), NEW g \in RowsOf(i),
             NEW f \in RowsOf(j), \A c \in Columns[i] : e[c] = g[c]
      PROVE  <<e, f>> \in Clashes <=> <<g, f>> \in Clashes
  <2>1. e.table = g.table /\ e.slug = g.slug
    BY <1>5 DEF Columns
  <2>2. i \notin TypeIds => e.owner = g.owner
    BY <1>5 DEF Columns
  <2>3. i \in TypeIds => e.table = "type" /\ g.table = "type"
    BY <1>5 DEF RowsOf, TypeRow
  <2>4. SameKey(e, f) <=> SameKey(g, f)
    BY <2>1, <2>2, <2>3 DEF SameKey
  <2>5. {e, g, f} \subseteq ResourceRow \cup TypeRow
    BY DEF RowsOf
  <2>. QED
    BY <2>4, <2>5 DEF Clashes
<1>6. \A i, j \in Ids : \A e \in RowsOf(i) : \A f \in RowsOf(j) :
        <<e, f>> \in Clashes => <<f, e>> \in Clashes
  BY DEF Clashes, SameKey
<1>7. Keyed(Tabled, Columns, Clashes)
  BY <1>5, <1>6 DEF Keyed, Tabled
<1>8. /\ \A r \in ResourceIds : r \in Ids /\ r \notin TypeIds /\ RowsOf(r) = ResourceRow
                                /\ Tabled[r] = ResourceRow
      /\ \A t \in TypeIds : t \in Ids /\ RowsOf(t) = TypeRow /\ Tabled[t] = TypeRow
  BY IdAssumption DEF RowsOf, Tabled
<1>. QED
  BY <1>4, <1>7, <1>8

LEMMA ResourceInit == Init => Inv
<1>. SUFFICES ASSUME Init PROVE Inv
  OBVIOUS
<1>1. Nothing \in [Ids -> AnyVersion(Tabled)] /\ \A i \in Ids : Nothing[i] = NoRow
  BY NothingTyped
<1>2. \A i \in Ids : rows[i] \in RowsOf(i) \cup {NoRow}
  BY SeedAssumption, IdAssumption DEF Init, RowsOf
<1>3. rows \in [Ids -> AnyVersion(Tabled)]
  <2>1. ASSUME NEW i \in Ids PROVE rows[i] \in AnyVersion(Tabled)
    <3>1. rows[i] \in Tabled[i] \cup {NoRow, Gone}
      BY <1>2 DEF Tabled
    <3>. QED
      BY <3>1, AnyRow
  <2>. QED
    BY <2>1, SeedAssumption DEF Init
<1>4. StoreTyped(Tabled)
  BY <1>1, <1>2, <1>3 DEF Init, StoreInit, StoreTyped, Tabled
<1>5. StoreInv
  BY <1>1 DEF Init, StoreInit, StoreInv
<1>6. \A i \in Ids : /\ Versions(i) \subseteq {rows[i]} \ {NoRow}
                     /\ Real(i) \subseteq {rows[i]} \ {NoRow}
  BY <1>1 DEF Init, StoreInit, Versions, Real
<1>7. Fixed(Columns)
  BY <1>6 DEF Fixed
<1>8. Unique(Clashes)
  <2>1. ASSUME NEW i \in Ids, NEW j \in Ids, i # j, NEW e \in Real(i), NEW f \in Real(j)
        PROVE  <<e, f>> \notin Clashes
    BY <1>6, <2>1, SeedAssumption DEF Clashes, Init
  <2>. QED
    BY <1>1, <2>1 DEF Unique, Init, StoreInit
<1>9. Whole(Accepted)
  <2>1. \A i \in Ids : rows[i] # NoRow => rows[i] \in Accepted[i]
    BY <1>2, SeedAssumption, IdAssumption DEF Accepted, RowsOf, Init
  <2>. QED
    BY <1>1, <2>1 DEF Whole, Init, StoreInit
<1>10. versions = [t \in TypeIds |-> IF rows[t] = NoRow THEN {} ELSE {rows[t].schema}]
  BY DEF Init
<1>11. Recorded
  <2>1. ASSUME NEW t \in TypeIds, rows[t] # NoRow PROVE rows[t].schema \in Schemas
    <3>1. rows[t] \in TypeRow
      BY <1>2, <2>1, ResourceTables
    <3>. QED
      BY <3>1 DEF TypeRow
  <2>. QED
    BY <1>10, <2>1 DEF Recorded
<1>12. \A r \in ResourceIds : rows[r] # NoRow =>
         rows[r].type \in TypeIds /\ rows[rows[r].type] # NoRow
         /\ Conforms(rows[rows[r].type].schema, rows[r].base)
  BY SeedAssumption DEF Init, ResourceRow
<1>13. Fitted
  BY <1>6, <1>10, <1>12, ResourceTables DEF Fitted, FitsOne
<1>14. Typed
  BY <1>1, <1>6, <1>12, ResourceTables, IdAssumption DEF Typed, Init, StoreInit
<1>. QED
  BY <1>4, <1>5, <1>7, <1>8, <1>9, <1>11, <1>13, <1>14 DEF Inv, StoreGood, Init, StoreInit

(***************************************************************************)
(* What a handler stages: one new row, or one it has loaded and changed.   *)
(***************************************************************************)
Brings(s, i, entity, next) ==
  /\ Stage(s, Only(i, entity), next) /\ next \in {"insert", "base", "remove", "save"}
  /\ pc[s] \in {"idle", "base"} \/ Saved(s)
  /\ next \in {"insert", "remove"} => pc[s] = "idle"
  /\ i \in Ids /\ entity \in RowsOf(i)
  /\ i \notin torn /\ i \notin mixed[s] => entity \in Accepted[i]
  /\ IF next = "insert" THEN Fresh(i)
     ELSE \E w \in Versions(i) :
            /\ \A c \in Columns[i] : entity[c] = w[c]
            /\ rows[i] # NoRow \/ draft[s][i] # NoRow \/ staged[s][i] # NoRow
  /\ i \in ResourceIds => FitsOne(entity)
  /\ UNCHANGED versions

LEMMA BringsKeeps ==
  ASSUME Inv, NEW s \in Sessions, NEW i, NEW entity, NEW next, Brings(s, i, entity, next)
  PROVE  Inv'
<1>0. /\ StoreGood(Tabled, Columns) /\ StoreTyped(Tabled) /\ StoreInv /\ Fixed(Columns)
      /\ Unique(Clashes) /\ Whole(Accepted) /\ Tables(Tabled, Columns)
      /\ i \in Ids /\ entity \in RowsOf(i) /\ entity # NoRow /\ entity # Gone
      /\ Stage(s, Only(i, entity), next)
  BY ResourceTables, IdAssumption DEF Inv, StoreGood, Brings
<1>1. PICK entities : entities = Only(i, entity)
  OBVIOUS
<1>2. /\ entities \in [Ids -> AnyVersion(Tabled)]
      /\ \A j \in Ids : entities[j] = IF j = i THEN entity ELSE NoRow
  <2>1. entity \in AnyVersion(Tabled)
    <3>1. entity \in Tabled[i]
      BY <1>0 DEF Tabled
    <3>. QED
      BY <1>0, <3>1, AnyRow
  <2>2. Nothing \in [Ids -> AnyVersion(Tabled)] /\ \A j \in Ids : Nothing[j] = NoRow
    BY NothingTyped
  <2>. QED
    BY <1>0, <1>1, <2>1, <2>2 DEF Only
<1>3. Stage(s, entities, next)
  BY <1>0, <1>1
<1>4. \A w \in Versions(i) : \A c \in Columns[i] : entity[c] = w[c]
  <2>1. CASE next = "insert"
    <3>1. Versions(i) = {}
      <4>1. /\ rows[i] = NoRow /\ \A u \in Sessions : staged[u][i] = NoRow /\ draft[u][i] = NoRow
        BY <2>1 DEF Brings, Fresh
      <4>2. \A u \in Sessions : seen[u][i] = NoRow
        BY <1>0, <4>1 DEF StoreInv
      <4>. QED
        BY <4>1, <4>2 DEF Versions
    <3>. QED
      BY <3>1
  <2>2. CASE next # "insert"
    <3>1. PICK w \in Versions(i) : \A c \in Columns[i] : entity[c] = w[c]
      BY <2>2 DEF Brings
    <3>2. \A v \in Versions(i) : \A c \in Columns[i] : w[c] = v[c]
      BY <1>0 DEF Fixed
    <3>. QED
      BY <3>1, <3>2
  <2>. QED
    BY <2>1, <2>2
<1>5. Stageable(Tabled, Columns, s, entities, next)
  <2>1. /\ pc[s] # "save" \/ staged[s] = Nothing
        /\ next # "idle" /\ pc[s] # "insert"
    BY DEF Brings, Saved
  <2>2. next \notin Writing => \A j \in Ids : draft[s][j] = NoRow
    BY <1>0 DEF Brings, StoreInv, Writing
  <2>3. entity \in Tabled[i]
    BY <1>0 DEF Tabled
  <2>4. IF next = "insert" THEN Fresh(i)
        ELSE rows[i] # NoRow \/ draft[s][i] # NoRow \/ staged[s][i] # NoRow
    BY DEF Brings
  <2>. QED
    BY <1>0, <1>2, <1>4, <2>1, <2>2, <2>3, <2>4 DEF Stageable
<1>6. StoreGood(Tabled, Columns)'
  BY <1>0, <1>3, <1>5, StageGood
<1>7. Unique(Clashes)'
  BY <1>0, <1>2, <1>3, StageUnique
<1>8. Whole(Accepted)'
  <2>1. \A j \in Ids : entities[j] # NoRow /\ j \notin torn /\ j \notin mixed[s] =>
          entities[j] \in Accepted[j]
    BY <1>2 DEF Brings
  <2>. QED
    BY <1>0, <1>3, <2>1, StageWhole
<1>9. /\ rows' = rows /\ draft' = draft /\ seen' = seen /\ versions' = versions
      /\ \A u \in Sessions : staged'[u] = IF u = s THEN entities ELSE staged[u]
      /\ pc' = [pc EXCEPT ![s] = next]
  BY <1>0, <1>3 DEF Stage, StoreTyped, Brings
<1>10. Typed'
  BY <1>9 DEF Inv, Typed, Real
<1>11. Fitted'
  <2>1. ASSUME NEW r \in ResourceIds, NEW e \in Versions(r)' PROVE FitsOne(e)'
    <3>1. e \in Versions(r) \/ (r = i /\ e = entity)
      BY <1>2, <1>9, <2>1, ResourceTables DEF Versions
    <3>2. FitsOne(e)
      BY <2>1, <3>1 DEF Inv, Fitted, Brings
    <3>. QED
      BY <1>9, <3>2 DEF FitsOne
  <2>. QED
    BY <2>1 DEF Fitted
<1>12. Recorded'
  BY <1>9 DEF Inv, Recorded
<1>13. pc' \in [Sessions -> {"idle", "insert", "base", "remove", "save"}]
  BY <1>9 DEF Inv, Brings
<1>. QED
  BY <1>6, <1>7, <1>8, <1>10, <1>11, <1>12, <1>13 DEF Inv

\* A command loads the resource and changes one part of it but its base attributes.
LEMMA EditKeeps ==
  ASSUME Inv, NEW s \in Sessions, NEW r \in ResourceIds, View(s, r) # NoRow,
         pc[s] = "idle" \/ Saved(s),
         NEW entity \in ResourceRow, NEW next \in {"base", "save"}, Stage(s, Only(r, entity), next),
         entity.table = View(s, r).table, entity.slug = View(s, r).slug,
         entity.owner = View(s, r).owner, entity.type = View(s, r).type,
         entity.base = View(s, r).base,
         PartsAccepted(View(s, r)) => PartsAccepted(entity), UNCHANGED versions
  PROVE  Inv'
<1>0. /\ StoreTyped(Tabled) /\ Tables(Tabled, Columns) /\ r \in Ids /\ r \notin TypeIds
      /\ RowsOf(r) = ResourceRow
  BY ResourceTables DEF Inv, StoreGood
<1>1. View(s, r) \in Versions(r)
  BY <1>0, ViewTyped
<1>2. \A c \in Columns[r] : entity[c] = View(s, r)[c]
  BY <1>0 DEF Columns
<1>3. rows[r] # NoRow \/ draft[s][r] # NoRow
  BY DEF View
<1>4. FitsOne(entity)
  BY <1>1 DEF Inv, Fitted, FitsOne
<1>5. r \notin torn /\ r \notin mixed[s] => entity \in Accepted[r]
  <2>1. ASSUME r \notin torn, r \notin mixed[s] PROVE entity \in Accepted[r]
    <3>1. View(s, r) \in {rows[r], draft[s][r]} /\ View(s, r) # Gone
      BY <1>0, IdAssumption DEF View, StoreTyped, Tabled
    <3>2. View(s, r) \in Accepted[r]
      BY <1>0, <2>1, <3>1 DEF Inv, Whole
    <3>. QED
      BY <1>0, <3>2 DEF Accepted
  <2>. QED
    BY <2>1
<1>6. Brings(s, r, entity, next)
  BY <1>0, <1>1, <1>2, <1>3, <1>4, <1>5 DEF Brings
<1>. QED
  BY <1>6, BringsKeeps

\* The methods of the aggregate and the commands that call them.
LEMMA EditResourceKeeps ==
  ASSUME Inv, NEW s \in Sessions, NEW r \in ResourceIds, EditResource(s, r)
  PROVE  Inv'
<1>0. /\ StoreTyped(Tabled) /\ Tables(Tabled, Columns) /\ r \in Ids
      /\ RowsOf(r) = ResourceRow /\ Tabled[r] = ResourceRow
  BY ResourceTables DEF Inv, StoreGood
<1>1. CASE ReplaceBaseAttributes(s, r)
  <2>1. PICK base \in Bases :
          /\ Conforms(rows[staged[s][r].type].schema, base)
          /\ AttributesDisjoint(base, staged[s][r].customs)
          /\ Stage(s, Only(r, [staged[s][r] EXCEPT !.base = base]), "save")
    BY <1>1 DEF ReplaceBaseAttributes
  <2>2. /\ pc[s] = "base" /\ staged[s][r] # NoRow /\ rows[staged[s][r].type] # NoRow
        /\ versions' = versions
    BY <1>1 DEF ReplaceBaseAttributes
  <2>3. staged[s][r] \in ResourceRow
    BY <1>0, <2>2 DEF StoreTyped
  <2>4. PICK entity : entity = [staged[s][r] EXCEPT !.base = base]
    OBVIOUS
  <2>5. /\ entity \in ResourceRow /\ entity.base = base
        /\ entity.table = staged[s][r].table /\ entity.slug = staged[s][r].slug
        /\ entity.owner = staged[s][r].owner /\ entity.type = staged[s][r].type
        /\ entity.slot = staged[s][r].slot /\ entity.hours = staged[s][r].hours
        /\ entity.rules = staged[s][r].rules /\ entity.customs = staged[s][r].customs
    BY <2>3, <2>4 DEF ResourceRow
  <2>6. staged[s][r] \in Versions(r) /\ \A c \in Columns[r] : entity[c] = staged[s][r][c]
    <3>1. staged[s][r] # Gone
      BY <1>0, <2>2, <2>3, IdAssumption
    <3>2. r \notin TypeIds
      BY ResourceTables
    <3>. QED
      BY <1>0, <2>2, <2>5, <3>1, <3>2 DEF Versions, Columns
  <2>7. FitsOne(entity)
    <3>1. entity.type \in TypeIds
      BY <2>5 DEF ResourceRow
    <3>. QED
      BY <2>1, <2>2, <2>5, <3>1 DEF FitsOne, Inv, Recorded
  <2>8. r \notin torn /\ r \notin mixed[s] => entity \in Accepted[r]
    <3>1. ASSUME r \notin torn, r \notin mixed[s] PROVE entity \in Accepted[r]
      <4>1. staged[s][r] \in Accepted[r] /\ r \notin TypeIds
        BY <1>0, <2>2, <3>1, ResourceTables DEF Inv, Whole
      <4>2. PartsAccepted(staged[s][r])
        BY <1>0, <4>1 DEF Accepted
      <4>3. PartsAccepted(entity)
        BY <2>1, <2>5, <4>2 DEF PartsAccepted
      <4>. QED
        BY <1>0, <2>5, <4>1, <4>3 DEF Accepted
    <3>. QED
      BY <3>1
  <2>9. Brings(s, r, entity, "save")
    BY <1>0, <2>1, <2>2, <2>4, <2>5, <2>6, <2>7, <2>8 DEF Brings
  <2>. QED
    BY <2>9, BringsKeeps
<1>2. CASE ~ReplaceBaseAttributes(s, r)
  <2>1. /\ View(s, r) # NoRow /\ (pc[s] = "idle" \/ Saved(s)) /\ UNCHANGED versions
    BY <1>2 DEF EditResource, UpdateMetadata, SetBasePrice, SetCancellationCutoff,
       LoadForBaseAttributes, ReplaceCustomAttributes, ReplaceOperatingHours, ReplacePricingRules,
       SetSlotDuration, Publish, SoftDelete, Patch, Edit, Loaded, TakeUp
  <2>2. PICK v : v = View(s, r)
    OBVIOUS
  <2>3. v \in ResourceRow
    BY <1>0, <2>1, <2>2, ViewTyped
  <2>4. ASSUME NEW entity \in ResourceRow, NEW next \in {"base", "save"},
               Stage(s, Only(r, entity), next),
               entity.table = v.table, entity.slug = v.slug, entity.owner = v.owner,
               entity.type = v.type, entity.base = v.base,
               PartsAccepted(v) => PartsAccepted(entity)
        PROVE  Inv'
    BY <2>1, <2>2, <2>4, EditKeeps
  <2>5. CASE UpdateMetadata(s, r)
    <3>1. PICK m \in Labels : Stage(s, Only(r, [v EXCEPT !.meta = m]), "save")
      BY <2>2, <2>5 DEF UpdateMetadata, MetadataUpdated
    <3>2. PICK entity : entity = [v EXCEPT !.meta = m]
      OBVIOUS
    <3>3. PartsAccepted(v) => PartsAccepted(entity)
      BY <2>3, <3>2 DEF ResourceRow, PartsAccepted
    <3>4. /\ entity \in ResourceRow /\ entity.table = v.table /\ entity.slug = v.slug
          /\ entity.owner = v.owner /\ entity.type = v.type /\ entity.base = v.base
      BY <2>3, <3>2 DEF ResourceRow
    <3>. QED
      BY <2>4, <3>1, <3>2, <3>3, <3>4
  <2>6. CASE SetBasePrice(s, r)
    <3>1. PICK p \in Prices : Stage(s, Only(r, [v EXCEPT !.price = p]), "save")
      BY <2>2, <2>6 DEF SetBasePrice
    <3>2. PICK entity : entity = [v EXCEPT !.price = p]
      OBVIOUS
    <3>3. PartsAccepted(v) => PartsAccepted(entity)
      BY <2>3, <3>2 DEF ResourceRow, PartsAccepted
    <3>4. /\ entity \in ResourceRow /\ entity.table = v.table /\ entity.slug = v.slug
          /\ entity.owner = v.owner /\ entity.type = v.type /\ entity.base = v.base
      BY <2>3, <3>2 DEF ResourceRow
    <3>. QED
      BY <2>4, <3>1, <3>2, <3>3, <3>4
  <2>7. CASE SetCancellationCutoff(s, r)
    <3>1. PICK x \in Cutoffs : Stage(s, Only(r, [v EXCEPT !.cutoff = x]), "save")
      BY <2>2, <2>7 DEF SetCancellationCutoff
    <3>2. PICK entity : entity = [v EXCEPT !.cutoff = x]
      OBVIOUS
    <3>3. PartsAccepted(v) => PartsAccepted(entity)
      BY <2>3, <3>2 DEF ResourceRow, PartsAccepted
    <3>4. /\ entity \in ResourceRow /\ entity.table = v.table /\ entity.slug = v.slug
          /\ entity.owner = v.owner /\ entity.type = v.type /\ entity.base = v.base
      BY <2>3, <3>2 DEF ResourceRow
    <3>. QED
      BY <2>4, <3>1, <3>2, <3>3, <3>4
  <2>8. CASE LoadForBaseAttributes(s, r)
    <3>1. Stage(s, Only(r, v), "base")
      BY <2>2, <2>8 DEF LoadForBaseAttributes
    <3>. QED
      BY <2>3, <2>4, <3>1
  <2>9. CASE ReplaceCustomAttributes(s, r)
    <3>1. PICK x \in Customs : /\ AttributesDisjoint(v.base, x)
                               /\ Stage(s, Only(r, [v EXCEPT !.customs = x]), "save")
      BY <2>2, <2>9 DEF ReplaceCustomAttributes
    <3>2. PICK entity : entity = [v EXCEPT !.customs = x]
      OBVIOUS
    <3>3. PartsAccepted(v) => PartsAccepted(entity)
      BY <2>3, <3>1, <3>2 DEF ResourceRow, PartsAccepted
    <3>4. /\ entity \in ResourceRow /\ entity.table = v.table /\ entity.slug = v.slug
          /\ entity.owner = v.owner /\ entity.type = v.type /\ entity.base = v.base
      BY <2>3, <3>2 DEF ResourceRow
    <3>. QED
      BY <2>4, <3>1, <3>2, <3>3, <3>4
  <2>10. CASE ReplaceOperatingHours(s, r)
    <3>1. PICK x \in Hours : /\ ScheduleAccepted(v.slot, x) /\ RulesAccepted(v.slot, x, v.rules)
                             /\ Stage(s, Only(r, [v EXCEPT !.hours = x]), "save")
      BY <2>2, <2>10 DEF ReplaceOperatingHours
    <3>2. PICK entity : entity = [v EXCEPT !.hours = x]
      OBVIOUS
    <3>3. PartsAccepted(v) => PartsAccepted(entity)
      BY <2>3, <3>1, <3>2 DEF ResourceRow, PartsAccepted
    <3>4. /\ entity \in ResourceRow /\ entity.table = v.table /\ entity.slug = v.slug
          /\ entity.owner = v.owner /\ entity.type = v.type /\ entity.base = v.base
      BY <2>3, <3>2 DEF ResourceRow
    <3>. QED
      BY <2>4, <3>1, <3>2, <3>3, <3>4
  <2>11. CASE ReplacePricingRules(s, r)
    <3>1. PICK x \in Rules : /\ RulesAccepted(v.slot, v.hours, x)
                             /\ Stage(s, Only(r, [v EXCEPT !.rules = x]), "save")
      BY <2>2, <2>11 DEF ReplacePricingRules
    <3>2. PICK entity : entity = [v EXCEPT !.rules = x]
      OBVIOUS
    <3>3. PartsAccepted(v) => PartsAccepted(entity)
      BY <2>3, <3>1, <3>2 DEF ResourceRow, PartsAccepted
    <3>4. /\ entity \in ResourceRow /\ entity.table = v.table /\ entity.slug = v.slug
          /\ entity.owner = v.owner /\ entity.type = v.type /\ entity.base = v.base
      BY <2>3, <3>2 DEF ResourceRow
    <3>. QED
      BY <2>4, <3>1, <3>2, <3>3, <3>4
  <2>12. CASE SetSlotDuration(s, r)
    <3>1. PICK x \in SlotDurations : /\ ScheduleAccepted(x, v.hours) /\ RulesAccepted(x, v.hours, v.rules)
                                     /\ Stage(s, Only(r, [v EXCEPT !.slot = x]), "save")
      BY <2>2, <2>12 DEF SetSlotDuration, SlotDurationAccepted
    <3>2. PICK entity : entity = [v EXCEPT !.slot = x]
      OBVIOUS
    <3>3. PartsAccepted(v) => PartsAccepted(entity)
      BY <2>3, <3>1, <3>2 DEF ResourceRow, PartsAccepted
    <3>4. /\ entity \in ResourceRow /\ entity.table = v.table /\ entity.slug = v.slug
          /\ entity.owner = v.owner /\ entity.type = v.type /\ entity.base = v.base
      BY <2>3, <3>2 DEF ResourceRow
    <3>. QED
      BY <2>4, <3>1, <3>2, <3>3, <3>4
  <2>13. CASE Publish(s, r)
    <3>1. PICK on \in BOOLEAN : Stage(s, Only(r, [v EXCEPT !.published = on]), "save")
      BY <2>2, <2>13 DEF Publish
    <3>2. PICK entity : entity = [v EXCEPT !.published = on]
      OBVIOUS
    <3>3. PartsAccepted(v) => PartsAccepted(entity)
      BY <2>3, <3>2 DEF ResourceRow, PartsAccepted
    <3>4. /\ entity \in ResourceRow /\ entity.table = v.table /\ entity.slug = v.slug
          /\ entity.owner = v.owner /\ entity.type = v.type /\ entity.base = v.base
      BY <2>3, <3>2 DEF ResourceRow
    <3>. QED
      BY <2>4, <3>1, <3>2, <3>3, <3>4
  <2>14. CASE SoftDelete(s, r)
    <3>1. Stage(s, Only(r, [v EXCEPT !.deleted = TRUE]), "save")
      BY <2>2, <2>14 DEF SoftDelete
    <3>2. PICK entity : entity = [v EXCEPT !.deleted = TRUE]
      OBVIOUS
    <3>3. PartsAccepted(v) => PartsAccepted(entity)
      BY <2>3, <3>2 DEF ResourceRow, PartsAccepted
    <3>4. /\ entity \in ResourceRow /\ entity.table = v.table /\ entity.slug = v.slug
          /\ entity.owner = v.owner /\ entity.type = v.type /\ entity.base = v.base
      BY <2>3, <3>2 DEF ResourceRow
    <3>. QED
      BY <2>4, <3>1, <3>2, <3>3, <3>4
  <2>. QED
    BY <1>2, <2>5, <2>6, <2>7, <2>8, <2>9, <2>10, <2>11, <2>12, <2>13, <2>14 DEF EditResource
<1>. QED
  BY <1>1, <1>2

LEMMA CreateKeeps ==
  ASSUME Inv, NEW s \in Sessions, NEW r \in ResourceIds, CreateResource(s, r)
  PROVE  Inv'
<1>0. r \in Ids /\ r \notin TypeIds /\ RowsOf(r) = ResourceRow
  BY ResourceTables
<1>1. PICK t \in TypeIds, slot \in Slots \cap SlotDurations :
        /\ rows[t] # NoRow
        /\ \E e \in [table : {"resource"}, owner : Owners, type : {t}, slug : Slugs,
                     meta : Labels, slot : {slot}, hours : Hours, rules : Rules,
                     base : Bases, customs : Customs, price : Prices,
                     cutoff : Cutoffs, published : {FALSE}, deleted : {FALSE}] :
             PartsAccepted(e) /\ Conforms(rows[t].schema, e.base) /\ Stage(s, Only(r, e), "insert")
  BY DEF CreateResource
<1>2. PICK e \in [table : {"resource"}, owner : Owners, type : {t}, slug : Slugs,
                  meta : Labels, slot : {slot}, hours : Hours, rules : Rules,
                  base : Bases, customs : Customs, price : Prices,
                  cutoff : Cutoffs, published : {FALSE}, deleted : {FALSE}] :
        PartsAccepted(e) /\ Conforms(rows[t].schema, e.base) /\ Stage(s, Only(r, e), "insert")
  BY <1>1
<1>3. e \in ResourceRow /\ e.type = t
  BY DEF ResourceRow
<1>4. FitsOne(e)
  BY <1>1, <1>2, <1>3 DEF FitsOne, Inv, Recorded
<1>5. e \in Accepted[r]
  BY <1>0, <1>2, <1>3 DEF Accepted
<1>6. Fresh(r) /\ pc[s] = "idle" /\ UNCHANGED versions
  BY DEF CreateResource, TakeUp
<1>7. Brings(s, r, e, "insert")
  BY <1>0, <1>2, <1>3, <1>4, <1>5, <1>6 DEF Brings
<1>. QED
  BY <1>7, BringsKeeps

LEMMA CatalogKeeps ==
  ASSUME Inv, NEW s \in Sessions, NEW t \in TypeIds,
         CreateType(s, t) \/ UpdateType(s, t) \/ DeleteType(s, t)
  PROVE  Inv'
<1>0. /\ StoreTyped(Tabled) /\ t \in Ids /\ t \notin ResourceIds /\ RowsOf(t) = TypeRow
      /\ Accepted[t] = TypeRow
  BY ResourceTables, IdAssumption DEF Inv, StoreGood, Accepted
<1>1. pc[s] = "idle" /\ UNCHANGED versions
  BY DEF CreateType, UpdateType, DeleteType, TakeUp
<1>2. CASE CreateType(s, t)
  <2>1. PICK g \in Slugs, m \in Labels, on \in BOOLEAN, schema \in Schemas :
          Stage(s, Only(t, NewType(g, m, on, schema)), "insert")
    BY <1>2 DEF CreateType
  <2>2. NewType(g, m, on, schema) \in TypeRow
    BY DEF NewType, TypeRow
  <2>3. Brings(s, t, NewType(g, m, on, schema), "insert")
    BY <1>0, <1>1, <1>2, <2>1, <2>2 DEF Brings, CreateType
  <2>. QED
    BY <2>3, BringsKeeps
<1>3. CASE UpdateType(s, t) \/ DeleteType(s, t)
  <2>1. rows[t] # NoRow
    BY <1>3 DEF UpdateType, DeleteType
  <2>2. rows[t] \in TypeRow /\ rows[t] # Gone
    BY <1>0, <2>1, IdAssumption DEF StoreTyped, Tabled
  <2>3. rows[t] \in Versions(t)
    BY <2>1, <2>2 DEF Versions
  <2>4. ASSUME NEW entity \in TypeRow, NEW next \in {"save", "remove"}, Stage(s, Only(t, entity), next),
               \A c \in Columns[t] : entity[c] = rows[t][c]
        PROVE  Inv'
    <3>1. Brings(s, t, entity, next)
      BY <1>0, <1>1, <2>1, <2>3, <2>4 DEF Brings
    <3>. QED
      BY <3>1, BringsKeeps
  <2>5. CASE UpdateType(s, t)
    <3>1. PICK m \in Labels, on \in BOOLEAN, schema \in Schemas :
            Stage(s, Only(t, TypeUpdated(rows[t], m, on, schema)), "save")
      BY <2>5 DEF UpdateType
    <3>2. /\ TypeUpdated(rows[t], m, on, schema) \in TypeRow
          /\ TypeUpdated(rows[t], m, on, schema).table = rows[t].table
          /\ TypeUpdated(rows[t], m, on, schema).slug = rows[t].slug
      BY <2>2 DEF TypeUpdated, MetadataUpdated, TypeRow
    <3>3. \A c \in Columns[t] : TypeUpdated(rows[t], m, on, schema)[c] = rows[t][c]
      BY <1>0, <3>2 DEF Columns
    <3>. QED
      BY <2>4, <3>1, <3>2, <3>3
  <2>6. CASE DeleteType(s, t)
    BY <2>2, <2>4, <2>6 DEF DeleteType
  <2>. QED
    BY <1>3, <2>5, <2>6
<1>. QED
  BY <1>2, <1>3

(***************************************************************************)
(* The rest of a transaction.                                              *)
(***************************************************************************)
LEMMA RollbackKeeps ==
  ASSUME Inv, NEW s \in Sessions, Rollback(s), UNCHANGED versions
  PROVE  Inv'
<1>0. /\ StoreGood(Tabled, Columns) /\ StoreTyped(Tabled) /\ Unique(Clashes) /\ Whole(Accepted)
      /\ Tables(Tabled, Columns) /\ Close(s) /\ rows' = rows
  BY ResourceTables DEF Inv, StoreGood, Rollback
<1>1. StoreGood(Tabled, Columns)' /\ Unique(Clashes)' /\ Whole(Accepted)'
  BY <1>0, RollbackGood, RollbackUnique, RollbackWhole
<1>2. \A u \in Sessions, i \in Ids :
        /\ staged'[u][i] = IF u = s THEN NoRow ELSE staged[u][i]
        /\ seen'[u][i] = IF u = s THEN NoRow ELSE seen[u][i]
        /\ draft'[u][i] = IF u = s THEN NoRow ELSE draft[u][i]
  BY <1>0, ClosedSession
<1>3. \A i \in Ids : Real(i)' \subseteq Real(i) /\ Versions(i)' \subseteq Versions(i)
  BY <1>0, <1>2 DEF Real, Versions
<1>4. \A r \in ResourceIds : r \in Ids /\ \A e \in Real(r) : e.type \in Ids
  <2>1. ASSUME NEW r \in ResourceIds, NEW e \in Real(r) PROVE e.type \in Ids
    <3>1. e \in ResourceRow
      BY <1>0, RealTyped, ResourceTables
    <3>. QED
      BY <3>1, ResourceTables DEF ResourceRow
  <2>. QED
    BY <2>1, ResourceTables
<1>5. Typed'
  BY <1>0, <1>2, <1>3, <1>4, IdAssumption DEF Inv, Typed
<1>6. Fitted' /\ Recorded'
  BY <1>0, <1>3, <1>4 DEF Inv, Fitted, FitsOne, Recorded
<1>7. pc' \in [Sessions -> {"idle", "insert", "base", "remove", "save"}]
  BY <1>0 DEF Inv, Close
<1>. QED
  BY <1>1, <1>5, <1>6, <1>7 DEF Inv

LEMMA InsertKeeps ==
  ASSUME Inv, NEW s \in Sessions, Insert(s)
  PROVE  Inv'
<1>0. /\ StoreGood(Tabled, Columns) /\ StoreTyped(Tabled) /\ StoreInv /\ Unique(Clashes)
      /\ Whole(Accepted) /\ Tables(Tabled, Columns) /\ Keyed(Tabled, Columns, Clashes)
      /\ InsertRows(s) /\ UNCHANGED versions
  BY ResourceTables DEF Inv, StoreGood, Insert
<1>1. Clear(s, Clashes)
  BY DEF Insert, KeysFree, Waits, Taken, Clear, Clashes
<1>2. StoreGood(Tabled, Columns)' /\ Unique(Clashes)' /\ Whole(Accepted)'
  BY <1>0, <1>1, InsertGood, InsertUnique, InsertWhole
<1>3. /\ \A u \in Sessions : draft'[u] = IF u = s THEN staged[s] ELSE draft[u]
      /\ \A u \in Sessions : staged'[u] = IF u = s THEN Nothing ELSE staged[u]
      /\ rows' = rows /\ seen' = seen /\ pc[s] = "insert" /\ pc' = [pc EXCEPT ![s] = "save"]
      /\ \A i \in Ids : Nothing[i] = NoRow
  BY <1>0, NothingTyped DEF InsertRows, StoreTyped
<1>4. \A i \in Ids : Versions(i)' \subseteq Versions(i)
  BY <1>3 DEF Versions
<1>5. Fitted' /\ Recorded'
  BY <1>3, <1>0, <1>4, ResourceTables DEF Inv, Fitted, FitsOne, Recorded
<1>6. Typed'
  <2>1. \A i \in Ids : staged[s][i] # Gone /\ draft[s][i] = NoRow
    <3>1. \A i \in Ids : staged[s][i] \in Tabled[i] \cup {NoRow}
      BY <1>0 DEF StoreTyped
    <3>2. \A i \in Ids : Gone \notin Tabled[i] /\ NoRow # Gone
      BY <1>0 DEF Tables
    <3>3. \A i \in Ids : draft[s][i] = NoRow
      BY <1>0, <1>3 DEF StoreInv, Writing
    <3>. QED
      BY <3>1, <3>2, <3>3
  <2>2. ASSUME NEW r \in ResourceIds, NEW e \in Real(r)'
        PROVE  rows'[e.type] # NoRow /\ \A v \in Sessions : draft'[v][e.type] # Gone
    <3>3. e \in Real(r) \/ (e = staged[s][r] /\ staged[s][r] # NoRow)
      BY <1>3, <2>2, ResourceTables DEF Real
    <3>1. e \in ResourceRow
      <4>1. r \in Ids /\ Tabled[r] = ResourceRow
        BY ResourceTables
      <4>2. Real(r) \subseteq ResourceRow /\ staged[s][r] \in ResourceRow \cup {NoRow}
        BY <1>0, <4>1, RealTyped DEF StoreTyped
      <4>. QED
        BY <3>3, <4>2
    <3>2. e.type \in Ids
      BY <3>1, ResourceTables DEF ResourceRow
    <3>4. rows[e.type] # NoRow /\ \A v \in Sessions : draft[v][e.type] # Gone
      <4>1. CASE e \in Real(r)
        BY <4>1 DEF Inv, Typed
      <4>2. CASE e = staged[s][r] /\ staged[s][r] # NoRow
        <5>1. rows[e.type] # NoRow /\ \A v \in Sessions \ {s} : draft[v][e.type] # Gone
          BY <4>2 DEF Insert, TypePresent, TypeLocked
        <5>2. draft[s][e.type] # Gone
          BY <2>1, <3>2, IdAssumption
        <5>. QED
          BY <5>1, <5>2
      <4>. QED
        BY <3>3, <4>1, <4>2
    <3>. QED
      BY <1>3, <2>1, <3>2, <3>4
  <2>3. \A u \in Sessions, r \in ResourceIds : draft'[u][r] # Gone
    BY <1>3, <2>1, ResourceTables DEF Inv, Typed
  <2>. QED
    BY <2>2, <2>3 DEF Typed
<1>7. pc' \in [Sessions -> {"idle", "insert", "base", "remove", "save"}]
  BY <1>3 DEF Inv
<1>. QED
  BY <1>2, <1>5, <1>6, <1>7 DEF Inv

LEMMA SaveKeeps ==
  ASSUME Inv, NEW s \in Sessions, NEW i \in Ids, Save(s, i)
  PROVE  Inv'
<1>0. /\ StoreGood(Tabled, Columns) /\ StoreTyped(Tabled) /\ StoreInv /\ Unique(Clashes)
      /\ Whole(Accepted) /\ Tables(Tabled, Columns) /\ Keyed(Tabled, Columns, Clashes)
      /\ UNCHANGED versions
  BY ResourceTables DEF Inv, StoreGood, Save
<1>1. CASE SelectRow(s, i)
  <2>1. /\ UNCHANGED <<rows, pc, staged, draft, mixed, torn>>
        /\ seen' = [seen EXCEPT ![s][i] = View(s, i)] /\ View(s, i) # NoRow
    BY <1>1 DEF SelectRow
  <2>2. StoreGood(Tabled, Columns)' /\ Unique(Clashes)' /\ Whole(Accepted)'
    BY <1>0, <1>1, <2>1, SelectGood, QuietUnique, QuietWhole
  <2>3. \A j \in Ids : Versions(j)' \subseteq Versions(j)
    <3>1. View(s, i) \in Versions(i)
      BY <1>0, <2>1, ViewTyped
    <3>2. \A u \in Sessions, j \in Ids : seen'[u][j] \in {seen[u][j]} \cup
            (IF j = i THEN {View(s, i)} ELSE {})
      BY <1>0, <2>1 DEF StoreTyped
    <3>. QED
      BY <2>1, <3>1, <3>2 DEF Versions
  <2>4. Typed'
    BY <2>1 DEF Inv, Typed, Real
  <2>5. Fitted' /\ Recorded'
    BY <1>0, <2>1, <2>3, ResourceTables DEF Inv, Fitted, FitsOne, Recorded
  <2>. QED
    BY <2>1, <2>2, <2>4, <2>5 DEF Inv
<1>2. CASE WriteRow(s, i)
  <2>1. PICK version : version = Written(staged[s][i], seen[s][i], View(s, i))
    OBVIOUS
  <2>2. /\ pc' = pc /\ rows' = rows /\ staged[s][i] # NoRow /\ seen[s][i] # NoRow /\ View(s, i) # NoRow
        /\ \A u \in Sessions, j \in Ids :
             /\ draft'[u][j] = IF u = s /\ j = i THEN version ELSE draft[u][j]
             /\ staged'[u][j] = IF u = s /\ j = i THEN NoRow ELSE staged[u][j]
             /\ seen'[u][j] = IF u = s /\ j = i THEN NoRow ELSE seen[u][j]
    BY <1>0, <1>2, <2>1 DEF WriteRow, StoreTyped, Unsaved
  <2>3. StoreGood(Tabled, Columns)' /\ Unique(Clashes)' /\ Whole(Accepted)'
    BY <1>0, <1>2, WriteGood, WriteUnique, WriteWhole
  <2>4. version \in RowsOf(i) /\ \A w \in Versions(i) : \A c \in Columns[i] : version[c] = w[c]
    BY <1>0, <1>2, <2>1, WrittenFixed DEF Tabled
  <2>5. version # Gone /\ version # NoRow
    BY <2>4, IdAssumption
  <2>6. View(s, i) \in Real(i) /\ View(s, i) \in Versions(i)
    <3>1. View(s, i) \in Versions(i)
      BY <1>0, <2>2, ViewTyped
    <3>2. View(s, i) \in {rows[i], draft[s][i]} /\ View(s, i) \notin {NoRow, Gone}
      BY <2>2, <3>1 DEF View, Versions
    <3>. QED
      BY <3>1, <3>2 DEF Real
  <2>7. Typed'
    <3>1. ASSUME NEW r \in ResourceIds, NEW e \in Real(r)'
          PROVE  rows'[e.type] # NoRow /\ \A v \in Sessions : draft'[v][e.type] # Gone
      <4>1. e \in Real(r) \/ (r = i /\ e = version)
        BY <2>2, <3>1, ResourceTables DEF Real
      <4>2. PICK f \in Real(r) : f.type = e.type
        <5>1. CASE r = i /\ e = version
          <6>1. "type" \in Columns[i]
            BY <5>1, ResourceTables DEF Columns
          <6>. QED
            BY <2>4, <2>6, <5>1, <6>1
        <5>. QED
          BY <4>1, <5>1
      <4>3. f.type \in Ids
        <5>1. f \in ResourceRow
          BY <1>0, RealTyped, ResourceTables
        <5>. QED
          BY <5>1, ResourceTables DEF ResourceRow
      <4>. QED
        BY <2>2, <2>5, <4>2, <4>3 DEF Inv, Typed
    <3>2. \A u \in Sessions, r \in ResourceIds : draft'[u][r] # Gone
      BY <2>2, <2>5, ResourceTables DEF Inv, Typed
    <3>. QED
      BY <3>1, <3>2 DEF Typed
  <2>8. Fitted'
    <3>1. ASSUME NEW r \in ResourceIds, NEW e \in Versions(r)' PROVE FitsOne(e)'
      <4>1. e \in Versions(r) \/ (r = i /\ e = version)
        BY <2>2, <3>1, ResourceTables DEF Versions
      <4>2. CASE r = i /\ e = version
        <5>1. /\ staged[s][i] \in ResourceRow /\ seen[s][i] \in ResourceRow /\ View(s, i) \in ResourceRow
              /\ staged[s][i] \in Versions(i)
          <6>1. staged[s][i] \in Tabled[i] /\ seen[s][i] \in Tabled[i] /\ View(s, i) \in Tabled[i]
            <7>1. View(s, i) \in Tabled[i]
              BY <1>0, <2>2, ViewTyped
            <7>2. staged[s][i] \in Tabled[i] /\ seen[s][i] \in Tabled[i]
              BY <1>0, <2>2 DEF StoreTyped
            <7>. QED
              BY <7>1, <7>2
          <6>2. staged[s][i] # Gone
            BY <1>0, <6>1 DEF Tables
          <6>. QED
            BY <2>2, <4>2, <6>1, <6>2, ResourceTables DEF Versions
        <5>2. e.base \in {staged[s][i].base, View(s, i).base}
          BY <2>1, <4>2, <5>1, WrittenResource
        <5>3. e.type = staged[s][i].type /\ e.type = View(s, i).type
          <6>1. "type" \in Columns[i]
            BY <4>2, ResourceTables DEF Columns
          <6>. QED
            BY <2>4, <2>6, <4>2, <5>1, <6>1
        <5>4. FitsOne(staged[s][i]) /\ FitsOne(View(s, i))
          BY <2>6, <4>2, <5>1 DEF Inv, Fitted
        <5>5. FitsOne(e)
          BY <5>2, <5>3, <5>4 DEF FitsOne
        <5>. QED
          BY <1>0, <5>5 DEF FitsOne
      <4>3. CASE e \in Versions(r)
        BY <1>0, <4>3 DEF Inv, Fitted, FitsOne
      <4>. QED
        BY <4>1, <4>2, <4>3
    <3>. QED
      BY <3>1 DEF Fitted
  <2>9. Recorded'
    BY <1>0, <2>2 DEF Inv, Recorded
  <2>. QED
    BY <2>2, <2>3, <2>7, <2>8, <2>9 DEF Inv
<1>. QED
  BY <1>1, <1>2 DEF Save

\* The only DELETE there is.  Nobody else has a version of the row, no resource of
\* the type is committed and none is being inserted.
LEMMA RemoveKeeps ==
  ASSUME Inv, NEW s \in Sessions, NEW t \in TypeIds, RemoveType(s, t)
  PROVE  Inv'
<1>0. /\ StoreTyped(Tabled) /\ StoreInv /\ Fixed(Columns) /\ Unique(Clashes) /\ Whole(Accepted)
      /\ Tables(Tabled, Columns) /\ t \in Ids /\ t \notin ResourceIds
  BY ResourceTables, IdAssumption DEF Inv, StoreGood
<1>1. PICK mark : mark = IF rows[t] = NoRow THEN NoRow ELSE Gone
  OBVIOUS
<1>2. /\ pc[s] = "remove" /\ pc' = [pc EXCEPT ![s] = "save"]
      /\ draft' = [draft EXCEPT ![s][t] = mark] /\ staged' = [staged EXCEPT ![s] = Nothing]
      /\ UNCHANGED <<rows, seen, mixed, outdated, torn, lost, versions>>
      /\ ~LockedAgainst(s, t)
      /\ \A u \in Sessions, r \in ResourceIds :
           draft[u][r] # NoRow /\ rows[r] = NoRow => draft[u][r].type # t
      /\ \A r \in ResourceIds : rows[r] # NoRow => rows[r].type # t
  BY <1>1 DEF RemoveType, TypeInUse, Referenced
<1>3. /\ Nothing \in [Ids -> AnyVersion(Tabled)] /\ \A i \in Ids : Nothing[i] = NoRow
      /\ mark \in AnyVersion(Tabled)
  BY <1>1, NothingTyped DEF AnyVersion
<1>4. /\ \A u \in Sessions, i \in Ids :
           /\ draft'[u][i] = IF u = s /\ i = t THEN mark ELSE draft[u][i]
           /\ staged'[u][i] = IF u = s THEN NoRow ELSE staged[u][i]
      /\ \A u \in Sessions : pc'[u] = IF u = s THEN "save" ELSE pc[u]
      /\ \A i \in Ids : draft[s][i] = NoRow /\ seen[s][i] = NoRow
  BY <1>0, <1>2, <1>3 DEF StoreTyped, StoreInv, Writing
<1>5. StoreTyped(Tabled)'
  <2>1. draft' \in [Sessions -> [Ids -> AnyVersion(Tabled)]] /\ staged' \in [Sessions -> [Ids -> AnyVersion(Tabled)]]
    BY <1>0, <1>2, <1>3 DEF StoreTyped
  <2>2. /\ UNCHANGED <<rows, seen, mixed, outdated, torn, lost>> /\ DOMAIN pc' = Sessions
    BY <1>0, <1>2 DEF StoreTyped
  <2>3. \A u \in Sessions, i \in Ids :
          /\ staged'[u][i] \in Tabled[i] \cup {NoRow}
          /\ draft'[u][i] \in Tabled[i] \cup {NoRow, Gone}
    BY <1>0, <1>1, <1>4 DEF StoreTyped
  <2>. QED
    BY <1>0, <2>1, <2>2, <2>3 DEF StoreTyped
<1>6. StoreInv'
  <2>1. \A u \in Sessions \ {s} : draft[u][t] = NoRow
    BY <1>2 DEF LockedAgainst
  <2>2. \A u \in Sessions, i \in Ids :
          /\ pc'[u] = "idle" => staged'[u][i] = NoRow
          /\ pc'[u] \notin Writing => draft'[u][i] = NoRow
          /\ seen'[u][i] # NoRow => staged'[u][i] # NoRow /\ pc'[u] = "save"
    BY <1>0, <1>2, <1>4 DEF StoreInv, Writing
  <2>3. \A u, v \in Sessions, i \in Ids : u # v /\ draft'[u][i] # NoRow => draft'[v][i] = NoRow
    BY <1>0, <1>4, <2>1 DEF StoreInv
  <2>4. ASSUME NEW u \in Sessions, NEW i \in Ids, pc'[u] = "insert", staged'[u][i] # NoRow
        PROVE  /\ rows'[i] = NoRow
               /\ \A v \in Sessions : draft'[v][i] = NoRow
               /\ \A v \in Sessions \ {u} : staged'[v][i] = NoRow
    <3>1. u # s /\ pc[u] = "insert" /\ staged[u][i] # NoRow
      BY <1>4, <2>4
    <3>2. /\ rows[i] = NoRow /\ \A v \in Sessions : draft[v][i] = NoRow
          /\ \A v \in Sessions \ {u} : staged[v][i] = NoRow
      BY <1>0, <3>1 DEF StoreInv
    <3>. QED
      BY <1>1, <1>2, <1>4, <3>2
  <2>. QED
    BY <2>2, <2>3, <2>4 DEF StoreInv
<1>7. \A i \in Ids : Versions(i)' \subseteq Versions(i) /\ Real(i)' \subseteq Real(i)
  BY <1>1, <1>2, <1>4 DEF Versions, Real
<1>8. Fixed(Columns)'
  BY <1>0, <1>7 DEF Fixed
<1>9. Unique(Clashes)'
  BY <1>0, <1>4, <1>7 DEF Unique
<1>10. Whole(Accepted)'
  BY <1>0, <1>1, <1>2, <1>4 DEF Whole
<1>11. Typed'
  <2>1. ASSUME NEW r \in ResourceIds, NEW e \in Real(r)'
        PROVE  rows'[e.type] # NoRow /\ \A v \in Sessions : draft'[v][e.type] # Gone
    <3>1. e \in Real(r) /\ r \in Ids /\ r \notin TypeIds
      BY <1>7, <2>1, ResourceTables
    <3>2. e.type \in Ids /\ rows[e.type] # NoRow /\ \A v \in Sessions : draft[v][e.type] # Gone
      <4>1. e \in ResourceRow
        BY <1>0, <3>1, RealTyped, ResourceTables
      <4>. QED
        BY <3>1, <4>1, ResourceTables DEF Inv, Typed, ResourceRow
    <3>3. e.type # t
      <4>1. CASE rows[r] = NoRow
        BY <1>2, <3>1, <4>1 DEF Real
      <4>2. CASE rows[r] # NoRow
        <5>1. rows[r] # Gone /\ rows[r] \in Versions(r) /\ e \in Versions(r)
          <6>1. rows[r] # Gone
            BY <1>0, <3>1, <4>2 DEF StoreTyped, Tables
          <6>. QED
            BY <1>0, <3>1, <4>2, <6>1, RealTyped DEF Versions
        <5>2. "type" \in Columns[r]
          BY <3>1 DEF Columns
        <5>3. e.type = rows[r].type
          BY <1>0, <3>1, <5>1, <5>2 DEF Fixed
        <5>. QED
          BY <1>2, <4>2, <5>3
      <4>. QED
        BY <4>1, <4>2
    <3>. QED
      BY <1>2, <1>4, <3>2, <3>3
  <2>2. \A u \in Sessions, r \in ResourceIds : draft'[u][r] # Gone
    BY <1>0, <1>4, ResourceTables DEF Inv, Typed
  <2>. QED
    BY <2>1, <2>2 DEF Typed
<1>12. Fitted' /\ Recorded'
  BY <1>2, <1>7, ResourceTables DEF Inv, Fitted, FitsOne, Recorded
<1>13. pc' \in [Sessions -> {"idle", "insert", "base", "remove", "save"}]
  BY <1>2 DEF Inv
<1>. QED
  BY <1>5, <1>6, <1>8, <1>9, <1>10, <1>11, <1>12, <1>13 DEF Inv, StoreGood

LEMMA CommitKeeps ==
  ASSUME Inv, NEW s \in Sessions, Commit(s)
  PROVE  Inv'
<1>0. /\ StoreGood(Tabled, Columns) /\ StoreTyped(Tabled) /\ StoreInv /\ Fixed(Columns)
      /\ Unique(Clashes) /\ Whole(Accepted) /\ Tables(Tabled, Columns)
      /\ CommitRows(s) /\ Close(s)
  BY ResourceTables DEF Inv, StoreGood, Commit, CommitRows
<1>1. StoreGood(Tabled, Columns)' /\ Unique(Clashes)' /\ Whole(Accepted)'
  BY <1>0, CommitGood, CommitUnique, CommitWhole
<1>2. \A i \in Ids :
        /\ draft[s][i] = NoRow => rows'[i] = rows[i]
        /\ draft[s][i] \notin {NoRow, Gone} => rows'[i] = draft[s][i]
        /\ draft[s][i] = Gone => rows'[i] = NoRow
  BY <1>0, CommitRowsChanges
<1>3. \A u \in Sessions, i \in Ids :
        /\ draft'[u][i] = IF u = s THEN NoRow ELSE draft[u][i]
        /\ staged'[u][i] = IF u = s THEN NoRow ELSE staged[u][i]
        /\ seen'[u][i] = IF u = s THEN NoRow ELSE seen[u][i]
  BY <1>0, ClosedSession
<1>4. \A i \in Ids : Versions(i)' \subseteq Versions(i) /\ Real(i)' \subseteq Real(i)
  BY <1>2, <1>3 DEF Versions, Real
<1>5. \A r \in ResourceIds : \A e \in Real(r) : e.type \in TypeIds /\ e.type \in Ids
  <2>1. ASSUME NEW r \in ResourceIds, NEW e \in Real(r) PROVE e.type \in TypeIds /\ e.type \in Ids
    <3>1. e \in ResourceRow
      BY <1>0, RealTyped, ResourceTables
    <3>. QED
      BY <3>1, ResourceTables DEF ResourceRow
  <2>. QED
    BY <2>1
<1>6. Typed'
  <2>1. ASSUME NEW r \in ResourceIds, NEW e \in Real(r)'
        PROVE  rows'[e.type] # NoRow /\ \A v \in Sessions : draft'[v][e.type] # Gone
    <3>1. e \in Real(r) /\ e.type \in Ids
      BY <1>4, <1>5, <2>1, ResourceTables
    <3>2. rows[e.type] # NoRow /\ \A v \in Sessions : draft[v][e.type] # Gone
      BY <3>1 DEF Inv, Typed
    <3>. QED
      BY <1>0, <1>2, <1>3, <3>1, <3>2 DEF Tables
  <2>2. \A u \in Sessions, r \in ResourceIds : draft'[u][r] # Gone
    BY <1>0, <1>3, ResourceTables DEF Inv, Typed, Tables
  <2>. QED
    BY <2>1, <2>2 DEF Typed
<1>7. versions' = [t \in TypeIds |->
                     versions[t] \cup IF rows'[t] = NoRow THEN {} ELSE {rows'[t].schema}]
  BY DEF Commit
<1>8. \A t \in TypeIds : versions[t] \subseteq versions'[t]
  BY <1>7
<1>9. Fitted'
  <2>1. ASSUME NEW r \in ResourceIds, NEW e \in Versions(r)' PROVE FitsOne(e)'
    <3>1. e \in Versions(r)
      BY <1>4, <2>1, ResourceTables
    <3>2. e.type \in TypeIds
      <4>1. e \in ResourceRow
        BY <1>0, <3>1, ResourceTables DEF StoreTyped, Versions
      <4>. QED
        BY <4>1 DEF ResourceRow
    <3>3. FitsOne(e)
      BY <3>1 DEF Inv, Fitted
    <3>. QED
      BY <1>8, <3>2, <3>3 DEF FitsOne
  <2>. QED
    BY <2>1 DEF Fitted
<1>10. Recorded'
  <2>1. ASSUME NEW t \in TypeIds, rows'[t] # NoRow PROVE rows'[t].schema \in Schemas
    <3>1. t \in Ids /\ Tabled[t] = TypeRow
      BY ResourceTables
    <3>2. rows'[t] \in {rows[t], draft[s][t]} /\ (draft[s][t] = Gone => rows'[t] = NoRow)
      BY <1>0, <1>2, <2>1, <3>1
    <3>3. rows'[t] \in TypeRow
      BY <1>0, <2>1, <3>1, <3>2 DEF StoreTyped, Tables
    <3>. QED
      BY <3>3 DEF TypeRow
  <2>2. versions' \in [TypeIds -> SUBSET Schemas]
    BY <1>7, <2>1 DEF Inv, Recorded
  <2>. QED
    BY <1>7, <2>2 DEF Recorded
<1>11. pc' \in [Sessions -> {"idle", "insert", "base", "remove", "save"}]
  BY <1>0 DEF Inv, Close
<1>. QED
  BY <1>1, <1>6, <1>9, <1>10, <1>11 DEF Inv

LEMMA ResourceStep == Inv /\ [Next]_vars => Inv'
<1>. SUFFICES ASSUME Inv, [Next]_vars PROVE Inv'
  OBVIOUS
<1>1. ASSUME NEW s \in Sessions, NEW r \in ResourceIds, CreateResource(s, r) \/ EditResource(s, r)
      PROVE  Inv'
  BY <1>1, CreateKeeps, EditResourceKeeps
<1>2. ASSUME NEW s \in Sessions, NEW t \in TypeIds, EditType(s, t) PROVE Inv'
  <2>1. CASE RefuseRemoval(s, t)
    BY <2>1, RollbackKeeps DEF RefuseRemoval
  <2>. QED
    BY <1>2, <2>1, CatalogKeeps, RemoveKeeps DEF EditType
<1>3. ASSUME NEW s \in Sessions, RefuseInsert(s) \/ Fail(s) PROVE Inv'
  <2>1. Rollback(s) /\ UNCHANGED versions
    BY <1>3 DEF RefuseInsert, InsertRefused, Fail, Abort, RowVanished
  <2>. QED
    BY <2>1, RollbackKeeps
<1>4. ASSUME NEW s \in Sessions, Insert(s) \/ Commit(s) \/ \E i \in Ids : Save(s, i) PROVE Inv'
  BY <1>4, InsertKeeps, CommitKeeps, SaveKeeps
<1>5. CASE Finished \/ UNCHANGED vars
  <2>1. UNCHANGED vars
    BY <1>5 DEF Finished
  <2>2. UNCHANGED <<storeVars, versions>>
    BY <2>1 DEF vars
  <2>3. \A i \in Ids : Real(i)' = Real(i) /\ Versions(i)' = Versions(i)
    BY <2>2 DEF storeVars, Real, Versions
  <2>4. StoreGood(Tabled, Columns)' /\ Unique(Clashes)'
    BY <2>2, QuietGood DEF Inv
  <2>5. Whole(Accepted)'
    BY <2>2, QuietWhole DEF Inv, storeVars
  <2>6. Typed' /\ Fitted' /\ Recorded' /\ pc' = pc
    BY <2>2, <2>3, ResourceTables DEF Inv, Typed, Fitted, FitsOne, Recorded, storeVars
  <2>. QED
    BY <2>4, <2>5, <2>6 DEF Inv
<1>. QED
  BY <1>1, <1>2, <1>3, <1>4, <1>5 DEF Next, Step

THEOREM ResourceInvariant == Spec => []Inv
BY ResourceInit, ResourceStep, PTL DEF Spec

\* resource.py:30-36: no interleaving of commands that change different parts of a
\* resource, each checked against the others as they were loaded, breaks the rules
\* between the parts, unless the columns of two commands meet in the row.
THEOREM SoundAggregates == Spec => []AggregateSound
<1>1. Inv => AggregateSound
  <2>. SUFFICES ASSUME Inv, NEW r \in ResourceIds, rows[r] # NoRow, r \notin torn
                PROVE  PartsSound(rows[r])
    BY DEF AggregateSound
  <2>1. rows[r] \in Accepted[r] /\ r \in Ids /\ r \notin TypeIds
    BY ResourceTables DEF Inv, Whole
  <2>2. rows[r] \in ResourceRow /\ PartsAccepted(rows[r])
    BY <2>1 DEF Accepted
  <2>. QED
    BY <2>2, SoundParts
<1>. QED
  BY <1>1, ResourceInvariant, PTL

\* delete_resource_type.py:22-24: the DELETE of a type and the INSERT of a resource
\* of it exclude each other, whoever comes first and whatever fails.
THEOREM NoTypeMissing == Spec => []NoOrphan
<1>1. Inv => NoOrphan
  <2>. SUFFICES ASSUME Inv, NEW r \in ResourceIds, rows[r] # NoRow
                PROVE  rows[rows[r].type] # NoRow
    BY DEF NoOrphan
  <2>1. rows[r] # Gone
    BY ResourceTables, IdAssumption DEF Inv, StoreGood, StoreTyped, Tables
  <2>2. rows[r] \in Real(r)
    BY <2>1 DEF Real
  <2>. QED
    BY <2>2 DEF Inv, Typed
<1>. QED
  BY <1>1, ResourceInvariant, PTL

\* What a public URL names is one row, however many requests insert at once.
THEOREM UniqueSlugs == Spec => []SlugsUnique
<1>1. Inv => SlugsUnique
  <2>. SUFFICES ASSUME Inv PROVE SlugsUnique
    OBVIOUS
  <2>1. ASSUME NEW i \in Ids, NEW j \in Ids, i # j, rows[i] # NoRow, rows[j] # NoRow
        PROVE  /\ rows[i] \in RowsOf(i) /\ rows[j] \in RowsOf(j)
               /\ <<rows[i], rows[j]>> \notin Clashes
    <3>1. rows[i] \in RowsOf(i) /\ rows[j] \in RowsOf(j)
      BY <2>1 DEF Inv, StoreGood, StoreTyped, Tabled
    <3>2. rows[i] \in Real(i) /\ rows[j] \in Real(j)
      BY <2>1, <3>1, IdAssumption DEF Real
    <3>. QED
      BY <2>1, <3>1, <3>2 DEF Inv, Unique
  <2>2. ASSUME NEW q \in ResourceIds, NEW r \in ResourceIds, q # r, rows[q] # NoRow, rows[r] # NoRow
        PROVE  <<rows[q].owner, rows[q].slug>> # <<rows[r].owner, rows[r].slug>>
    <3>1. rows[q] \in ResourceRow /\ rows[r] \in ResourceRow /\ <<rows[q], rows[r]>> \notin Clashes
      BY <2>1, <2>2, ResourceTables
    <3>. QED
      BY <3>1 DEF Clashes, SameKey, ResourceRow
  <2>3. ASSUME NEW t \in TypeIds, NEW u \in TypeIds, t # u, rows[t] # NoRow, rows[u] # NoRow
        PROVE  rows[t].slug # rows[u].slug
    <3>1. rows[t] \in TypeRow /\ rows[u] \in TypeRow /\ <<rows[t], rows[u]>> \notin Clashes
      BY <2>1, <2>3, ResourceTables
    <3>. QED
      BY <3>1 DEF Clashes, SameKey, TypeRow
  <2>. QED
    BY <2>2, <2>3 DEF SlugsUnique
<1>. QED
  BY <1>1, ResourceInvariant, PTL

\* replace_base_attributes.py with update_resource_type.py: a resource never has
\* attributes that nobody held against a schema of its type, also where two
\* commands meet in the row.
THEOREM FittingAttributes == Spec => []AttributesFittedOnce
<1>1. Inv => AttributesFittedOnce
  <2>. SUFFICES ASSUME Inv, NEW r \in ResourceIds, rows[r] # NoRow
                PROVE  FitsOne(rows[r])
    BY DEF AttributesFittedOnce, FitsOne
  <2>1. rows[r] # Gone
    BY ResourceTables, IdAssumption DEF Inv, StoreGood, StoreTyped, Tables
  <2>. QED
    BY <2>1 DEF Inv, Fitted, Versions
<1>. QED
  BY <1>1, ResourceInvariant, PTL

Counted == commands \in 0..MaxCommands /\ patched \in [Sessions -> 0..5]

LEMMA CountedStep ==
  ASSUME Counted, [Next]_vars
  PROVE  Counted'
<1>1. ASSUME NEW s \in Sessions, NEW r \in ResourceIds, NEW n \in 1..5, Patch(s, r, n)
      PROVE  Counted'
  BY <1>1, InputAssumption DEF Patch, TakeUp, Counted
<1>2. ASSUME NEW s \in Sessions, NEW r \in ResourceIds, CreateResource(s, r) \/ EditResource(s, r)
      PROVE  Counted'
  <2>1. CASE \E n \in 1..5 : Patch(s, r, n)
    BY <1>1, <2>1
  <2>2. CASE ~ \E n \in 1..5 : Patch(s, r, n)
    <3>1. \/ CreateResource(s, r) \/ ReplaceBaseAttributes(s, r) \/ ReplaceOperatingHours(s, r)
          \/ ReplacePricingRules(s, r) \/ SetSlotDuration(s, r) \/ Publish(s, r) \/ SoftDelete(s, r)
      BY <1>2, <2>2 DEF EditResource, UpdateMetadata, SetBasePrice, SetCancellationCutoff,
         LoadForBaseAttributes, ReplaceCustomAttributes
    <3>2. /\ patched' = patched
          /\ commands' = commands \/ (commands < MaxCommands /\ commands' = commands + 1)
      BY <3>1 DEF CreateResource, ReplaceBaseAttributes, ReplaceOperatingHours,
         ReplacePricingRules, SetSlotDuration, Publish, SoftDelete, Edit, TakeUp
    <3>. QED
      BY <3>2, InputAssumption DEF Counted
  <2>. QED
    BY <2>1, <2>2
<1>3. ASSUME NEW s \in Sessions, NEW t \in TypeIds, EditType(s, t) PROVE Counted'
  BY <1>3, InputAssumption DEF EditType, CreateType, UpdateType, DeleteType, RemoveType,
     RefuseRemoval, TakeUp, Counted
<1>4. ASSUME NEW s \in Sessions, \/ Insert(s) \/ RefuseInsert(s) \/ Commit(s) \/ Fail(s)
                                 \/ \E i \in Ids : Save(s, i)
      PROVE  Counted'
  BY <1>4 DEF Insert, RefuseInsert, Commit, Fail, Save, Counted
<1>5. CASE Finished \/ UNCHANGED vars
  BY <1>5 DEF Finished, vars, Counted
<1>. QED
  BY <1>2, <1>3, <1>4, <1>5 DEF Next, Step

\* Every variable keeps its type: commands write rows of the two tables only, and a
\* PATCH runs its parts in order.
THEOREM ResourceTypes == Spec => []TypeOK
<1>1. Init => Counted
  BY InputAssumption DEF Init, Counted
<1>2. Counted /\ [Next]_vars => Counted'
  BY CountedStep
<1>3. Inv /\ Counted => TypeOK
  <2>. SUFFICES ASSUME Inv, Counted PROVE TypeOK
    OBVIOUS
  <2>1. StoreTyped(Tabled)
    BY DEF Inv, StoreGood
  <2>2. /\ \A i \in Ids : rows[i] \in RowsOf(i) \cup {NoRow}
        /\ \A s \in Sessions, i \in Ids :
             /\ staged[s][i] \in RowsOf(i) \cup {NoRow}
             /\ seen[s][i] \in RowsOf(i) \cup {NoRow}
             /\ draft[s][i] \in RowsOf(i) \cup {NoRow, Gone}
    BY <2>1 DEF StoreTyped, Tabled
  <2>3. /\ mixed \in [Sessions -> SUBSET Ids] /\ outdated \in [Sessions -> SUBSET Ids]
        /\ torn \subseteq Ids /\ lost \subseteq Ids
    BY <2>1 DEF StoreTyped
  <2>4. Len(PatchOrder) = 5
    BY DEF PatchOrder
  <2>. QED
    BY <2>2, <2>3, <2>4 DEF TypeOK, Inv, Recorded, Counted
<1>. QED
  BY <1>1, <1>2, <1>3, ResourceInvariant, PTL DEF Spec
=============================================================================
