--------------------------- MODULE AccountProofs ----------------------------
(***************************************************************************)
(* Accounts, tokens and subscriptions, for every number of requests, users *)
(* and every clock: keys stay unique, a deactivation is final, access ends *)
(* with the access token, and every stored subscription can be loaded.     *)
(***************************************************************************)
EXTENDS Accounts, RowStoreProofs

Tabled == [i \in Ids |-> RowsOf(i)]

\* E-mail, slug and the owner of a subscription never change.
Columns ==
  [i \in Ids |-> IF i \in UserIds THEN {"table", "email", "slug"} ELSE {"table", "owner"}]

Clashes == {p \in (UserRow \cup SubRow) \X (UserRow \cup SubRow) : SameKey(p[1], p[2])}

\* A handler makes an active user of an active user only.
ActiveFrom == {p \in UserRow \X UserRow : p[2].active => p[1].active} \cup (SubRow \X SubRow)

Loadable == [i \in Ids |-> IF i \in UserIds THEN UserRow ELSE {row \in SubRow : Readable(row)}]

Registering ==
  [kind : {"register"}, name : Names, attempt : Nat \ {0}, user : UserIds, email : Emails]
Issuing == [kind : {"issue"}, user : UserIds, role : Roles]
Announcing == [kind : {"status"}, sub : SubIds, status : SubStatuses]
Job == [kind |-> "job"]

\* What a handler holds at each of its steps.
TaskFits(at, t) ==
  /\ at \in {"idle", "insert"} => t = NoTask
  /\ at = "slug" => t \in Registering /\ t.attempt <= Len(Candidates[t.name])
  /\ at = "issue" => t \in Issuing
  /\ at = "save" => t \in {NoTask, Job} \cup Issuing \cup Announcing

\* The keys of an owner whose slug is being looked for are nobody else's.
Reserved ==
  \A s \in Sessions : pc[s] = "slug" =>
    /\ Fresh(task[s].user) /\ Fresh(SubOf[task[s].user])
    /\ \A v \in Sessions \ {s} : pc[v] = "slug" => task[v].user # task[s].user

StoreOK ==
  /\ StoreGood(Tabled, Columns) /\ Undeleted
  /\ Unique(Clashes) /\ Based(ActiveFrom) /\ Whole(Loadable)
  /\ \A s \in Sessions, i \in Ids :
       staged[s][i] # NoRow /\ pc[s] # "insert" => rows[i] # NoRow

Inv ==
  /\ StoreOK
  /\ pc \in [Sessions -> {"idle", "slug", "issue", "insert", "save"}]
  /\ DOMAIN task = Sessions
  /\ \A s \in Sessions : TaskFits(pc[s], task[s])
  /\ Reserved
  /\ clock \in Times /\ pairs \subseteq TokenPair

LEMMA AccountTables ==
  /\ Tables(Tabled, Columns) /\ Keyed(Tabled, Columns, Clashes) /\ Mixable(Tabled, ActiveFrom)
<1>1. \A e, old, cur \in UserRow :
        Written(e, old, cur) \in UserRow /\ Written(e, old, cur).active \in {e.active, cur.active}
  BY DEF UserRow, Written
<1>2. \A e, old, cur \in SubRow : Written(e, old, cur) \in SubRow
  BY DEF SubRow, Written
<1>3. \A i \in Ids : \A e \in RowsOf(i) : Columns[i] \subseteq DOMAIN e
  BY DEF RowsOf, UserRow, SubRow, Columns
<1>4. Tables(Tabled, Columns)
  BY <1>1, <1>2, <1>3, KeyAssumption DEF Tables, Tabled, RowsOf
<1>5. ASSUME NEW i \in Ids, NEW j \in Ids, NEW e \in RowsOf(i), NEW g \in RowsOf(i),
             NEW f \in RowsOf(j), \A c \in Columns[i] : e[c] = g[c]
      PROVE  <<e, f>> \in Clashes <=> <<g, f>> \in Clashes
  <2>1. CASE i \in UserIds
    <3>1. e.table = "user" /\ g.table = "user" /\ e.email = g.email /\ e.slug = g.slug
      BY <1>5, <2>1 DEF Columns, RowsOf, UserRow
    <3>. QED
      BY <2>1, <3>1 DEF Clashes, SameKey, RowsOf
  <2>2. CASE i \notin UserIds
    <3>1. e.table = "sub" /\ g.table = "sub" /\ e.owner = g.owner
      BY <1>5, <2>2 DEF Columns, RowsOf, SubRow
    <3>. QED
      BY <2>2, <3>1 DEF Clashes, SameKey, RowsOf
  <2>. QED
    BY <2>1, <2>2
<1>6. \A i, j \in Ids : \A e \in RowsOf(i) : \A f \in RowsOf(j) :
        <<e, f>> \in Clashes => <<f, e>> \in Clashes
  BY DEF Clashes, SameKey
<1>7. Keyed(Tabled, Columns, Clashes)
  BY <1>5, <1>6 DEF Keyed, Tabled
<1>8. ASSUME NEW i \in Ids,
             NEW row \in RowsOf(i), NEW e \in RowsOf(i), NEW old \in RowsOf(i), NEW cur \in RowsOf(i),
             <<row, e>> \in ActiveFrom, cur = row \/ <<row, cur>> \in ActiveFrom
      PROVE  <<row, Written(e, old, cur)>> \in ActiveFrom
  <2>1. CASE i \in UserIds
    <3>1. row \in UserRow /\ row \notin SubRow
      BY <2>1 DEF RowsOf, UserRow, SubRow
    <3>2. (e.active => row.active) /\ (cur.active => row.active)
      BY <1>8, <3>1 DEF ActiveFrom
    <3>. QED
      BY <1>1, <2>1, <3>1, <3>2 DEF ActiveFrom, RowsOf
  <2>2. CASE i \notin UserIds
    BY <1>2, <2>2 DEF ActiveFrom, RowsOf
  <2>. QED
    BY <2>1, <2>2
<1>9. Mixable(Tabled, ActiveFrom)
  BY <1>8 DEF Mixable, Tabled
<1>. QED
  BY <1>4, <1>7, <1>9

LEMMA AccountInit == Init => Inv
<1>. SUFFICES ASSUME Init PROVE Inv
  OBVIOUS
<1>1. Nothing \in [Ids -> AnyVersion(Tabled)] /\ \A i \in Ids : Nothing[i] = NoRow
  BY NothingTyped
<1>2. \A i \in Ids : rows[i] \in RowsOf(i) \cup {NoRow}
  BY SeedAssumption DEF Init
<1>3. rows \in [Ids -> AnyVersion(Tabled)]
  <2>1. ASSUME NEW i \in Ids PROVE rows[i] \in AnyVersion(Tabled)
    <3>1. rows[i] \in Tabled[i] \cup {NoRow, Gone}
      BY <1>2 DEF Tabled
    <3>. QED
      BY <3>1, AnyRow
  <2>. QED
    BY <2>1, SeedAssumption DEF Init
<1>4. StoreTyped(Tabled)
  BY <1>1, <1>2, <1>3 DEF Init, StoreInit, StoreTyped, Tabled
<1>5. StoreInv
  BY <1>1 DEF Init, StoreInit, StoreInv
<1>6. \A i \in Ids : Versions(i) \subseteq {rows[i]} /\ Real(i) \subseteq {rows[i]} \ {NoRow}
  BY <1>1 DEF Init, StoreInit, Versions, Real
<1>7. Fixed(Columns)
  BY <1>6 DEF Fixed
<1>8. Unique(Clashes)
  <2>1. ASSUME NEW i \in Ids, NEW j \in Ids, i # j, NEW e \in Real(i), NEW f \in Real(j)
        PROVE  <<e, f>> \notin Clashes
    BY <1>6, <2>1, SeedAssumption DEF Clashes, Init
  <2>. QED
    BY <1>1, <2>1 DEF Unique, Init, StoreInit
<1>9. Whole(Loadable) /\ Undeleted /\ Based(ActiveFrom)
  <2>1. \A i \in Ids : rows[i] # NoRow => rows[i] \in Loadable[i]
    BY <1>2, SeedAssumption, KeyAssumption DEF Loadable, RowsOf, Init
  <2>. QED
    BY <1>1, <2>1, KeyAssumption DEF Whole, Undeleted, Based, Init, StoreInit
<1>10. StoreOK
  BY <1>1, <1>4, <1>5, <1>7, <1>8, <1>9 DEF StoreOK, StoreGood, Init, StoreInit
<1>11. clock \in Times /\ pairs \subseteq TokenPair
  BY KeyAssumption, SeedAssumption DEF Init, Times
<1>. QED
  BY <1>10, <1>11 DEF Inv, Init, StoreInit, TaskFits, Reserved

(***************************************************************************)
(* What the handlers stage: new rows to insert, or rows loaded and changed. *)
(***************************************************************************)
NewRows(s, entities) ==
  /\ \A i \in Ids : entities[i] # NoRow => Fresh(i)
  /\ \A u, v \in UserIds : entities[u] # NoRow /\ entities[v] # NoRow => u = v
  /\ \A i, j \in SubIds : entities[i] # NoRow /\ entities[j] # NoRow => i = j
  /\ \A u \in UserIds : entities[u] # NoRow \/ entities[SubOf[u]] # NoRow =>
       \A v \in Sessions \ {s} : pc[v] = "slug" => task[v].user # u
  /\ \A u \in UserIds : entities[u] # NoRow /\ entities[u].role = "owner" =>
       entities[u].slug # NoSlug /\ entities[SubOf[u]] # NoRow
  /\ \A i \in SubIds : entities[i] # NoRow => entities[i].status = "TRIALING"

ChangedRows(entities, t) ==
  /\ \A i \in Ids : entities[i] # NoRow =>
       rows[i] # NoRow /\ \A c \in Columns[i] : entities[i][c] = rows[i][c]
  /\ \A u \in UserIds : entities[u] # NoRow /\ entities[u].active => rows[u].active
  /\ \A i \in SubIds : entities[i] # NoRow =>
       t = Job \/ (t \in Announcing /\ t.sub = i /\ entities[i].status = t.status)
  /\ t \in Announcing => entities[t.sub] # NoRow

Brings(s, entities, next, t) ==
  /\ Stage(s, entities, next) /\ pc[s] \in {"idle", "slug"}
  /\ next \in {"slug", "issue", "insert", "save"}
  /\ entities \in [Ids -> AnyVersion(Tabled)]
  /\ \A i \in Ids : entities[i] # NoRow => entities[i] \in RowsOf(i) /\ entities[i] \in Loadable[i]
  /\ IF next = "insert" THEN NewRows(s, entities) ELSE ChangedRows(entities, t)
  /\ DOMAIN task' = Sessions /\ task'[s] = t
  /\ \A v \in Sessions \ {s} : task'[v] = task[v]
  /\ TaskFits(next, t)
  /\ next = "slug" => FreshUser(t.user)
  /\ next = "issue" => rows[t.user] # NoRow /\ rows[t.user].active /\ rows[t.user].role = t.role
  /\ UNCHANGED accountVars

Staging(s) ==
  \/ \E u \in UserIds : \/ Login(s, u) \/ RegisterCustomer(s, u) \/ BeginOwner(s, u)
                        \/ Bootstrap(s, u) \/ Promote(s, u) \/ Deactivate(s, u)
                        \/ SetStatus(s, u)
  \/ Refresh(s) \/ TakeSlug(s) \/ ExpireTrials(s)

LEMMA OneStaged ==
  ASSUME NEW i \in Ids, NEW entity \in RowsOf(i)
  PROVE  /\ Only(i, entity) \in [Ids -> AnyVersion(Tabled)]
         /\ \A j \in Ids : Only(i, entity)[j] = IF j = i THEN entity ELSE NoRow
<1>1. entity \in AnyVersion(Tabled)
  BY AnyRow DEF Tabled
<1>2. Nothing \in [Ids -> AnyVersion(Tabled)] /\ \A j \in Ids : Nothing[j] = NoRow
  BY NothingTyped
<1>. QED
  BY <1>1, <1>2 DEF Only

LEMMA UserStaged ==
  ASSUME Inv, NEW s \in Sessions, NEW u \in UserIds, rows[u] # NoRow, NEW entity \in UserRow,
         entity.email = rows[u].email, entity.slug = rows[u].slug,
         entity.active => rows[u].active,
         NEW next \in {"issue", "save"}, Stage(s, Only(u, entity), next), pc[s] = "idle",
         NEW t, t \notin Announcing, TaskFits(next, t), DOMAIN task' = Sessions, task'[s] = t,
         \A v \in Sessions \ {s} : task'[v] = task[v], UNCHANGED accountVars,
         next = "issue" =>
           rows[t.user] # NoRow /\ rows[t.user].active /\ rows[t.user].role = t.role
  PROVE  Brings(s, Only(u, entity), next, t)
<1>1. u \in Ids /\ u \notin SubIds /\ entity \in RowsOf(u) /\ entity \in Loadable[u]
      /\ rows[u] \in UserRow
  BY KeyAssumption DEF RowsOf, Loadable, Inv, StoreOK, StoreGood, StoreTyped, Tabled
<1>2. /\ Only(u, entity) \in [Ids -> AnyVersion(Tabled)]
      /\ \A j \in Ids : Only(u, entity)[j] = IF j = u THEN entity ELSE NoRow
  BY <1>1, OneStaged
<1>3. \A c \in Columns[u] : entity[c] = rows[u][c]
  BY <1>1 DEF Columns, UserRow
<1>4. ChangedRows(Only(u, entity), t)
  BY <1>1, <1>2, <1>3, KeyAssumption DEF ChangedRows
<1>. QED
  BY <1>1, <1>2, <1>4 DEF Brings

LEMMA NothingStaged ==
  ASSUME Inv, NEW s \in Sessions,
         NEW next \in {"issue", "slug"}, Stage(s, Nothing, next), pc[s] = "idle",
         NEW t, t \notin Announcing, TaskFits(next, t), DOMAIN task' = Sessions, task'[s] = t,
         \A v \in Sessions \ {s} : task'[v] = task[v], UNCHANGED accountVars,
         next = "slug" => FreshUser(t.user),
         next = "issue" =>
           rows[t.user] # NoRow /\ rows[t.user].active /\ rows[t.user].role = t.role
  PROVE  Brings(s, Nothing, next, t)
<1>1. Nothing \in [Ids -> AnyVersion(Tabled)] /\ \A j \in Ids : Nothing[j] = NoRow
  BY NothingTyped
<1>2. ChangedRows(Nothing, t)
  BY <1>1, KeyAssumption DEF ChangedRows
<1>. QED
  BY <1>1, <1>2 DEF Brings

LEMMA SubStaged ==
  ASSUME Inv, NEW i \in SubIds, rows[i] # NoRow, NEW status \in SubStatuses
  PROVE  /\ TransitionTo(rows[i], status) \in RowsOf(i)
         /\ TransitionTo(rows[i], status) \in Loadable[i]
         /\ \A c \in Columns[i] : TransitionTo(rows[i], status)[c] = rows[i][c]
         /\ TransitionTo(rows[i], status).status = status
<1>1. i \in Ids /\ i \notin UserIds /\ rows[i] \in SubRow
  BY KeyAssumption DEF RowsOf, Inv, StoreOK, StoreGood, StoreTyped, Tabled
<1>2. clock + TrialDuration \in Trials /\ clock + TrialDuration # NoTrial /\ NoTrial \in Trials
  BY KeyAssumption DEF Inv, Times, Trials
<1>3. /\ TransitionTo(rows[i], status) \in SubRow
      /\ TransitionTo(rows[i], status).owner = rows[i].owner
      /\ TransitionTo(rows[i], status).table = rows[i].table
      /\ TransitionTo(rows[i], status).status = status
      /\ Readable(TransitionTo(rows[i], status))
  BY <1>1, <1>2 DEF TransitionTo, SubRow, Readable
<1>. QED
  BY <1>1, <1>3 DEF RowsOf, Loadable, Columns

LEMMA NewUserStaged ==
  ASSUME NEW u \in UserIds, NEW email \in Emails, NEW role \in Roles, NEW slug \in Slugs \cup {NoSlug}
  PROVE  /\ NewUser(email, role, slug) \in UserRow
         /\ NewUser(email, role, slug) \in RowsOf(u) /\ NewUser(email, role, slug) \in Loadable[u]
         /\ NewUser(email, role, slug).role = role /\ NewUser(email, role, slug).slug = slug
  BY KeyAssumption DEF NewUser, UserRow, RowsOf, Loadable

LEMMA StagingBrings ==
  ASSUME Inv, NEW s \in Sessions, Staging(s)
  PROVE  \E entities, next, t : Brings(s, entities, next, t)
<1>0. /\ DOMAIN task = Sessions /\ TaskFits(pc[s], task[s])
      /\ \A u \in UserIds : rows[u] # NoRow => rows[u] \in UserRow
      /\ \A i \in Ids : rows[i] \in RowsOf(i) \cup {NoRow}
  BY KeyAssumption DEF Inv, StoreOK, StoreGood, StoreTyped, Tabled, RowsOf
<1>1. ASSUME NEW u \in UserIds, Login(s, u) PROVE \E entities, next, t : Brings(s, entities, next, t)
  <2>. DEFINE t == [kind |-> "issue", user |-> u, role |-> rows[u].role]
              entity == [rows[u] EXCEPT !.hash = "new"]
  <2>1. /\ pc[s] = "idle" /\ rows[u] # NoRow /\ rows[u].active /\ rows[u] \in UserRow
        /\ UNCHANGED accountVars
    BY <1>0, <1>1 DEF Login, TakeUp
  <2>2. t \in Issuing /\ t \notin Announcing /\ TaskFits("issue", t)
    BY <2>1 DEF Issuing, Announcing, TaskFits, UserRow
  <2>3. DOMAIN task' = Sessions /\ task'[s] = t /\ \A v \in Sessions \ {s} : task'[v] = task[v]
    BY <1>0, <1>1 DEF Login
  <2>4. t.user = u /\ t.role = rows[u].role
    OBVIOUS
  <2>5. /\ entity \in UserRow /\ entity.email = rows[u].email /\ entity.slug = rows[u].slug
        /\ entity.active = rows[u].active
    BY <2>1 DEF UserRow
  <2>6. Stage(s, Only(u, entity), "issue") \/ Stage(s, Nothing, "issue")
    BY <1>1 DEF Login
  <2>. HIDE DEF t, entity
  <2>7. Brings(s, Only(u, entity), "issue", t) \/ Brings(s, Nothing, "issue", t)
    BY <2>1, <2>2, <2>3, <2>4, <2>5, <2>6, UserStaged, NothingStaged
  <2>. QED
    BY <2>7
<1>2. ASSUME Refresh(s) PROVE \E entities, next, t : Brings(s, entities, next, t)
  <2>1. PICK p \in pairs :
          /\ rows[p.user] # NoRow /\ rows[p.user].active
          /\ task' = [task EXCEPT ![s] =
                        [kind |-> "issue", user |-> p.user, role |-> rows[p.user].role]]
    BY <1>2 DEF Refresh
  <2>. DEFINE t == [kind |-> "issue", user |-> p.user, role |-> rows[p.user].role]
  <2>2. p.user \in UserIds /\ rows[p.user] \in UserRow
    BY <1>0, <2>1 DEF Inv, TokenPair
  <2>3. pc[s] = "idle" /\ Stage(s, Nothing, "issue") /\ UNCHANGED accountVars
    BY <1>2 DEF Refresh, TakeUp
  <2>4. t \in Issuing /\ t \notin Announcing /\ TaskFits("issue", t)
    BY <2>2 DEF Issuing, Announcing, TaskFits, UserRow
  <2>5. /\ DOMAIN task' = Sessions /\ task'[s] = t
        /\ \A v \in Sessions \ {s} : task'[v] = task[v]
        /\ t.user = p.user /\ t.role = rows[p.user].role
    BY <1>0, <2>1
  <2>. HIDE DEF t
  <2>6. Brings(s, Nothing, "issue", t)
    BY <2>1, <2>3, <2>4, <2>5, NothingStaged
  <2>. QED
    BY <2>6
<1>3. ASSUME NEW u \in UserIds, BeginOwner(s, u)
      PROVE  \E entities, next, t : Brings(s, entities, next, t)
  <2>1. PICK email \in Emails, name \in Names :
          task' = [task EXCEPT ![s] = [kind |-> "register", name |-> name, attempt |-> 1,
                                       user |-> u, email |-> email]]
    BY <1>3 DEF BeginOwner
  <2>. DEFINE t == [kind |-> "register", name |-> name, attempt |-> 1,
                    user |-> u, email |-> email]
  <2>2. /\ pc[s] = "idle" /\ Stage(s, Nothing, "slug") /\ FreshUser(u) /\ UNCHANGED accountVars
    BY <1>3 DEF BeginOwner, TakeUp
  <2>3. t \in Registering /\ t \notin Announcing /\ t.attempt <= Len(Candidates[t.name]) /\ t.user = u
    BY KeyAssumption DEF Registering, Announcing
  <2>4. DOMAIN task' = Sessions /\ task'[s] = t /\ \A v \in Sessions \ {s} : task'[v] = task[v]
    BY <1>0, <2>1
  <2>. HIDE DEF t
  <2>5. TaskFits("slug", t)
    BY <2>3 DEF TaskFits
  <2>6. Brings(s, Nothing, "slug", t)
    BY <2>2, <2>3, <2>4, <2>5, NothingStaged
  <2>. QED
    BY <2>6
<1>4. ASSUME NEW u \in UserIds, NEW email \in Emails, NEW role \in {"customer", "admin"},
             pc[s] = "idle", FreshUser(u), UNCHANGED <<accountVars, task>>,
             Stage(s, Only(u, NewUser(email, role, NoSlug)), "insert")
      PROVE  \E entities, next, t : Brings(s, entities, next, t)
  <2>. DEFINE entity == NewUser(email, role, NoSlug)
  <2>1. entity \in RowsOf(u) /\ entity \in Loadable[u] /\ entity.role # "owner"
    BY NewUserStaged DEF Roles
  <2>2. u \in Ids /\ u \notin SubIds
    BY KeyAssumption
  <2>. HIDE DEF entity
  <2>3. /\ Only(u, entity) \in [Ids -> AnyVersion(Tabled)]
        /\ \A j \in Ids : Only(u, entity)[j] = IF j = u THEN entity ELSE NoRow
    BY <2>1, <2>2, OneStaged
  <2>4. \A v \in Sessions \ {s} : pc[v] = "slug" => task[v].user # u
    BY <1>4 DEF FreshUser, Inv, TaskFits, Registering
  <2>5. \A v \in UserIds : v \in Ids /\ SubOf[v] \in SubIds /\ SubOf[v] \in Ids
    BY KeyAssumption
  <2>6. NewRows(s, Only(u, entity))
    BY <1>4, <2>1, <2>2, <2>3, <2>4, <2>5, KeyAssumption DEF NewRows, FreshUser
  <2>7. task[s] = NoTask /\ TaskFits("insert", NoTask)
    BY <1>0, <1>4 DEF TaskFits
  <2>8. Stage(s, Only(u, entity), "insert")
    BY <1>4 DEF entity
  <2>9. Brings(s, Only(u, entity), "insert", NoTask)
    BY <1>0, <1>4, <2>1, <2>3, <2>6, <2>7, <2>8 DEF Brings
  <2>. QED
    BY <2>9
<1>5. ASSUME NEW u \in UserIds, RegisterCustomer(s, u) \/ Bootstrap(s, u)
      PROVE  \E entities, next, t : Brings(s, entities, next, t)
  BY <1>4, <1>5, KeyAssumption DEF RegisterCustomer, Bootstrap, TakeUp
<1>6. ASSUME TakeSlug(s) PROVE \E entities, next, t : Brings(s, entities, next, t)
  <2>. DEFINE u == task[s].user
              slug == Candidates[task[s].name][task[s].attempt]
              user == NewUser(task[s].email, "owner", slug)
              sub == NewSub(u)
              entities == [Nothing EXCEPT ![u] = user, ![SubOf[u]] = sub]
  <2>1. /\ pc[s] = "slug" /\ Stage(s, entities, "insert") /\ UNCHANGED accountVars
        /\ task' = [task EXCEPT ![s] = NoTask]
    BY <1>6 DEF TakeSlug
  <2>2. task[s] \in Registering /\ task[s].attempt <= Len(Candidates[task[s].name])
    BY <1>0, <2>1 DEF TaskFits
  <2>3. slug \in Slugs
    <3>1. task[s].name \in Names /\ task[s].attempt \in DOMAIN Candidates[task[s].name]
      BY <2>2, KeyAssumption DEF Registering
    <3>. QED
      BY <3>1 DEF Slugs
  <2>4. /\ u \in UserIds /\ SubOf[u] \in SubIds /\ u \in Ids /\ SubOf[u] \in Ids
        /\ u \notin SubIds /\ SubOf[u] \notin UserIds
    BY <2>2, KeyAssumption DEF Registering
  <2>5. /\ user \in RowsOf(u) /\ user \in Loadable[u] /\ user.slug = slug
    BY <2>2, <2>3, <2>4, NewUserStaged DEF Registering, Roles
  <2>6. sub \in RowsOf(SubOf[u]) /\ sub \in Loadable[SubOf[u]] /\ sub.status = "TRIALING"
    <3>1. clock + TrialDuration \in Trials /\ clock + TrialDuration # NoTrial
      BY KeyAssumption DEF Inv, Times, Trials
    <3>2. sub \in SubRow /\ sub.status = "TRIALING" /\ Readable(sub)
      BY <2>4, <3>1 DEF NewSub, SubRow, SubStatuses, Readable
    <3>. QED
      BY <2>4, <3>2 DEF RowsOf, Loadable
  <2>7. slug # NoSlug
    BY <2>3, KeyAssumption
  <2>. HIDE DEF user, sub, slug
  <2>8. /\ \A j \in Ids : entities[j] = IF j = SubOf[u] THEN sub ELSE IF j = u THEN user ELSE NoRow
        /\ entities \in [Ids -> AnyVersion(Tabled)]
    <3>1. Nothing \in [Ids -> AnyVersion(Tabled)] /\ \A j \in Ids : Nothing[j] = NoRow
      BY NothingTyped
    <3>2. user \in AnyVersion(Tabled) /\ sub \in AnyVersion(Tabled)
      BY <2>4, <2>5, <2>6, AnyRow DEF Tabled
    <3>. QED
      BY <2>4, <3>1, <3>2
  <2>9. /\ Fresh(u) /\ Fresh(SubOf[u])
        /\ \A v \in Sessions \ {s} : pc[v] = "slug" => task[v].user # u
    BY <2>1 DEF Inv, Reserved
  <2>. HIDE DEF entities
  <2>10. NewRows(s, entities)
    <3>1. \A v \in UserIds : v \in Ids /\ SubOf[v] \in Ids /\ (SubOf[v] = SubOf[u] => v = u)
                             /\ v # SubOf[u] /\ SubOf[v] # u
      BY <2>4, KeyAssumption
    <3>2. user # NoRow /\ sub # NoRow
      BY <2>4, <2>5, <2>6, KeyAssumption
    <3>3. \A i \in Ids : entities[i] # NoRow => i \in {u, SubOf[u]}
      BY <2>8
    <3>4. \A v \in UserIds : (entities[v] # NoRow \/ entities[SubOf[v]] # NoRow) => v = u
      BY <3>1, <3>3
    <3>5. \A i \in SubIds : i \in Ids /\ (entities[i] # NoRow => i = SubOf[u])
      BY <2>4, <3>3, KeyAssumption
    <3>6. entities[u] = user /\ entities[SubOf[u]] = sub
      BY <2>4, <2>8
    <3>7. \A i \in Ids : entities[i] # NoRow => Fresh(i)
      BY <2>9, <3>3
    <3>8. \A v, w \in UserIds : entities[v] # NoRow /\ entities[w] # NoRow => v = w
      BY <3>4
    <3>9. \A v \in UserIds : entities[v] # NoRow /\ entities[v].role = "owner" =>
            entities[v].slug # NoSlug /\ entities[SubOf[v]] # NoRow
      BY <2>5, <2>7, <3>2, <3>4, <3>6
    <3>. QED
      BY <2>6, <2>9, <3>4, <3>5, <3>6, <3>7, <3>8, <3>9 DEF NewRows
  <2>11. /\ DOMAIN task' = Sessions /\ task'[s] = NoTask
         /\ \A v \in Sessions \ {s} : task'[v] = task[v]
         /\ TaskFits("insert", NoTask)
    BY <1>0, <2>1 DEF TaskFits
  <2>12. \A i \in Ids : entities[i] # NoRow => entities[i] \in RowsOf(i) /\ entities[i] \in Loadable[i]
    BY <2>5, <2>6, <2>8
  <2>13. Brings(s, entities, "insert", NoTask)
    BY <2>1, <2>8, <2>10, <2>11, <2>12 DEF Brings
  <2>. QED
    BY <2>13
<1>7. ASSUME NEW u \in UserIds, rows[u] # NoRow, pc[s] = "idle", UNCHANGED <<accountVars, task>>,
             NEW entity \in UserRow, entity.email = rows[u].email, entity.slug = rows[u].slug,
             entity.active => rows[u].active, Stage(s, Only(u, entity), "save")
      PROVE  \E entities, next, t : Brings(s, entities, next, t)
  <2>1. task[s] = NoTask /\ NoTask \notin Announcing /\ TaskFits("save", NoTask)
    BY <1>0, <1>7 DEF TaskFits, NoTask, Announcing
  <2>2. task' = task
    BY <1>7
  <2>3. Brings(s, Only(u, entity), "save", NoTask)
    BY <1>0, <1>7, <2>1, <2>2, UserStaged
  <2>. QED
    BY <2>3
<1>8. ASSUME NEW u \in UserIds, Promote(s, u) PROVE \E entities, next, t : Brings(s, entities, next, t)
  <2>1. PICK role \in Roles : Stage(s, Only(u, [rows[u] EXCEPT !.role = role]), "save")
    BY <1>8 DEF Promote
  <2>2. rows[u] \in UserRow /\ rows[u] # NoRow
    BY <1>0, <1>8 DEF Promote
  <2>3. PICK entity : entity = [rows[u] EXCEPT !.role = role]
    OBVIOUS
  <2>4. /\ entity \in UserRow /\ entity.email = rows[u].email /\ entity.slug = rows[u].slug
        /\ entity.active = rows[u].active
    BY <2>2, <2>3 DEF UserRow
  <2>. QED
    BY <1>7, <1>8, <2>1, <2>2, <2>3, <2>4 DEF Promote, TakeUp
<1>9. ASSUME NEW u \in UserIds, Deactivate(s, u)
      PROVE  \E entities, next, t : Brings(s, entities, next, t)
  <2>2. rows[u] \in UserRow /\ rows[u] # NoRow
    BY <1>0, <1>9 DEF Deactivate
  <2>3. PICK entity : entity = [rows[u] EXCEPT !.active = FALSE]
    OBVIOUS
  <2>4. /\ entity \in UserRow /\ entity.email = rows[u].email /\ entity.slug = rows[u].slug
        /\ entity.active = FALSE
    BY <2>2, <2>3 DEF UserRow
  <2>. QED
    BY <1>7, <1>9, <2>2, <2>3, <2>4 DEF Deactivate, TakeUp
<1>10. ASSUME NEW u \in UserIds, SetStatus(s, u)
       PROVE  \E entities, next, t : Brings(s, entities, next, t)
  <2>. DEFINE i == SubOf[u]
  <2>1. PICK status \in SubStatuses :
          /\ Stage(s, Only(i, TransitionTo(rows[i], status)), "save")
          /\ task' = [task EXCEPT ![s] = [kind |-> "status", sub |-> i, status |-> status]]
    BY <1>10 DEF SetStatus
  <2>2. i \in SubIds /\ i \in Ids /\ i \notin UserIds /\ rows[i] # NoRow /\ pc[s] = "idle"
        /\ UNCHANGED accountVars
    BY <1>10, KeyAssumption DEF SetStatus, TakeUp
  <2>3. PICK t, entity : /\ t = [kind |-> "status", sub |-> i, status |-> status]
                         /\ entity = TransitionTo(rows[i], status)
    OBVIOUS
  <2>. HIDE DEF i
  <2>4. /\ entity \in RowsOf(i) /\ entity \in Loadable[i] /\ entity.status = status
        /\ \A c \in Columns[i] : entity[c] = rows[i][c]
    BY <2>2, <2>3, SubStaged
  <2>5. /\ Only(i, entity) \in [Ids -> AnyVersion(Tabled)]
        /\ \A j \in Ids : Only(i, entity)[j] = IF j = i THEN entity ELSE NoRow
    BY <2>2, <2>4, OneStaged
  <2>6. t \in Announcing /\ t.sub = i /\ t.status = status
    BY <2>2, <2>3 DEF Announcing
  <2>7. entity # NoRow
    BY <2>2, <2>4, KeyAssumption
  <2>8. ChangedRows(Only(i, entity), t)
    BY <2>2, <2>4, <2>5, <2>6, <2>7, KeyAssumption DEF ChangedRows
  <2>9. /\ DOMAIN task' = Sessions /\ task'[s] = t
        /\ \A v \in Sessions \ {s} : task'[v] = task[v] /\ TaskFits("save", t)
    BY <1>0, <2>1, <2>3, <2>6 DEF TaskFits
  <2>10. Brings(s, Only(i, entity), "save", t)
    BY <2>1, <2>2, <2>3, <2>4, <2>5, <2>6, <2>8, <2>9 DEF Brings, TaskFits
  <2>. QED
    BY <2>10
<1>11. ASSUME ExpireTrials(s) PROVE \E entities, next, t : Brings(s, entities, next, t)
  <2>. DEFINE entities == [i \in Ids |-> IF i \in Overdue THEN TransitionTo(rows[i], "INACTIVE")
                                                       ELSE NoRow]
  <2>1. /\ pc[s] = "idle" /\ Stage(s, entities, "save") /\ UNCHANGED accountVars
        /\ task' = [task EXCEPT ![s] = Job]
    BY <1>11 DEF ExpireTrials, TakeUp, Job
  <2>2. \A i \in Overdue : i \in SubIds /\ i \in Ids /\ i \notin UserIds /\ rows[i] # NoRow
    BY KeyAssumption DEF Overdue
  <2>3. ASSUME NEW i \in Ids
        PROVE  IF i \in Overdue
               THEN /\ entities[i] \in RowsOf(i) /\ entities[i] \in Loadable[i]
                    /\ \A c \in Columns[i] : entities[i][c] = rows[i][c]
               ELSE entities[i] = NoRow
    BY <2>2, SubStaged DEF SubStatuses
  <2>4. entities \in [Ids -> AnyVersion(Tabled)]
    <3>1. ASSUME NEW i \in Ids PROVE entities[i] \in AnyVersion(Tabled)
      <4>1. entities[i] \in Tabled[i] \cup {NoRow, Gone}
        BY <2>3 DEF Tabled
      <4>. HIDE DEF entities
      <4>. QED
        BY <4>1, AnyRow
    <3>. QED
      BY <3>1
  <2>. HIDE DEF entities
  <2>5. Job \notin Announcing /\ TaskFits("save", Job)
    BY DEF Job, Announcing, TaskFits
  <2>6. ChangedRows(entities, Job)
    BY <2>2, <2>3, <2>5, KeyAssumption DEF ChangedRows
  <2>7. DOMAIN task' = Sessions /\ task'[s] = Job /\ \A v \in Sessions \ {s} : task'[v] = task[v]
    BY <1>0, <2>1
  <2>8. Brings(s, entities, "save", Job)
    BY <2>1, <2>3, <2>4, <2>5, <2>6, <2>7 DEF Brings
  <2>. QED
    BY <2>8
<1>. QED
  BY <1>1, <1>2, <1>3, <1>5, <1>6, <1>8, <1>9, <1>10, <1>11 DEF Staging

(***************************************************************************)
(* The invariant.                                                          *)
(***************************************************************************)
LEMMA BringsKeeps ==
  ASSUME Inv, NEW s \in Sessions, NEW entities, NEW next, NEW t, Brings(s, entities, next, t)
  PROVE  Inv'
<1>0. /\ StoreGood(Tabled, Columns) /\ StoreTyped(Tabled) /\ StoreInv /\ Fixed(Columns)
      /\ Undeleted /\ Unique(Clashes) /\ Based(ActiveFrom) /\ Whole(Loadable)
      /\ Tables(Tabled, Columns)
  BY AccountTables DEF Inv, StoreOK, StoreGood
<1>1. /\ Stage(s, entities, next) /\ pc[s] \in {"idle", "slug"}
      /\ next \in {"slug", "issue", "insert", "save"}
      /\ entities \in [Ids -> AnyVersion(Tabled)]
      /\ \A i \in Ids : entities[i] # NoRow => entities[i] \in RowsOf(i) /\ entities[i] \in Loadable[i]
  BY DEF Brings
<1>2. Stageable(Tabled, Columns, s, entities, next)
  <2>1. ASSUME NEW i \in Ids, entities[i] # NoRow
        PROVE  \A w \in Versions(i) : \A c \in Columns[i] : entities[i][c] = w[c]
    <3>1. CASE next = "insert" /\ NewRows(s, entities)
      <4>1. Fresh(i)
        BY <2>1, <3>1 DEF NewRows
      <4>2. \A u \in Sessions : seen[u][i] = NoRow
        BY <1>0, <4>1 DEF Fresh, StoreInv
      <4>. QED
        BY <4>1, <4>2 DEF Fresh, Versions
    <3>2. CASE next # "insert" /\ ChangedRows(entities, t)
      <4>1. rows[i] # NoRow /\ \A c \in Columns[i] : entities[i][c] = rows[i][c]
        BY <2>1, <3>2 DEF ChangedRows
      <4>2. rows[i] \in Versions(i)
        BY <1>0, <4>1 DEF StoreTyped, Tables, Versions
      <4>. QED
        BY <1>0, <4>1, <4>2 DEF Fixed
    <3>. QED
      BY <3>1, <3>2 DEF Brings
  <2>2. \A i \in Ids : entities[i] # NoRow =>
          IF next = "insert" THEN Fresh(i) ELSE rows[i] # NoRow
    BY DEF Brings, NewRows, ChangedRows
  <2>3. \A i \in Ids : draft[s][i] = NoRow
    BY <1>0, <1>1 DEF StoreInv, Writing
  <2>. QED
    BY <1>1, <2>1, <2>2, <2>3 DEF Stageable, Tabled
<1>3. StoreGood(Tabled, Columns)' /\ Undeleted'
  BY <1>0, <1>1, <1>2, StageGood, StepUndeleted DEF Stage
<1>4. Unique(Clashes)'
  <2>1. ASSUME next = "insert", NEW i \in Ids, NEW j \in Ids, i # j,
               entities[i] # NoRow, entities[j] # NoRow
        PROVE  <<entities[i], entities[j]>> \notin Clashes
    <3>1. (i \in UserIds /\ j \in SubIds) \/ (i \in SubIds /\ j \in UserIds)
      BY <2>1, KeyAssumption DEF Brings, NewRows
    <3>2. entities[i] \in RowsOf(i) /\ entities[j] \in RowsOf(j)
      BY <1>1, <2>1
    <3>3. entities[i].table # entities[j].table
      BY <3>1, <3>2, KeyAssumption DEF RowsOf, UserRow, SubRow
    <3>. QED
      BY <3>3 DEF Clashes, SameKey
  <2>. QED
    BY <1>0, <1>1, <2>1, StageUnique
<1>5. Based(ActiveFrom)'
  <2>1. ASSUME NEW i \in Ids, entities[i] # NoRow, rows[i] # NoRow
        PROVE  <<rows[i], entities[i]>> \in ActiveFrom
    <3>1. next # "insert" /\ ChangedRows(entities, t)
      BY <2>1 DEF Brings, NewRows, Fresh
    <3>2. rows[i] \in RowsOf(i) /\ entities[i] \in RowsOf(i)
      BY <1>0, <1>1, <2>1 DEF StoreTyped, Tabled
    <3>. QED
      BY <2>1, <3>1, <3>2, KeyAssumption DEF ActiveFrom, RowsOf, ChangedRows
  <2>. QED
    BY <1>0, <1>1, <2>1, StageBased
<1>6. Whole(Loadable)'
  BY <1>0, <1>1, StageWhole
<1>7. /\ \A u \in Sessions : /\ pc'[u] = IF u = s THEN next ELSE pc[u]
                             /\ staged'[u] = IF u = s THEN entities ELSE staged[u]
      /\ UNCHANGED <<rows, draft>> /\ pc' = [pc EXCEPT ![s] = next]
  BY <1>0, <1>1 DEF Stage, StoreTyped
<1>8. \A u \in Sessions, i \in Ids : staged'[u][i] # NoRow /\ pc'[u] # "insert" => rows'[i] # NoRow
  BY <1>7 DEF Inv, StoreOK, Brings, ChangedRows
<1>9. Reserved'
  <2>1. ASSUME NEW v \in Sessions \ {s}, pc'[v] = "slug"
        PROVE  /\ pc[v] = "slug" /\ task'[v] = task[v]
               /\ Fresh(task[v].user)' /\ Fresh(SubOf[task[v].user])'
    <3>1. /\ pc[v] = "slug" /\ task'[v] = task[v]
          /\ Fresh(task[v].user) /\ Fresh(SubOf[task[v].user])
      BY <1>7, <2>1 DEF Brings, Inv, Reserved
    <3>2. task[v].user \in UserIds /\ task[v].user \in Ids /\ SubOf[task[v].user] \in Ids
      BY <3>1, KeyAssumption DEF Inv, TaskFits, Registering
    <3>3. entities[task[v].user] = NoRow /\ entities[SubOf[task[v].user]] = NoRow
      BY <3>1, <3>2 DEF Brings, NewRows, ChangedRows, Fresh
    <3>. QED
      BY <1>7, <3>1, <3>2, <3>3 DEF Fresh
  <2>2. ASSUME next = "slug"
        PROVE  /\ task'[s] = t /\ Fresh(t.user)' /\ Fresh(SubOf[t.user])'
               /\ \A v \in Sessions \ {s} : pc[v] = "slug" => task[v].user # t.user
    <3>1. task'[s] = t /\ t \in Registering /\ FreshUser(t.user)
      BY <2>2 DEF Brings, TaskFits
    <3>2. t.user \in UserIds /\ t.user \in Ids /\ SubOf[t.user] \in Ids
      BY <3>1, KeyAssumption DEF Registering
    <3>3. entities[t.user] = NoRow /\ entities[SubOf[t.user]] = NoRow
      BY <2>2, <3>1, <3>2 DEF Brings, ChangedRows, FreshUser, Fresh
    <3>4. Fresh(t.user)' /\ Fresh(SubOf[t.user])'
      BY <1>7, <3>1, <3>2, <3>3 DEF FreshUser, Fresh
    <3>. QED
      BY <3>1, <3>4 DEF FreshUser, Inv, TaskFits, Registering
  <2>3. pc'[s] = next
    BY <1>7
  <2>. QED
    BY <2>1, <2>2, <2>3 DEF Reserved, Inv
<1>10. \A u \in Sessions : TaskFits(pc'[u], task'[u])
  BY <1>7 DEF Brings, Inv
<1>. QED
  BY <1>1, <1>3, <1>4, <1>5, <1>6, <1>7, <1>8, <1>9, <1>10
  DEF Inv, StoreOK, Brings, accountVars, TaskFits

\* A key nobody has is nobody's after any other step.
LEMMA ReservedKept ==
  ASSUME Inv, \A i \in Ids : Fresh(i) => Fresh(i)',
         \A v \in Sessions : pc'[v] = "slug" => pc[v] = "slug" /\ task'[v].user = task[v].user
  PROVE  Reserved'
<1>1. \A v \in Sessions : pc[v] = "slug" => task[v].user \in Ids /\ SubOf[task[v].user] \in Ids
  BY KeyAssumption DEF Inv, TaskFits, Registering
<1>2. ASSUME NEW s \in Sessions, pc'[s] = "slug"
      PROVE  /\ Fresh(task[s].user)' /\ Fresh(SubOf[task[s].user])'
             /\ task'[s].user = task[s].user
             /\ \A v \in Sessions \ {s} : pc'[v] = "slug" => task'[v].user # task'[s].user
  <2>1. pc[s] = "slug" /\ task'[s].user = task[s].user
    BY <1>2
  <2>2. Fresh(task[s].user) /\ Fresh(SubOf[task[s].user])
    BY <2>1 DEF Inv, Reserved
  <2>3. Fresh(task[s].user)' /\ Fresh(SubOf[task[s].user])'
    BY <1>1, <2>1, <2>2
  <2>. QED
    BY <2>1, <2>3 DEF Inv, Reserved
<1>. QED
  BY <1>2 DEF Reserved, Fresh

LEMMA RollbackKeeps ==
  ASSUME Inv, NEW s \in Sessions, Rollback(s), DOMAIN task' = Sessions, task'[s] = NoTask,
         \A v \in Sessions \ {s} : task'[v] = task[v], UNCHANGED accountVars
  PROVE  Inv'
<1>0. /\ StoreGood(Tabled, Columns) /\ StoreTyped(Tabled)
      /\ Undeleted /\ Unique(Clashes) /\ Based(ActiveFrom) /\ Whole(Loadable)
      /\ Tables(Tabled, Columns)
  BY AccountTables DEF Inv, StoreOK, StoreGood
<1>1. StoreGood(Tabled, Columns)' /\ Undeleted' /\ Unique(Clashes)'
  BY <1>0, RollbackGood, StepUndeleted, RollbackUnique
<1>2. Based(ActiveFrom)' /\ Whole(Loadable)'
  BY <1>0, RollbackBased, RollbackWhole
<1>3. /\ \A u \in Sessions : pc'[u] = IF u = s THEN "idle" ELSE pc[u]
      /\ pc' = [pc EXCEPT ![s] = "idle"]
      /\ \A u \in Sessions, i \in Ids :
           /\ staged'[u][i] = IF u = s THEN NoRow ELSE staged[u][i]
           /\ draft'[u][i] = IF u = s THEN NoRow ELSE draft[u][i]
      /\ rows' = rows
  <2>1. Close(s) /\ rows' = rows /\ pc' = [pc EXCEPT ![s] = "idle"]
    BY DEF Rollback, Close
  <2>2. /\ \A u \in Sessions : pc'[u] = IF u = s THEN "idle" ELSE pc[u]
        /\ \A u \in Sessions, i \in Ids :
             /\ staged'[u][i] = IF u = s THEN NoRow ELSE staged[u][i]
             /\ draft'[u][i] = IF u = s THEN NoRow ELSE draft[u][i]
    BY <1>0, <2>1, ClosedSession
  <2>. QED
    BY <2>1, <2>2
<1>4. Reserved'
  <2>1. \A i \in Ids : Fresh(i) => Fresh(i)'
    BY <1>3 DEF Fresh
  <2>. QED
    BY <1>3, <2>1, ReservedKept
<1>5. \A u \in Sessions, i \in Ids : staged'[u][i] # NoRow /\ pc'[u] # "insert" => rows'[i] # NoRow
  BY <1>3 DEF Inv, StoreOK
<1>6. \A u \in Sessions : TaskFits(pc'[u], task'[u])
  BY <1>3 DEF Inv, TaskFits
<1>7. pc' \in [Sessions -> {"idle", "slug", "issue", "insert", "save"}]
  BY <1>3 DEF Inv
<1>. QED
  BY <1>1, <1>2, <1>4, <1>5, <1>6, <1>7 DEF Inv, StoreOK, accountVars

LEMMA InsertKeeps ==
  ASSUME Inv, NEW s \in Sessions, Insert(s)
  PROVE  Inv'
<1>0. /\ StoreGood(Tabled, Columns) /\ StoreTyped(Tabled)
      /\ Undeleted /\ Unique(Clashes) /\ Based(ActiveFrom) /\ Whole(Loadable)
      /\ Tables(Tabled, Columns) /\ Keyed(Tabled, Columns, Clashes)
      /\ InsertRows(s) /\ UNCHANGED <<accountVars, task>>
  BY AccountTables DEF Inv, StoreOK, StoreGood, Insert
<1>1. Clear(s, Clashes)
  BY DEF Insert, KeysFree, Waits, Taken, Clear, Clashes
<1>2. StoreGood(Tabled, Columns)' /\ Undeleted' /\ Unique(Clashes)'
  BY <1>0, <1>1, InsertGood, StepUndeleted, InsertUnique
<1>3. Based(ActiveFrom)' /\ Whole(Loadable)'
  BY <1>0, InsertBased, InsertWhole
<1>4. /\ \A u \in Sessions : /\ pc'[u] = IF u = s THEN "save" ELSE pc[u]
                             /\ draft'[u] = IF u = s THEN staged[s] ELSE draft[u]
                             /\ staged'[u] = IF u = s THEN Nothing ELSE staged[u]
      /\ \A i \in Ids : Nothing[i] = NoRow
      /\ pc' = [pc EXCEPT ![s] = "save"] /\ rows' = rows /\ pc[s] = "insert"
  BY <1>0 DEF InsertRows, StoreTyped, Nothing
<1>5. Reserved'
  <2>1. \A i \in Ids : Fresh(i) => Fresh(i)'
    BY <1>4 DEF Fresh
  <2>. QED
    BY <1>0, <1>4, <2>1, ReservedKept
<1>6. \A u \in Sessions, i \in Ids : staged'[u][i] # NoRow /\ pc'[u] # "insert" => rows'[i] # NoRow
  BY <1>4 DEF Inv, StoreOK
<1>7. \A u \in Sessions : TaskFits(pc'[u], task'[u])
  BY <1>0, <1>4 DEF Inv, TaskFits
<1>8. pc' \in [Sessions -> {"idle", "slug", "issue", "insert", "save"}]
  BY <1>4 DEF Inv
<1>. QED
  BY <1>0, <1>2, <1>3, <1>5, <1>6, <1>7, <1>8 DEF Inv, StoreOK, accountVars

LEMMA SaveKeeps ==
  ASSUME Inv, NEW s \in Sessions, NEW i \in Ids, Save(s, i)
  PROVE  Inv'
<1>0. /\ StoreGood(Tabled, Columns) /\ StoreTyped(Tabled)
      /\ Undeleted /\ Unique(Clashes) /\ Based(ActiveFrom) /\ Whole(Loadable)
      /\ Tables(Tabled, Columns) /\ Keyed(Tabled, Columns, Clashes) /\ Mixable(Tabled, ActiveFrom)
      /\ UNCHANGED <<accountVars, task>>
  BY AccountTables DEF Inv, StoreOK, StoreGood, Save
<1>1. CASE SelectRow(s, i)
  <2>1. UNCHANGED <<rows, pc, staged, draft, mixed, outdated, torn>>
    BY <1>1 DEF SelectRow
  <2>2. StoreGood(Tabled, Columns)' /\ Undeleted' /\ Unique(Clashes)'
    BY <1>0, <1>1, <2>1, SelectGood, StepUndeleted, QuietUnique
  <2>3. Based(ActiveFrom)' /\ Whole(Loadable)'
    BY <1>0, <2>1, QuietBased, QuietWhole
  <2>4. Reserved'
    BY <1>0, <2>1 DEF Inv, Reserved, Fresh
  <2>. QED
    BY <1>0, <2>1, <2>2, <2>3, <2>4 DEF Inv, StoreOK, accountVars
<1>2. CASE WriteRow(s, i)
  <2>1. /\ pc' = pc /\ rows' = rows /\ staged[s][i] # NoRow
        /\ \A u \in Sessions, j \in Ids :
             /\ (u # s \/ j # i) => draft'[u][j] = draft[u][j]
             /\ staged'[u][j] = IF u = s /\ j = i THEN NoRow ELSE staged[u][j]
    BY <1>0, <1>2 DEF WriteRow, StoreTyped, Unsaved
  <2>2. StoreGood(Tabled, Columns)' /\ Undeleted' /\ Unique(Clashes)'
    BY <1>0, <1>2, WriteGood, StepUndeleted, WriteUnique
  <2>3. Based(ActiveFrom)' /\ Whole(Loadable)'
    BY <1>0, <1>2, WriteBased, WriteWhole
  <2>4. Reserved'
    <3>1. \A j \in Ids : Fresh(j) => Fresh(j)'
      BY <2>1 DEF Fresh
    <3>. QED
      BY <1>0, <2>1, <3>1, ReservedKept
  <2>5. \A u \in Sessions, j \in Ids : staged'[u][j] # NoRow /\ pc'[u] # "insert" => rows'[j] # NoRow
    BY <2>1 DEF Inv, StoreOK
  <2>. QED
    BY <1>0, <2>1, <2>2, <2>3, <2>4, <2>5 DEF Inv, StoreOK, accountVars
<1>. QED
  BY <1>1, <1>2 DEF Save

LEMMA CommitKeeps ==
  ASSUME Inv, NEW s \in Sessions, Commit(s)
  PROVE  Inv'
<1>0. /\ StoreGood(Tabled, Columns) /\ StoreTyped(Tabled)
      /\ Undeleted /\ Unique(Clashes) /\ Based(ActiveFrom) /\ Whole(Loadable)
      /\ Tables(Tabled, Columns)
      /\ CommitRows(s) /\ UNCHANGED <<clock, pairs>>
  BY AccountTables DEF Inv, StoreOK, StoreGood, Commit
<1>1. StoreGood(Tabled, Columns)' /\ Undeleted' /\ Unique(Clashes)'
  BY <1>0, CommitGood, StepUndeleted, CommitUnique
<1>2. Based(ActiveFrom)' /\ Whole(Loadable)'
  BY <1>0, CommitBased, CommitWhole
<1>3. /\ \A u \in Sessions : pc'[u] = IF u = s THEN "idle" ELSE pc[u]
      /\ pc' = [pc EXCEPT ![s] = "idle"]
      /\ \A u \in Sessions, i \in Ids :
           /\ staged'[u][i] = IF u = s THEN NoRow ELSE staged[u][i]
           /\ draft'[u][i] = IF u = s THEN NoRow ELSE draft[u][i]
  BY <1>0, ClosedSession DEF CommitRows, Close
<1>4. /\ \A i \in Ids : rows[i] # NoRow => rows'[i] # NoRow
      /\ \A i \in Ids : draft[s][i] = NoRow => rows'[i] = rows[i]
  BY <1>0, RowStays, CommitRowsChanges
<1>5. /\ DOMAIN task' = Sessions /\ task'[s] = NoTask
      /\ \A v \in Sessions \ {s} : task'[v] = task[v]
  BY DEF Commit, Inv
<1>6. Reserved'
  <2>1. \A i \in Ids : Fresh(i) => Fresh(i)'
    BY <1>3, <1>4 DEF Fresh
  <2>. QED
    BY <1>3, <1>5, <2>1, ReservedKept
<1>7. \A u \in Sessions, i \in Ids : staged'[u][i] # NoRow /\ pc'[u] # "insert" => rows'[i] # NoRow
  BY <1>3, <1>4 DEF Inv, StoreOK
<1>8. \A u \in Sessions : TaskFits(pc'[u], task'[u])
  BY <1>3, <1>5 DEF Inv, TaskFits
<1>9. pc' \in [Sessions -> {"idle", "slug", "issue", "insert", "save"}]
  BY <1>3 DEF Inv
<1>. QED
  BY <1>0, <1>1, <1>2, <1>5, <1>6, <1>7, <1>8, <1>9 DEF Inv, StoreOK

LEMMA IssueKeeps ==
  ASSUME Inv, NEW s \in Sessions, Issue(s)
  PROVE  Inv'
<1>0. /\ StoreGood(Tabled, Columns) /\ StoreTyped(Tabled)
      /\ Undeleted /\ Unique(Clashes) /\ Based(ActiveFrom) /\ Whole(Loadable)
      /\ Tables(Tabled, Columns)
      /\ pc[s] = "issue" /\ pc' = [pc EXCEPT ![s] = "save"]
      /\ UNCHANGED <<rows, staged, seen, draft, mixed, outdated, torn, lost, clock, task>>
  BY AccountTables DEF Inv, StoreOK, StoreGood, Issue
<1>1. \A u \in Sessions : pc'[u] = IF u = s THEN "save" ELSE pc[u]
  BY <1>0 DEF StoreTyped
<1>2. StoreGood(Tabled, Columns)' /\ Undeleted'
  BY <1>0, GoOnGood, StepUndeleted
<1>3. Unique(Clashes)' /\ Based(ActiveFrom)' /\ Whole(Loadable)'
  BY <1>0, <1>1, QuietUnique, QuietBased, QuietWhole
<1>4. Reserved'
  BY <1>0, <1>1 DEF Inv, Reserved, Fresh
<1>5. \A u \in Sessions, i \in Ids : staged'[u][i] # NoRow /\ pc'[u] # "insert" => rows'[i] # NoRow
  BY <1>0, <1>1 DEF Inv, StoreOK
<1>6. \A u \in Sessions : TaskFits(pc'[u], task'[u])
  BY <1>0, <1>1 DEF Inv, TaskFits
<1>7. pc' \in [Sessions -> {"idle", "slug", "issue", "insert", "save"}]
  BY <1>0 DEF Inv
<1>8. pairs' \subseteq TokenPair
  <2>1. task[s] \in Issuing
    BY <1>0 DEF Inv, TaskFits
  <2>2. [user |-> task[s].user, role |-> task[s].role, at |-> clock] \in TokenPair
    BY <2>1 DEF Issuing, TokenPair, Inv
  <2>. QED
    BY <2>2 DEF Issue, Inv
<1>. QED
  BY <1>0, <1>2, <1>3, <1>4, <1>5, <1>6, <1>7, <1>8 DEF Inv, StoreOK

LEMMA QuietKeeps ==
  ASSUME Inv, UNCHANGED storeVars, clock' \in Times, pairs' \subseteq TokenPair,
         DOMAIN task' = Sessions, \A s \in Sessions : TaskFits(pc[s], task'[s]),
         \A s \in Sessions : pc[s] = "slug" => task'[s].user = task[s].user
  PROVE  Inv'
<1>1. StoreGood(Tabled, Columns)' /\ Undeleted' /\ Unique(Clashes)'
  BY QuietGood DEF Inv, StoreOK
<1>2. Based(ActiveFrom)' /\ Whole(Loadable)'
  BY QuietBased, QuietWhole DEF Inv, StoreOK, storeVars
<1>3. Reserved'
  BY ReservedKept DEF Fresh, storeVars
<1>. QED
  BY <1>1, <1>2, <1>3 DEF Inv, StoreOK, storeVars

LEMMA AccountStep == Inv /\ [Next]_vars => Inv'
<1>. SUFFICES ASSUME Inv, [Next]_vars PROVE Inv'
  OBVIOUS
<1>1. ASSUME NEW s \in Sessions, Staging(s) PROVE Inv'
  BY <1>1, StagingBrings, BringsKeeps
<1>2. ASSUME NEW s \in Sessions, Issue(s) \/ Insert(s) \/ Commit(s) \/ \E i \in Ids : Save(s, i)
      PROVE  Inv'
  BY <1>2, IssueKeeps, InsertKeeps, CommitKeeps, SaveKeeps
<1>3. ASSUME NEW s \in Sessions, RefuseSlug(s) \/ JobReturns(s) \/ Fail(s) PROVE Inv'
  <2>1. Rollback(s) /\ task' = [task EXCEPT ![s] = NoTask] /\ UNCHANGED accountVars
    BY <1>3 DEF RefuseSlug, JobReturns, Fail, Abort
  <2>2. DOMAIN task' = Sessions /\ task'[s] = NoTask /\ \A v \in Sessions \ {s} : task'[v] = task[v]
    BY <2>1 DEF Inv
  <2>. QED
    BY <2>1, <2>2, RollbackKeeps
<1>4. ASSUME NEW s \in Sessions, RefuseInsert(s) PROVE Inv'
  <2>1. Rollback(s) /\ task' = task /\ pc[s] = "insert" /\ UNCHANGED accountVars
    BY <1>4 DEF RefuseInsert, InsertRefused
  <2>2. DOMAIN task' = Sessions /\ task'[s] = NoTask
    BY <2>1 DEF Inv, TaskFits
  <2>. QED
    BY <2>1, <2>2, RollbackKeeps
<1>5. ASSUME NEW s \in Sessions, NextSlug(s) PROVE Inv'
  <2>1. /\ pc[s] = "slug" /\ task[s].attempt < Len(Candidates[task[s].name])
        /\ task' = [task EXCEPT ![s].attempt = task[s].attempt + 1]
        /\ UNCHANGED <<storeVars, clock, pairs>>
    BY <1>5 DEF NextSlug, accountVars
  <2>2. task[s] \in Registering
    BY <2>1 DEF Inv, TaskFits
  <2>3. [task[s] EXCEPT !.attempt = task[s].attempt + 1] \in Registering
    BY <2>2 DEF Registering
  <2>4. /\ DOMAIN task' = Sessions /\ task'[s] = [task[s] EXCEPT !.attempt = task[s].attempt + 1]
        /\ \A v \in Sessions \ {s} : task'[v] = task[v]
    BY <2>1 DEF Inv
  <2>5. task'[s] \in Registering /\ task'[s].user = task[s].user /\ task'[s].name = task[s].name
        /\ task'[s].attempt = task[s].attempt + 1
    BY <2>2, <2>3, <2>4 DEF Registering
  <2>6. task'[s].attempt <= Len(Candidates[task'[s].name])
    <3>1. task[s].attempt \in Nat /\ Len(Candidates[task[s].name]) \in Nat
      BY <2>2, KeyAssumption DEF Registering
    <3>. QED
      BY <2>1, <2>5, <3>1
  <2>7. TaskFits("slug", task'[s])
    BY <2>5, <2>6 DEF TaskFits
  <2>. QED
    BY <2>1, <2>4, <2>5, <2>7, QuietKeeps DEF Inv
<1>6. CASE Tick \/ Finished \/ UNCHANGED vars
  <2>1. UNCHANGED <<storeVars, task>> /\ clock' \in Times /\ pairs' \subseteq TokenPair
    BY <1>6, KeyAssumption DEF Tick, Finished, vars, Inv, Times
  <2>. QED
    BY <2>1, QuietKeeps DEF Inv
<1>. QED
  BY <1>1, <1>2, <1>3, <1>4, <1>5, <1>6 DEF Next, Step, Staging

THEOREM AccountInvariant == Spec => []Inv
BY AccountInit, AccountStep, PTL DEF Spec

\* register_user.py:56-104: two registrations that both found an e-mail or a
\* public slug free never both commit; neither do two subscriptions of one owner.
THEOREM UniqueKeys == Spec => []KeysUnique
<1>1. Inv => KeysUnique
  <2>. SUFFICES ASSUME Inv PROVE KeysUnique
    OBVIOUS
  <2>1. ASSUME NEW i \in Ids, NEW j \in Ids, i # j, rows[i] # NoRow, rows[j] # NoRow
        PROVE  /\ rows[i] \in RowsOf(i) /\ rows[j] \in RowsOf(j)
               /\ <<rows[i], rows[j]>> \notin Clashes
    <3>1. rows[i] \in RowsOf(i) /\ rows[j] \in RowsOf(j)
      BY <2>1 DEF Inv, StoreOK, StoreGood, StoreTyped, Tabled
    <3>2. rows[i] \in Real(i) /\ rows[j] \in Real(j)
      BY <2>1, <3>1, KeyAssumption DEF Real
    <3>. QED
      BY <2>1, <3>1, <3>2 DEF Inv, StoreOK, Unique
  <2>2. ASSUME NEW u \in UserIds, NEW v \in UserIds, u # v, rows[u] # NoRow, rows[v] # NoRow
        PROVE  rows[u].email # rows[v].email /\ rows[u].slug \notin {rows[v].slug} \ {NoSlug}
    <3>1. rows[u] \in UserRow /\ rows[v] \in UserRow /\ <<rows[u], rows[v]>> \notin Clashes
      BY <2>1, <2>2, KeyAssumption DEF RowsOf
    <3>. QED
      BY <3>1 DEF Clashes, SameKey, UserRow
  <2>3. ASSUME NEW i \in SubIds, NEW j \in SubIds, i # j, rows[i] # NoRow, rows[j] # NoRow
        PROVE  rows[i].owner # rows[j].owner
    <3>1. rows[i] \in SubRow /\ rows[j] \in SubRow /\ <<rows[i], rows[j]>> \notin Clashes
      BY <2>1, <2>3, KeyAssumption DEF RowsOf
    <3>. QED
      BY <3>1 DEF Clashes, SameKey, SubRow
  <2>. QED
    BY <2>2, <2>3 DEF KeysUnique
<1>. QED
  BY <1>1, AccountInvariant, PTL

\* owner_subscription.py:30-38: whatever administrators, the job and registration
\* write, a stored subscription can be loaded unless two writes met in its row.
THEOREM AlwaysLoadable == Spec => []SubscriptionReadable
<1>1. Inv => SubscriptionReadable
  BY KeyAssumption DEF Inv, StoreOK, Whole, Loadable, SubscriptionReadable
<1>. QED
  BY <1>1, AccountInvariant, PTL

\* A deactivated account is active again only through a request that had loaded it
\* before and saves it after the deactivation, for any number of requests.
THEOREM StaysDeactivated == Spec => DeactivationIsFinal
<1>1. Inv /\ [Next]_vars =>
        [\A u \in UserIds : rows[u] # NoRow /\ ~rows[u].active =>
           ~rows'[u].active \/ u \in lost']_vars
  <2>. SUFFICES ASSUME Inv, [Next]_vars, NEW u \in UserIds, rows[u] # NoRow, ~rows[u].active
                PROVE  ~rows'[u].active \/ u \in lost'
    OBVIOUS
  <2>0. /\ StoreTyped(Tabled) /\ Tables(Tabled, Columns) /\ Based(ActiveFrom) /\ Undeleted
        /\ u \in Ids /\ rows[u] \in UserRow
    BY AccountTables, KeyAssumption DEF Inv, StoreOK, StoreGood, StoreTyped, Tabled, RowsOf
  <2>1. ASSUME NEW s \in Sessions, Commit(s) PROVE ~rows'[u].active \/ u \in lost'
    <3>1. \/ rows'[u] = rows[u] \/ rows'[u] = NoRow
          \/ <<rows[u], rows'[u]>> \in ActiveFrom \/ u \in lost'
      BY <2>0, <2>1, CommitReplaces DEF Commit
    <3>2. rows'[u] # NoRow
      BY <2>0, <2>1, RowStays DEF Commit
    <3>3. <<rows[u], rows'[u]>> \in ActiveFrom => ~rows'[u].active
      BY <2>0 DEF ActiveFrom, UserRow, SubRow
    <3>. QED
      BY <3>1, <3>2, <3>3
  <2>2. CASE \A s \in Sessions : ~Commit(s)
    <3>1. ASSUME NEW s \in Sessions, Staging(s) PROVE rows' = rows
      BY <3>1, StagingBrings DEF Brings, Stage
    <3>2. rows' = rows
      BY <2>2, <3>1 DEF Next, Step, Staging, vars, storeVars, Issue, NextSlug, RefuseSlug, Insert,
         RefuseInsert, InsertRefused, JobReturns, Save, Fail, SelectRow, WriteRow, InsertRows,
         Abort, Rollback, Tick, Finished
    <3>. QED
      BY <3>2
  <2>. QED
    BY <2>1, <2>2
<1>. QED
  BY <1>1, AccountInvariant, PTL DEF Spec, DeactivationIsFinal

(***************************************************************************)
(* Access.  Every pair of tokens repeats what its user was when it was     *)
(* issued, and nothing but a commit, at the time in changedAt, makes it    *)
(* wrong.                                                                  *)
(***************************************************************************)
AccessOK ==
  /\ changedAt \in [UserIds -> Times] /\ \A u \in UserIds : changedAt[u] <= clock
  /\ \A p \in pairs :
       /\ rows[p.user] # NoRow /\ p.at <= clock
       /\ \/ rows[p.user].active /\ rows[p.user].role = p.role
          \/ p.at <= changedAt[p.user]
  /\ \A s \in Sessions : pc[s] = "issue" =>
       /\ rows[task[s].user] # NoRow
       /\ \/ rows[task[s].user].active /\ rows[task[s].user].role = task[s].role
          \/ changedAt[task[s].user] = clock

\* What a step is, other than the commit, the issue of a pair and the clock: it
\* changes no row and no token, and a handler that goes on to issue a pair has
\* just read its user.
LEMMA OtherSteps ==
  ASSUME Inv, [Next]_vars, ~Tick, \A s \in Sessions : ~Commit(s) /\ ~Issue(s)
  PROVE  /\ rows' = rows /\ UNCHANGED accountVars
         /\ \A s \in Sessions : pc'[s] = "issue" =>
              \/ pc[s] = "issue" /\ task'[s] = task[s]
              \/ /\ rows[task'[s].user] # NoRow /\ rows[task'[s].user].active
                 /\ rows[task'[s].user].role = task'[s].role
<1>0. StoreTyped(Tabled) /\ DOMAIN pc = Sessions /\ DOMAIN task = Sessions
  BY DEF Inv, StoreOK, StoreGood
<1>1. ASSUME NEW s \in Sessions, Staging(s)
      PROVE  /\ rows' = rows /\ UNCHANGED accountVars
             /\ \A v \in Sessions : pc'[v] = "issue" =>
                  \/ pc[v] = "issue" /\ task'[v] = task[v]
                  \/ /\ rows[task'[v].user] # NoRow /\ rows[task'[v].user].active
                     /\ rows[task'[v].user].role = task'[v].role
  <2>1. PICK entities, next, t : Brings(s, entities, next, t)
    BY <1>1, StagingBrings
  <2>2. /\ pc' = [pc EXCEPT ![s] = next] /\ task'[s] = t
        /\ \A v \in Sessions \ {s} : task'[v] = task[v]
        /\ next = "issue" =>
             rows[t.user] # NoRow /\ rows[t.user].active /\ rows[t.user].role = t.role
        /\ rows' = rows /\ UNCHANGED accountVars
    BY <2>1 DEF Brings, Stage
  <2>. QED
    BY <1>0, <2>2
<1>2. ASSUME NEW s \in Sessions, RefuseSlug(s) \/ JobReturns(s) \/ Fail(s) \/ RefuseInsert(s)
      PROVE  /\ rows' = rows /\ UNCHANGED accountVars
             /\ \A v \in Sessions : pc'[v] = "issue" => pc[v] = "issue" /\ task'[v] = task[v]
  <2>1. Rollback(s) /\ (task' = [task EXCEPT ![s] = NoTask] \/ task' = task) /\ UNCHANGED accountVars
    BY <1>2 DEF RefuseSlug, JobReturns, Fail, Abort, RefuseInsert, InsertRefused
  <2>2. rows' = rows /\ pc' = [pc EXCEPT ![s] = "idle"]
    BY <2>1 DEF Rollback, Close
  <2>. QED
    BY <1>0, <2>1, <2>2
<1>3. ASSUME NEW s \in Sessions, Insert(s) \/ NextSlug(s) \/ \E i \in Ids : Save(s, i)
      PROVE  /\ rows' = rows /\ UNCHANGED accountVars
             /\ \A v \in Sessions : pc'[v] = "issue" => pc[v] = "issue" /\ task'[v] = task[v]
  <2>1. CASE Insert(s)
    <3>1. rows' = rows /\ pc' = [pc EXCEPT ![s] = "save"] /\ task' = task /\ UNCHANGED accountVars
      BY <2>1 DEF Insert, InsertRows
    <3>. QED
      BY <1>0, <3>1
  <2>2. CASE NextSlug(s)
    <3>1. /\ rows' = rows /\ pc' = pc /\ UNCHANGED accountVars /\ pc[s] = "slug"
          /\ \A v \in Sessions \ {s} : task'[v] = task[v]
      BY <1>0, <2>2 DEF NextSlug, storeVars
    <3>. QED
      BY <3>1
  <2>3. CASE \E i \in Ids : Save(s, i)
    BY <2>3 DEF Save, SelectRow, WriteRow
  <2>. QED
    BY <1>3, <2>1, <2>2, <2>3
<1>4. CASE Finished \/ UNCHANGED vars
  BY <1>4 DEF Finished, vars, storeVars, accountVars
<1>. QED
  BY <1>1, <1>2, <1>3, <1>4 DEF Next, Step, Staging

LEMMA CommitOfUsers ==
  ASSUME Inv, NEW s \in Sessions, Commit(s)
  PROVE  /\ \A i \in Ids : rows[i] # NoRow => rows'[i] # NoRow
         /\ \A i \in Ids : draft[s][i] = NoRow => rows'[i] = rows[i]
         /\ \A i \in Ids : draft[s][i] # NoRow => rows'[i] = draft[s][i]
         /\ \A v \in Sessions : pc'[v] = IF v = s THEN "idle" ELSE pc[v]
         /\ DOMAIN task' = Sessions /\ task'[s] = NoTask
         /\ \A v \in Sessions \ {s} : task'[v] = task[v]
         /\ pc[s] = "save" /\ \A i \in Ids : staged[s][i] = NoRow
<1>0. /\ StoreTyped(Tabled) /\ Tables(Tabled, Columns) /\ Undeleted /\ CommitRows(s) /\ Close(s)
      /\ DOMAIN task = Sessions
  BY AccountTables DEF Inv, StoreOK, StoreGood, Commit, CommitRows
<1>1. \A i \in Ids : rows[i] # NoRow => rows'[i] # NoRow
  BY <1>0, RowStays
<1>2. \A i \in Ids : draft[s][i] # Gone
  BY <1>0 DEF Undeleted
<1>3. /\ \A i \in Ids : draft[s][i] = NoRow => rows'[i] = rows[i]
      /\ \A i \in Ids : draft[s][i] # NoRow => rows'[i] = draft[s][i]
  BY <1>0, <1>2, CommitRowsChanges
<1>4. \A v \in Sessions : pc'[v] = IF v = s THEN "idle" ELSE pc[v]
  BY <1>0, ClosedSession
<1>5. DOMAIN task' = Sessions /\ task'[s] = NoTask /\ \A v \in Sessions \ {s} : task'[v] = task[v]
  BY <1>0 DEF Commit
<1>6. pc[s] = "save" /\ \A i \in Ids : staged[s][i] = NoRow
  BY <1>0, NothingTyped DEF CommitRows, Saved
<1>. QED
  BY <1>1, <1>3, <1>4, <1>5, <1>6

LEMMA AccessInit == Init => AccessOK
<1>. SUFFICES ASSUME Init PROVE AccessOK
  OBVIOUS
<1>1. clock = 0 /\ 0 \in Times /\ changedAt = [u \in UserIds |-> 0]
  BY KeyAssumption DEF Init, Times
<1>2. \A p \in pairs : /\ p.at = 0 /\ rows[p.user] # NoRow
                        /\ rows[p.user].active /\ rows[p.user].role = p.role
  BY SeedAssumption DEF Init
<1>3. \A s \in Sessions : pc[s] # "issue"
  BY DEF Init, StoreInit
<1>. QED
  BY <1>1, <1>2, <1>3 DEF AccessOK

LEMMA AccessCommit ==
  ASSUME Inv, AccessOK, NEW s \in Sessions, Commit(s)
  PROVE  AccessOK'
<1>1. /\ \A u \in UserIds : changedAt'[u] \in {clock, changedAt[u]}
      /\ \A u \in UserIds : rows[u] # NoRow /\ changedAt'[u] # clock =>
           rows'[u].role = rows[u].role /\ rows'[u].active = rows[u].active
      /\ changedAt' \in [UserIds -> Times] /\ clock' = clock /\ pairs' = pairs
  <2>1. changedAt' = [u \in UserIds |->
          IF rows[u] # NoRow /\ <<rows'[u].role, rows'[u].active>> # <<rows[u].role, rows[u].active>>
          THEN clock ELSE changedAt[u]]
    BY DEF Commit
  <2>. QED
    BY <2>1 DEF Commit, AccessOK, Inv
<1>2. \A u \in UserIds : rows[u] # NoRow => rows'[u] # NoRow
  BY CommitOfUsers, KeyAssumption
<1>3. \A v \in Sessions : pc'[v] = "issue" => pc[v] = "issue" /\ task'[v] = task[v]
  BY CommitOfUsers
<1>4. \A v \in Sessions : pc[v] = "issue" => task[v].user \in UserIds
  BY DEF Inv, TaskFits, Issuing
<1>5. \A p \in pairs : p.user \in UserIds
  BY DEF Inv, TokenPair
<1>6. ASSUME NEW p \in pairs
      PROVE  /\ rows'[p.user] # NoRow
             /\ \/ rows'[p.user].active /\ rows'[p.user].role = p.role
                \/ p.at <= changedAt'[p.user]
  <2>1. CASE changedAt'[p.user] = clock
    BY <1>2, <1>5, <2>1 DEF AccessOK
  <2>2. CASE changedAt'[p.user] # clock
    BY <1>1, <1>2, <1>5, <2>2 DEF AccessOK
  <2>. QED
    BY <2>1, <2>2
<1>7. ASSUME NEW v \in Sessions, pc'[v] = "issue"
      PROVE  /\ rows'[task'[v].user] # NoRow
             /\ \/ rows'[task'[v].user].active /\ rows'[task'[v].user].role = task'[v].role
                \/ changedAt'[task'[v].user] = clock
  BY <1>1, <1>2, <1>3, <1>4, <1>7 DEF AccessOK
<1>8. \A u \in UserIds : changedAt'[u] <= clock
  BY <1>1 DEF AccessOK, Inv, Times
<1>. QED
  BY <1>1, <1>6, <1>7, <1>8 DEF AccessOK

LEMMA AccessIssue ==
  ASSUME Inv, AccessOK, NEW s \in Sessions, Issue(s)
  PROVE  AccessOK'
<1>1. /\ \A v \in Sessions : pc'[v] = IF v = s THEN "save" ELSE pc[v]
      /\ UNCHANGED <<rows, clock, task, changedAt>> /\ pc[s] = "issue"
  BY DEF Issue, Inv
<1>2. PICK new : new = [user |-> task[s].user, role |-> task[s].role, at |-> clock]
  OBVIOUS
<1>3. /\ pairs' = pairs \cup {new} /\ new.user = task[s].user /\ new.role = task[s].role
      /\ new.at = clock
  BY <1>2 DEF Issue
<1>4. /\ rows[new.user] # NoRow /\ new.at <= clock
      /\ \/ rows[new.user].active /\ rows[new.user].role = new.role
         \/ new.at <= changedAt[new.user]
  BY <1>1, <1>3 DEF AccessOK, Inv, Times
<1>. QED
  BY <1>1, <1>3, <1>4 DEF AccessOK

LEMMA AccessStep == Inv /\ AccessOK /\ [Next]_vars => AccessOK'
<1>. SUFFICES ASSUME Inv, AccessOK, [Next]_vars PROVE AccessOK'
  OBVIOUS
<1>1. CASE Tick
  <2>1. /\ clock \in Nat /\ clock' = clock + 1 /\ pairs' \subseteq pairs
        /\ UNCHANGED <<rows, pc, task, changedAt>> /\ \A s \in Sessions : pc[s] # "issue"
    BY <1>1, KeyAssumption DEF Tick, storeVars, Inv, Times
  <2>2. \A u \in UserIds : changedAt[u] \in Nat /\ changedAt[u] <= clock + 1
    BY <2>1, KeyAssumption DEF AccessOK, Times
  <2>3. \A p \in pairs : p.at \in Nat /\ p.at <= clock + 1
    BY <2>1, KeyAssumption DEF AccessOK, Inv, TokenPair, Times
  <2>. QED
    BY <2>1, <2>2, <2>3 DEF AccessOK
<1>2. ASSUME NEW s \in Sessions, Commit(s) \/ Issue(s) PROVE AccessOK'
  BY <1>2, AccessCommit, AccessIssue
<1>3. CASE ~Tick /\ \A s \in Sessions : ~Commit(s) /\ ~Issue(s)
  <2>1. /\ rows' = rows /\ UNCHANGED accountVars
        /\ \A s \in Sessions : pc'[s] = "issue" =>
             \/ pc[s] = "issue" /\ task'[s] = task[s]
             \/ /\ rows[task'[s].user] # NoRow /\ rows[task'[s].user].active
                /\ rows[task'[s].user].role = task'[s].role
    BY <1>3, OtherSteps
  <2>. QED
    BY <2>1 DEF AccessOK, accountVars
<1>. QED
  BY <1>1, <1>2, <1>3

\* deps.py:53-77, refresh_token.py:37-48: whatever administrators do, and however
\* often a token is refreshed, nobody has access with an old role, or with an
\* account deactivated meanwhile, for longer than one access token lives.
THEOREM OldAccessEnds == Spec => []AccessEnds
<1>1. Inv /\ AccessOK => AccessEnds
  BY KeyAssumption DEF Inv, AccessOK, AccessEnds, AccessValid, Times, TokenPair
<1>2. Spec => []AccessOK
  BY AccessInit, AccessStep, AccountInvariant, PTL DEF Spec
<1>. QED
  BY <1>1, <1>2, AccountInvariant, PTL

(***************************************************************************)
(* What a handler has in memory and in its transaction: a new owner comes  *)
(* whole, and a subscription changes together with the task that announces *)
(* its new status.                                                         *)
(***************************************************************************)
OwnerIn(entities, u) ==
  entities[u].role = "owner" => entities[u].slug # NoSlug /\ entities[SubOf[u]] # NoRow

Holding(s) ==
  /\ \A u \in UserIds :
       /\ pc[s] = "insert" /\ staged[s][u] # NoRow => OwnerIn(staged[s], u)
       /\ rows[u] = NoRow /\ draft[s][u] # NoRow => OwnerIn(draft[s], u)
  /\ \A i \in SubIds :
       /\ staged[s][i] # NoRow =>
            IF pc[s] = "insert" THEN staged[s][i].status = "TRIALING"
            ELSE \/ task[s] = Job
                 \/ task[s] \in Announcing /\ task[s].sub = i /\ staged[s][i].status = task[s].status
       /\ draft[s][i] # NoRow =>
            IF rows[i] = NoRow THEN draft[s][i].status = "TRIALING"
            ELSE \/ task[s] = Job
                 \/ /\ task[s] \in Announcing /\ task[s].sub = i
                    /\ draft[s][i].status = task[s].status \/ i \in mixed[s]
  /\ task[s] \in Announcing =>
       /\ rows[task[s].sub] # NoRow
       /\ staged[s][task[s].sub] # NoRow \/ draft[s][task[s].sub] # NoRow

Told ==
  /\ told \in [SubIds -> SubStatuses]
  /\ \A i \in SubIds : rows[i] = NoRow => told[i] = "TRIALING"
  /\ NoticeMatchesStatus

Promises == OwnersComplete /\ Told /\ \A s \in Sessions : Holding(s)

Same(v) ==
  /\ pc'[v] = pc[v] /\ staged'[v] = staged[v] /\ draft'[v] = draft[v] /\ mixed'[v] = mixed[v]
  /\ task'[v] = task[v]

LEMMA OthersHold ==
  ASSUME Inv, NEW v \in Sessions, Holding(v), Same(v),
         \A i \in Ids : /\ draft[v][i] # NoRow => rows'[i] = rows[i]
                        /\ rows[i] # NoRow => rows'[i] # NoRow
  PROVE  Holding(v)'
<1>0. UserIds \subseteq Ids /\ SubIds \subseteq Ids /\ \A u \in UserIds : SubOf[u] \in Ids
  BY KeyAssumption
<1>1. /\ pc'[v] = pc[v] /\ staged'[v] = staged[v] /\ draft'[v] = draft[v] /\ mixed'[v] = mixed[v]
      /\ task'[v] = task[v]
  BY DEF Same
<1>2. ASSUME NEW u \in UserIds
      PROVE  /\ pc'[v] = "insert" /\ staged'[v][u] # NoRow => OwnerIn(staged'[v], u)
             /\ rows'[u] = NoRow /\ draft'[v][u] # NoRow => OwnerIn(draft'[v], u)
  BY <1>0, <1>1 DEF Holding
<1>3. ASSUME NEW i \in SubIds
      PROVE  /\ staged'[v][i] # NoRow =>
                  IF pc'[v] = "insert" THEN staged'[v][i].status = "TRIALING"
                  ELSE \/ task'[v] = Job
                       \/ /\ task'[v] \in Announcing /\ task'[v].sub = i
                          /\ staged'[v][i].status = task'[v].status
             /\ draft'[v][i] # NoRow =>
                  IF rows'[i] = NoRow THEN draft'[v][i].status = "TRIALING"
                  ELSE \/ task'[v] = Job
                       \/ /\ task'[v] \in Announcing /\ task'[v].sub = i
                          /\ draft'[v][i].status = task'[v].status \/ i \in mixed'[v]
  BY <1>0, <1>1 DEF Holding
<1>4. task'[v] \in Announcing =>
        /\ rows'[task'[v].sub] # NoRow
        /\ staged'[v][task'[v].sub] # NoRow \/ draft'[v][task'[v].sub] # NoRow
  BY <1>0, <1>1 DEF Holding, Announcing
<1>. QED
  BY <1>2, <1>3, <1>4 DEF Holding, OwnerIn

LEMMA PromisesInit == Init => Promises
<1>. SUFFICES ASSUME Init PROVE Promises
  OBVIOUS
<1>1. \A s \in Sessions, i \in Ids : staged[s][i] = NoRow /\ draft[s][i] = NoRow
  BY NothingTyped DEF Init, StoreInit
<1>2. \A s \in Sessions : task[s] = NoTask
  BY DEF Init
<1>3. \A s \in Sessions : Holding(s)
  <2>1. UserIds \subseteq Ids /\ SubIds \subseteq Ids
    BY KeyAssumption
  <2>2. NoTask \notin Announcing
    BY DEF NoTask, Announcing
  <2>. QED
    BY <1>1, <1>2, <2>1, <2>2 DEF Holding
<1>4. told = [i \in SubIds |-> IF rows[i] = NoRow THEN "TRIALING" ELSE rows[i].status]
  BY DEF Init
<1>5. \A i \in SubIds : rows[i] # NoRow => rows[i] \in SubRow
  BY SeedAssumption, KeyAssumption DEF Init, RowsOf
<1>6. Told
  BY <1>4, <1>5 DEF Told, NoticeMatchesStatus, SubRow, SubStatuses
<1>7. OwnersComplete
  BY SeedAssumption DEF Init, OwnersComplete
<1>. QED
  BY <1>3, <1>6, <1>7 DEF Promises

\* A step that commits nothing.
LEMMA PromisesKept ==
  ASSUME Inv, Promises, rows' = rows, UNCHANGED accountVars \/ UNCHANGED <<told, promoted>>, torn' = torn,
         NEW s \in Sessions, Holding(s)', \A v \in Sessions \ {s} : Same(v)
  PROVE  Promises'
<1>1. UNCHANGED <<told, promoted>>
  BY DEF accountVars
<1>2. \A v \in Sessions \ {s} : Holding(v)'
  BY OthersHold DEF Promises
<1>3. OwnersComplete' /\ Told'
  BY <1>1 DEF Promises, OwnersComplete, Told, NoticeMatchesStatus
<1>. QED
  BY <1>2, <1>3 DEF Promises

LEMMA PromisesBrings ==
  ASSUME Inv, Promises, NEW s \in Sessions, NEW entities, NEW next, NEW t, Brings(s, entities, next, t)
  PROVE  Promises'
<1>0. StoreTyped(Tabled) /\ StoreInv /\ UserIds \subseteq Ids /\ SubIds \subseteq Ids
      /\ pc[s] \in {"idle", "slug"}
  BY KeyAssumption DEF Inv, StoreOK, StoreGood, Brings
<1>1. /\ pc'[s] = next /\ staged'[s] = entities /\ draft' = draft /\ rows' = rows /\ torn' = torn
      /\ task'[s] = t /\ UNCHANGED accountVars
      /\ \A v \in Sessions \ {s} : Same(v)
  BY <1>0 DEF Brings, Stage, StoreTyped, Same
<1>2. \A i \in Ids : draft'[s][i] = NoRow
  BY <1>0, <1>1 DEF StoreInv, Writing
<1>3. CASE next = "insert"
  <2>1. t = NoTask /\ t \notin Announcing
    BY <1>3 DEF Brings, TaskFits, Announcing, NoTask
  <2>2. NewRows(s, entities)
    BY <1>3 DEF Brings
  <2>3. \A u \in UserIds : staged'[s][u] # NoRow => OwnerIn(staged'[s], u)
    BY <1>1, <2>2 DEF NewRows, OwnerIn
  <2>4. \A i \in SubIds : staged'[s][i] # NoRow => staged'[s][i].status = "TRIALING"
    BY <1>1, <2>2 DEF NewRows
  <2>5. Holding(s)'
    BY <1>0, <1>1, <1>2, <1>3, <2>1, <2>3, <2>4 DEF Holding, OwnerIn
  <2>. QED
    BY <1>1, <2>5, PromisesKept
<1>4. CASE next # "insert"
  <2>1. ChangedRows(entities, t)
    BY <1>4 DEF Brings
  <2>2. \A i \in SubIds : staged'[s][i] # NoRow =>
          t = Job \/ (t \in Announcing /\ t.sub = i /\ staged'[s][i].status = t.status)
    BY <1>1, <2>1 DEF ChangedRows
  <2>3. t \in Announcing => staged'[s][t.sub] # NoRow /\ rows'[t.sub] # NoRow
    BY <1>0, <1>1, <2>1 DEF ChangedRows, Announcing
  <2>4. Holding(s)'
    BY <1>0, <1>1, <1>2, <1>4, <2>2, <2>3 DEF Holding, OwnerIn
  <2>. QED
    BY <1>1, <2>4, PromisesKept
<1>. QED
  BY <1>3, <1>4

LEMMA PromisesRollback ==
  ASSUME Inv, Promises, NEW s \in Sessions, Rollback(s), task'[s] = NoTask,
         \A v \in Sessions \ {s} : task'[v] = task[v], UNCHANGED accountVars
  PROVE  Promises'
<1>0. StoreTyped(Tabled) /\ Close(s) /\ rows' = rows /\ torn' = torn
  BY DEF Inv, StoreOK, StoreGood, Rollback
<1>1. \A i \in Ids : staged'[s][i] = NoRow /\ draft'[s][i] = NoRow
  BY <1>0, ClosedSession
<1>2. Holding(s)'
  BY <1>1, KeyAssumption DEF Holding, Announcing, NoTask
<1>3. \A v \in Sessions \ {s} : Same(v)
  BY <1>0 DEF Close, StoreTyped, Same
<1>. QED
  BY <1>0, <1>2, <1>3, PromisesKept

LEMMA PromisesInsert ==
  ASSUME Inv, Promises, NEW s \in Sessions, Insert(s)
  PROVE  Promises'
<1>0. StoreTyped(Tabled) /\ StoreInv /\ InsertRows(s) /\ UNCHANGED <<accountVars, task>>
      /\ UserIds \subseteq Ids /\ SubIds \subseteq Ids
  BY KeyAssumption DEF Inv, StoreOK, StoreGood, Insert
<1>1. /\ pc[s] = "insert" /\ pc'[s] = "save" /\ draft'[s] = staged[s] /\ staged'[s] = Nothing
      /\ rows' = rows /\ torn' = torn /\ task' = task
      /\ \A v \in Sessions \ {s} : Same(v)
  BY <1>0 DEF InsertRows, StoreTyped, Same
<1>2. \A i \in Ids : staged'[s][i] = NoRow /\ (draft'[s][i] # NoRow => rows'[i] = NoRow)
  BY <1>0, <1>1, NothingTyped DEF StoreInv
<1>3. task[s] \notin Announcing
  BY <1>1 DEF Inv, TaskFits, Announcing, NoTask
<1>4. \A u \in UserIds : draft'[s][u] # NoRow => OwnerIn(draft'[s], u)
  BY <1>1 DEF Promises, Holding
<1>5. \A i \in SubIds : draft'[s][i] # NoRow => draft'[s][i].status = "TRIALING"
  BY <1>1 DEF Promises, Holding
<1>6. Holding(s)'
  BY <1>0, <1>1, <1>2, <1>3, <1>4, <1>5 DEF Holding, OwnerIn
<1>. QED
  BY <1>0, <1>1, <1>6, PromisesKept

LEMMA PromisesWrite ==
  ASSUME Inv, Promises, NEW s \in Sessions, NEW i \in Ids, WriteRow(s, i),
         UNCHANGED <<accountVars, task>>
  PROVE  Promises'
<1>0. StoreTyped(Tabled) /\ StoreInv /\ UserIds \subseteq Ids /\ SubIds \subseteq Ids
      /\ \A u \in UserIds : SubOf[u] \in SubIds
  BY KeyAssumption DEF Inv, StoreOK, StoreGood
<1>1. PICK version : version = Written(staged[s][i], seen[s][i], View(s, i))
  OBVIOUS
<1>2. /\ pc[s] = "save" /\ pc' = pc /\ rows' = rows /\ torn' = torn /\ staged[s][i] # NoRow
      /\ draft'[s] = [draft[s] EXCEPT ![i] = version]
      /\ staged'[s] = [staged[s] EXCEPT ![i] = NoRow]
      /\ mixed'[s] = (IF version = staged[s][i] THEN mixed[s] ELSE mixed[s] \cup {i})
      /\ \A v \in Sessions \ {s} : Same(v)
  BY <1>0, <1>1 DEF WriteRow, Unsaved, StoreTyped, Same
<1>3. /\ \A j \in Ids : draft'[s][j] = IF j = i THEN version ELSE draft[s][j]
      /\ \A j \in Ids : staged'[s][j] = IF j = i THEN NoRow ELSE staged[s][j]
  BY <1>0, <1>2 DEF StoreTyped
<1>4. version # NoRow
  <2>1. StoreGood(Tabled, Columns) /\ Tables(Tabled, Columns)
    BY AccountTables DEF Inv, StoreOK
  <2>2. version \in Tabled[i]
    BY <1>1, <2>1, WrittenFixed
  <2>. QED
    BY <2>2, KeyAssumption DEF Tabled
<1>5. rows[i] # NoRow
  BY <1>2 DEF Inv, StoreOK
<1>6. \A u \in UserIds : rows'[u] = NoRow /\ draft'[s][u] # NoRow => OwnerIn(draft'[s], u)
  <2>1. ASSUME NEW u \in UserIds, rows'[u] = NoRow, draft'[s][u] # NoRow PROVE OwnerIn(draft'[s], u)
    <3>1. u # i /\ draft'[s][u] = draft[s][u] /\ draft[s][u] # NoRow /\ rows[u] = NoRow
      BY <1>0, <1>2, <1>3, <1>5, <2>1
    <3>2. OwnerIn(draft[s], u)
      BY <3>1 DEF Promises, Holding
    <3>3. draft[s][SubOf[u]] # NoRow => draft'[s][SubOf[u]] # NoRow
      BY <1>0, <1>3, <1>4
    <3>. QED
      BY <3>1, <3>2, <3>3 DEF OwnerIn
  <2>. QED
    BY <2>1
<1>7. \A j \in SubIds : staged'[s][j] # NoRow =>
        \/ task[s] = Job
        \/ task[s] \in Announcing /\ task[s].sub = j /\ staged'[s][j].status = task[s].status
  BY <1>0, <1>2, <1>3 DEF Promises, Holding
<1>8. \A j \in SubIds : draft'[s][j] # NoRow =>
        IF rows[j] = NoRow THEN draft'[s][j].status = "TRIALING"
        ELSE \/ task[s] = Job
             \/ /\ task[s] \in Announcing /\ task[s].sub = j
                /\ draft'[s][j].status = task[s].status \/ j \in mixed'[s]
  <2>1. ASSUME NEW j \in SubIds, j # i, draft'[s][j] # NoRow
        PROVE  IF rows[j] = NoRow THEN draft'[s][j].status = "TRIALING"
               ELSE \/ task[s] = Job
                    \/ /\ task[s] \in Announcing /\ task[s].sub = j
                       /\ draft'[s][j].status = task[s].status \/ j \in mixed'[s]
    BY <1>0, <1>2, <1>3, <2>1 DEF Promises, Holding
  <2>2. ASSUME i \in SubIds
        PROVE  \/ task[s] = Job
               \/ /\ task[s] \in Announcing /\ task[s].sub = i
                  /\ draft'[s][i].status = task[s].status \/ i \in mixed'[s]
    <3>1. \/ task[s] = Job
          \/ task[s] \in Announcing /\ task[s].sub = i /\ staged[s][i].status = task[s].status
      BY <1>2, <2>2 DEF Promises, Holding
    <3>2. draft'[s][i] = staged[s][i] \/ i \in mixed'[s]
      BY <1>2, <1>3
    <3>. QED
      BY <3>1, <3>2
  <2>. QED
    BY <1>5, <2>1, <2>2
<1>9. task[s] \in Announcing =>
        /\ rows[task[s].sub] # NoRow
        /\ staged'[s][task[s].sub] # NoRow \/ draft'[s][task[s].sub] # NoRow
  BY <1>0, <1>3, <1>4 DEF Promises, Holding, Announcing
<1>10. Holding(s)'
  BY <1>2, <1>6, <1>7, <1>8, <1>9 DEF Holding, OwnerIn
<1>. QED
  BY <1>2, <1>10, PromisesKept DEF Same

LEMMA PromisesCommit ==
  ASSUME Inv, Promises, NEW s \in Sessions, Commit(s)
  PROVE  Promises'
<1>0. /\ StoreTyped(Tabled) /\ StoreInv /\ StoreGood(Tabled, Columns) /\ StoreGood(Tabled, Columns)'
      /\ UserIds \subseteq Ids /\ SubIds \subseteq Ids /\ \A u \in UserIds : SubOf[u] \in SubIds
  BY CommitKeeps, KeyAssumption DEF Inv, StoreOK, StoreGood
<1>1. /\ \A i \in Ids : rows[i] # NoRow => rows'[i] # NoRow
      /\ \A i \in Ids : draft[s][i] = NoRow => rows'[i] = rows[i]
      /\ \A i \in Ids : draft[s][i] # NoRow => rows'[i] = draft[s][i]
      /\ task'[s] = NoTask /\ \A v \in Sessions \ {s} : task'[v] = task[v]
      /\ pc[s] = "save" /\ \A i \in Ids : staged[s][i] = NoRow
  BY CommitOfUsers
<1>2. /\ \A v \in Sessions \ {s} : Same(v)
      /\ \A i \in Ids : staged'[s][i] = NoRow /\ draft'[s][i] = NoRow
  <2>1. Close(s)
    BY DEF Commit, CommitRows
  <2>2. \A i \in Ids : staged'[s][i] = NoRow /\ draft'[s][i] = NoRow
    BY <1>0, <2>1, ClosedSession
  <2>3. \A v \in Sessions \ {s} : Same(v)
    <3>1. StoreTyped(Tabled) /\ \A v \in Sessions \ {s} : task'[v] = task[v]
      BY <1>0, <1>1
    <3>. QED
      BY <2>1, <3>1 DEF Close, StoreTyped, Same
  <2>. QED
    BY <2>2, <2>3
<1>3. ASSUME NEW v \in Sessions PROVE Holding(v)'
  <2>1. CASE v = s
    <3>1. NoTask \notin Announcing
      BY DEF NoTask, Announcing
    <3>. QED
      BY <1>0, <1>1, <1>2, <2>1, <3>1 DEF Holding
  <2>2. CASE v # s
    <3>1. \A i \in Ids : draft[v][i] # NoRow => draft[s][i] = NoRow
      BY <1>0, <2>2 DEF StoreInv
    <3>. QED
      BY <1>1, <1>2, <2>2, <3>1, OthersHold DEF Promises
  <2>. QED
    BY <2>1, <2>2
<1>4. OwnersComplete'
  <2>1. promoted' = promoted \cup {u \in UserIds : rows[u] # NoRow /\ rows'[u].role # rows[u].role}
    BY DEF Commit
  <2>2. ASSUME NEW u \in UserIds, rows'[u] # NoRow, rows'[u].role = "owner", u \notin promoted'
        PROVE  rows'[u].slug # NoSlug /\ rows'[SubOf[u]] # NoRow
    <3>1. CASE rows[u] = NoRow
      <4>1. rows'[u] = draft[s][u] /\ draft[s][u] # NoRow
        BY <1>0, <1>1, <2>2, <3>1
      <4>2. draft[s][u].slug # NoSlug /\ draft[s][SubOf[u]] # NoRow
        BY <2>2, <3>1, <4>1 DEF Promises, Holding, OwnerIn
      <4>. QED
        BY <1>0, <1>1, <4>1, <4>2
    <3>2. CASE rows[u] # NoRow
      <4>1. rows[u].slug # NoSlug /\ rows[SubOf[u]] # NoRow
        BY <2>1, <2>2, <3>2 DEF Promises, OwnersComplete
      <4>2. rows'[u].slug = rows[u].slug
        <5>1. CASE draft[s][u] = NoRow
          BY <1>0, <1>1, <5>1
        <5>2. CASE draft[s][u] # NoRow
          <6>1. rows'[u] = draft[s][u] /\ draft[s][u] # Gone
            BY <1>0, <1>1, <5>2 DEF Inv, StoreOK, Undeleted
          <6>2. rows[u] # Gone
            <7>1. u \in Ids /\ rows[u] \in RowsOf(u) \cup {NoRow}
              BY <1>0 DEF StoreTyped, Tabled
            <7>. QED
              BY <7>1, KeyAssumption
          <6>3. draft[s][u] \in Versions(u) /\ rows[u] \in Versions(u)
            BY <3>2, <5>2, <6>1, <6>2 DEF Versions
          <6>4. "slug" \in Columns[u]
            BY <1>0 DEF Columns
          <6>. QED
            BY <1>0, <6>1, <6>3, <6>4 DEF StoreGood, Fixed
        <5>. QED
          BY <5>1, <5>2
      <4>. QED
        BY <1>0, <1>1, <4>1, <4>2
    <3>. QED
      BY <3>1, <3>2
  <2>. QED
    BY <2>2 DEF OwnersComplete
<1>5. Told'
  <2>0. told' = Announced(s) /\ torn' = torn \cup mixed[s] /\ task[s] # Job
    BY DEF Commit, CommitRows, Job
  <2>1. task[s].kind = "status" <=> task[s] \in Announcing
    BY <1>1 DEF Inv, TaskFits, NoTask, Job, Issuing, Announcing
  <2>2. \A i \in SubIds : told'[i] = IF task[s] \in Announcing /\ task[s].sub = i
                                    THEN task[s].status ELSE told[i]
    BY <2>0, <2>1 DEF Announced, Promises, Told
  <2>3. told' \in [SubIds -> SubStatuses]
    BY <2>0, <2>1 DEF Announced, Promises, Told, Announcing
  <2>4. ASSUME NEW i \in SubIds, rows'[i] = NoRow PROVE told'[i] = "TRIALING"
    <3>1. rows[i] = NoRow
      BY <1>0, <1>1, <2>4
    <3>2. ~(task[s] \in Announcing /\ task[s].sub = i)
      BY <3>1 DEF Promises, Holding
    <3>. QED
      BY <2>2, <3>1, <3>2 DEF Promises, Told
  <2>5. ASSUME NEW i \in SubIds, rows'[i] # NoRow, i \notin torn' PROVE told'[i] = rows'[i].status
    <3>1. CASE draft[s][i] = NoRow
      <4>1. ~(task[s] \in Announcing /\ task[s].sub = i)
        BY <1>0, <1>1, <3>1 DEF Promises, Holding
      <4>2. rows'[i] = rows[i] /\ i \notin torn
        BY <1>0, <1>1, <2>0, <2>5, <3>1
      <4>. QED
        BY <2>2, <2>5, <4>1, <4>2 DEF Promises, Told, NoticeMatchesStatus
    <3>2. CASE draft[s][i] # NoRow /\ rows[i] = NoRow
      <4>1. rows'[i] = draft[s][i] /\ draft[s][i].status = "TRIALING"
        BY <1>0, <1>1, <3>2 DEF Promises, Holding
      <4>2. told[i] = "TRIALING" /\ ~(task[s] \in Announcing /\ task[s].sub = i)
        BY <3>2 DEF Promises, Holding, Told
      <4>. QED
        BY <2>2, <4>1, <4>2
    <3>3. CASE draft[s][i] # NoRow /\ rows[i] # NoRow
      <4>1. rows'[i] = draft[s][i] /\ i \notin mixed[s]
        BY <1>0, <1>1, <2>0, <2>5, <3>3
      <4>2. /\ task[s] \in Announcing /\ task[s].sub = i
            /\ draft[s][i].status = task[s].status
        BY <2>0, <3>3, <4>1 DEF Promises, Holding
      <4>. QED
        BY <2>2, <4>1, <4>2
    <3>. QED
      BY <3>1, <3>2, <3>3
  <2>. QED
    BY <2>3, <2>4, <2>5 DEF Told, NoticeMatchesStatus
<1>. QED
  BY <1>3, <1>4, <1>5 DEF Promises

\* A step that leaves the store and its sessions alone, apart from the slugs that
\* a registration has still to try.
LEMMA PromisesQuiet ==
  ASSUME Inv, Promises, UNCHANGED <<storeVars, told, promoted>>,
         \A s \in Sessions : task'[s] = task[s]
                             \/ (task[s] \notin Announcing /\ task'[s] \notin Announcing
                                 /\ task[s] # Job)
  PROVE  Promises'
<1>1. OwnersComplete' /\ Told'
  BY DEF Promises, OwnersComplete, Told, NoticeMatchesStatus, storeVars
<1>2. \A s \in Sessions : Holding(s)'
  <2>1. UNCHANGED <<rows, pc, staged, draft, mixed>>
    BY DEF storeVars
  <2>. QED
    BY <2>1 DEF Promises, Holding, OwnerIn
<1>. QED
  BY <1>1, <1>2 DEF Promises

LEMMA PromisesStep == Inv /\ Promises /\ [Next]_vars => Promises'
<1>. SUFFICES ASSUME Inv, Promises, [Next]_vars PROVE Promises'
  OBVIOUS
<1>0. StoreTyped(Tabled) /\ DOMAIN pc = Sessions /\ DOMAIN task = Sessions
  BY DEF Inv, StoreOK, StoreGood
<1>1. ASSUME NEW s \in Sessions, Staging(s) PROVE Promises'
  BY <1>1, StagingBrings, PromisesBrings
<1>2. ASSUME NEW s \in Sessions, Insert(s) \/ Commit(s) PROVE Promises'
  BY <1>2, PromisesInsert, PromisesCommit
<1>3. ASSUME NEW s \in Sessions, NEW i \in Ids, Save(s, i) PROVE Promises'
  <2>1. CASE SelectRow(s, i)
    <3>1. UNCHANGED <<rows, pc, staged, draft, mixed, torn, task, accountVars>>
      BY <1>3, <2>1 DEF Save, SelectRow
    <3>2. Holding(s)' /\ \A v \in Sessions \ {s} : Same(v)
      BY <3>1 DEF Promises, Holding, OwnerIn, Same
    <3>. QED
      BY <3>1, <3>2, PromisesKept
  <2>. QED
    BY <1>3, <2>1, PromisesWrite DEF Save
<1>4. ASSUME NEW s \in Sessions, Issue(s) PROVE Promises'
  <2>1. /\ UNCHANGED <<rows, staged, draft, mixed, torn, task, told, promoted>>
        /\ pc' = [pc EXCEPT ![s] = "save"] /\ pc[s] = "issue"
    BY <1>4 DEF Issue
  <2>2. \A v \in Sessions \ {s} : Same(v)
    BY <1>0, <2>1 DEF Same
  <2>3. pc'[s] = "save" /\ pc[s] # "insert"
    BY <1>0, <2>1
  <2>4. Holding(s)'
    BY <2>1, <2>3 DEF Promises, Holding, OwnerIn
  <2>. QED
    BY <2>1, <2>2, <2>4, PromisesKept
<1>5. ASSUME NEW s \in Sessions, RefuseSlug(s) \/ JobReturns(s) \/ Fail(s) PROVE Promises'
  <2>1. Rollback(s) /\ task' = [task EXCEPT ![s] = NoTask] /\ UNCHANGED accountVars
    BY <1>5 DEF RefuseSlug, JobReturns, Fail, Abort
  <2>. QED
    BY <1>0, <2>1, PromisesRollback
<1>6. ASSUME NEW s \in Sessions, RefuseInsert(s) PROVE Promises'
  <2>1. Rollback(s) /\ task' = task /\ pc[s] = "insert" /\ UNCHANGED accountVars
    BY <1>6 DEF RefuseInsert, InsertRefused
  <2>2. task'[s] = NoTask
    BY <2>1 DEF Inv, TaskFits
  <2>. QED
    BY <2>1, <2>2, PromisesRollback
<1>7. ASSUME NEW s \in Sessions, NextSlug(s) PROVE Promises'
  <2>1. /\ pc[s] = "slug" /\ task' = [task EXCEPT ![s].attempt = task[s].attempt + 1]
        /\ UNCHANGED <<storeVars, told, promoted>>
    BY <1>7 DEF NextSlug, accountVars
  <2>2. task[s] \in Registering
    BY <2>1 DEF Inv, TaskFits
  <2>3. task'[s] = [task[s] EXCEPT !.attempt = task[s].attempt + 1]
        /\ \A v \in Sessions \ {s} : task'[v] = task[v]
    BY <1>0, <2>1
  <2>4. task[s].kind = "register" /\ task'[s].kind = "register"
    BY <2>2, <2>3 DEF Registering
  <2>5. task[s] \notin Announcing /\ task'[s] \notin Announcing /\ task[s] # Job
    BY <2>4 DEF Announcing, Job
  <2>. QED
    BY <2>1, <2>3, <2>5, PromisesQuiet
<1>8. CASE Tick \/ Finished \/ UNCHANGED vars
  <2>1. UNCHANGED <<storeVars, told, promoted, task>>
    BY <1>8 DEF Tick, Finished, vars
  <2>. QED
    BY <2>1, PromisesQuiet
<1>. QED
  BY <1>1, <1>2, <1>3, <1>4, <1>5, <1>6, <1>7, <1>8 DEF Next, Step, Staging

THEOREM AccountPromises == Spec => []Promises
BY PromisesInit, PromisesStep, AccountInvariant, PTL DEF Spec

\* register_user.py:81-104, user.py:68: user and subscription are inserted by one
\* flush, so no failure leaves an owner without; only a promotion can.
THEOREM WholeOwners == Spec => []OwnersComplete
<1>1. Promises => OwnersComplete
  BY DEF Promises
<1>. QED
  BY <1>1, AccountPromises, PTL

\* set_owner_subscription_status.py:61-74: the notification and the status are
\* committed together, whoever else changes the subscription.
THEOREM ToldTheStatus == Spec => []NoticeMatchesStatus
<1>1. Promises => NoticeMatchesStatus
  BY DEF Promises, Told
<1>. QED
  BY <1>1, AccountPromises, PTL

Counted == commands \in 0..MaxCommands /\ promoted \subseteq UserIds

LEMMA CountedStep == Counted /\ [Next]_vars => Counted'
<1>. SUFFICES ASSUME Counted, [Next]_vars PROVE Counted'
  OBVIOUS
<1>1. promoted' \subseteq UserIds
  BY DEF Counted, Next, Step, vars, accountVars, Login, RegisterCustomer, BeginOwner, Bootstrap,
     Promote, Deactivate, SetStatus, Refresh, Issue, TakeSlug, NextSlug, RefuseSlug, Insert,
     RefuseInsert, ExpireTrials, JobReturns, Save, Commit, Fail, Tick, Finished
<1>2. commands' = commands \/ (commands < MaxCommands /\ commands' = commands + 1)
  <2>1. ASSUME NEW s \in Sessions, Staging(s)
        PROVE  commands' = commands \/ (commands < MaxCommands /\ commands' = commands + 1)
    <3>1. ASSUME NEW u \in UserIds, Login(s, u) \/ RegisterCustomer(s, u) \/ BeginOwner(s, u)
          PROVE  commands < MaxCommands /\ commands' = commands + 1
      BY <3>1 DEF Login, RegisterCustomer, BeginOwner, TakeUp
    <3>2. ASSUME NEW u \in UserIds, \/ Bootstrap(s, u) \/ Promote(s, u) \/ Deactivate(s, u)
                                    \/ SetStatus(s, u)
          PROVE  commands < MaxCommands /\ commands' = commands + 1
      BY <3>2 DEF Bootstrap, Promote, Deactivate, SetStatus, TakeUp
    <3>3. CASE Refresh(s) \/ TakeSlug(s) \/ ExpireTrials(s)
      BY <3>3 DEF Refresh, TakeSlug, ExpireTrials, TakeUp
    <3>. QED
      BY <2>1, <3>1, <3>2, <3>3 DEF Staging
  <2>2. ASSUME NEW s \in Sessions, \/ Issue(s) \/ NextSlug(s) \/ RefuseSlug(s) \/ Insert(s)
                                   \/ RefuseInsert(s) \/ JobReturns(s) \/ Commit(s) \/ Fail(s)
                                   \/ \E i \in Ids : Save(s, i)
        PROVE  commands' = commands
    BY <2>2 DEF Issue, NextSlug, RefuseSlug, Insert, RefuseInsert, JobReturns, Commit, Fail, Save
  <2>3. CASE Tick \/ Finished \/ UNCHANGED vars
    BY <2>3 DEF Tick, Finished, vars
  <2>. QED
    BY <2>1, <2>2, <2>3 DEF Next, Step, Staging
<1>3. commands \in 0..MaxCommands => commands' \in 0..MaxCommands
  BY <1>2, KeyAssumption
<1>. QED
  BY <1>1, <1>3 DEF Counted

\* Every variable keeps its type: no handler stages, writes or announces anything
\* else than rows of the two tables.
THEOREM AccountTypes == Spec => []TypeOK
<1>1. Init => Counted
  BY KeyAssumption DEF Init, Counted
<1>2. Spec => []Counted
  BY <1>1, CountedStep, PTL DEF Spec
<1>3. Spec => []AccessOK
  BY AccessInit, AccessStep, AccountInvariant, PTL DEF Spec
<1>4. ASSUME Inv, AccessOK, Promises, Counted PROVE TypeOK
  <2>1. StoreTyped(Tabled) /\ Undeleted
    BY <1>4 DEF Inv, StoreOK, StoreGood
  <2>2. \A i \in Ids : rows[i] \in RowsOf(i) \cup {NoRow}
    BY <2>1 DEF StoreTyped, Tabled
  <2>3. \A s \in Sessions, i \in Ids : /\ staged[s][i] \in RowsOf(i) \cup {NoRow}
                                       /\ seen[s][i] \in RowsOf(i) \cup {NoRow}
                                       /\ draft[s][i] \in RowsOf(i) \cup {NoRow}
    BY <2>1 DEF StoreTyped, Tabled, Undeleted
  <2>4. /\ mixed \in [Sessions -> SUBSET Ids] /\ outdated \in [Sessions -> SUBSET Ids]
        /\ torn \subseteq Ids /\ lost \subseteq Ids
    BY <2>1 DEF StoreTyped
  <2>5. \A s \in Sessions : task[s] \in Tasks
    BY <1>4 DEF Inv, TaskFits, Tasks, Registering, Issuing, Announcing, Job
  <2>6. /\ told \in [SubIds -> SubStatuses] /\ changedAt \in [UserIds -> Times]
        /\ promoted \subseteq UserIds /\ commands \in 0..MaxCommands
    BY <1>4 DEF Promises, Told, AccessOK, Counted
  <2>7. /\ pc \in [Sessions -> {"idle", "slug", "issue", "insert", "save"}]
        /\ clock \in Times /\ pairs \subseteq TokenPair
    BY <1>4 DEF Inv
  <2>. QED
    BY <2>2, <2>3, <2>4, <2>5, <2>6, <2>7 DEF TypeOK
<1>. QED
  BY <1>2, <1>3, <1>4, AccountInvariant, AccountPromises, PTL
=============================================================================
