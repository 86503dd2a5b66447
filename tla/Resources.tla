----------------------------- MODULE Resources ------------------------------
(***************************************************************************)
(* The resources an owner rents out and the catalog of resource types: the *)
(* commands that create and change them, as transactions over RowStore.    *)
(*                                                                         *)
(* A command loads a whole aggregate, checks and changes one part of it    *)
(* and writes the whole row back, without a version or a lock.  Nothing in *)
(* the database knows the rules that relate the parts.                     *)
(***************************************************************************)
EXTENDS RowStore, Schedules, FiniteSets

CONSTANTS
  ResourceIds, TypeIds,  \* the primary keys of the two tables
  Owners,                \* users whose role is OWNER
  Slugless,              \* those of them that were promoted and have no public slug
  Slugs, Labels,         \* slugs; everything else that is plain text
  Slots, Hours, Rules,   \* raw inputs, some of which no factory accepts
  Customs, Bases, Schemas,
  Prices, Cutoffs,       \* valid Money and CancellationCutoff values
  Seed,                  \* the rows there are at the start, as create left them
  Kinds,                 \* commands that a run offers
  MaxCommands            \* bound on the commands taken up

VARIABLES
  patched,    \* Sessions -> how far a PATCH of a resource has come, 0 if none
  commands,   \* commands taken up so far
  versions    \* auxiliary: every attribute schema a type has had

vars == <<storeVars, patched, commands, versions>>

ResourceRow ==
  [table : {"resource"}, owner : Owners, type : TypeIds, slug : Slugs,
   meta : Labels, slot : SlotDurations, hours : Hours, rules : Rules,
   base : Bases, customs : Customs, price : Prices, cutoff : Cutoffs,
   published : BOOLEAN, deleted : BOOLEAN]

TypeRow ==
  [table : {"type"}, slug : Slugs, meta : Labels, active : BOOLEAN, schema : Schemas]

RowsOf(i) == IF i \in TypeIds THEN TypeRow ELSE ResourceRow

\* Faulty: the constraint was made for rows that are not deleted.
SameLiveKey(e, f) ==
  /\ e.table = f.table
  /\ e.slug = f.slug
  /\ e.table = "resource" => e.owner = f.owner /\ ~f.deleted

\* UNIQUE(owner_id, slug) of resources, UNIQUE(slug) of resource_types.  A soft
\* deleted resource keeps its slug.
SameKey(e, f) ==
  /\ e.table = f.table
  /\ e.slug = f.slug
  /\ e.table = "resource" => e.owner = f.owner

\* The unique index, as an INSERT meets it.
Waits(s, i) == \E f \in InFlight(s) : SameKey(staged[s][i], f)
Taken(s, i) == \E f \in Stored : SameKey(staged[s][i], f)

\* The keys of all new rows are free; one of them is not.
KeysFree(s) ==
  \A i \in Ids : staged[s][i] # NoRow => ~Waits(s, i) /\ ~Taken(s, i)
KeyRefused(s) ==
  \E i \in Ids : staged[s][i] # NoRow /\ ~Waits(s, i) /\ Taken(s, i)

(***************************************************************************)
(* The aggregates: what their methods accept and return.                   *)
(***************************************************************************)
\* Resource.create and the factories before it accept these parts.
PartsAccepted(e) ==
  /\ ScheduleAccepted(e.slot, e.hours)
  /\ RulesAccepted(e.slot, e.hours, e.rules)
  /\ AttributesDisjoint(e.base, e.customs)

\* Resource.update_metadata and ResourceType.update_metadata.
MetadataUpdated(e, m) == [e EXCEPT !.meta = m]

\* Resource.set_slot_duration: the schedule is rebuilt and the rules are checked
\* again on the new grid.
SlotDurationAccepted(e, slot) ==
  ScheduleAccepted(slot, e.hours) /\ RulesAccepted(slot, e.hours, e.rules)

NewType(g, m, on, schema) ==
  [table |-> "type", slug |-> g, meta |-> m, active |-> on, schema |-> schema]

\* PATCH of a type: any part of it.
TypeUpdated(e, m, on, schema) ==
  [MetadataUpdated(e, m) EXCEPT !.active = on, !.schema = schema]

ASSUME IdAssumption ==
  /\ ResourceIds \cap TypeIds = {} /\ Ids = ResourceIds \cup TypeIds
  /\ NoRow # Gone
  /\ \A i \in Ids : NoRow \notin RowsOf(i) /\ Gone \notin RowsOf(i)

\* Raw windows, rules and keys as the schemas of the routes let them in.
ASSUME InputAssumption ==
  /\ \A hours \in Hours, d \in Weekdays : \A n \in DOMAIN hours[d] :
       hours[d][n] \in [start : Nat, end : Nat]
  /\ \A rules \in Rules :
       /\ DOMAIN rules = 1..Len(rules) /\ Len(rules) \in Nat
       /\ \A n \in DOMAIN rules : /\ rules[n].days \subseteq Weekdays
                                  /\ rules[n].window \in [start : Nat, end : Nat]
  /\ \A customs \in Customs : DOMAIN customs = 1..Len(customs) /\ Len(customs) \in Nat
  /\ MaxCommands \in Nat

ASSUME SeedAssumption ==
  /\ Seed = [i \in Ids |-> Seed[i]]
  /\ \A t \in TypeIds : Seed[t] # NoRow =>
       Seed[t] \in TypeRow /\ SchemaAccepted(Seed[t].schema)
  /\ \A r \in ResourceIds : Seed[r] # NoRow =>
       /\ Seed[r] \in ResourceRow /\ Seed[Seed[r].type] # NoRow
       /\ PartsAccepted(Seed[r]) /\ Conforms(Seed[Seed[r].type].schema, Seed[r].base)
  /\ \A i, j \in Ids : i # j /\ Seed[i] # NoRow /\ Seed[j] # NoRow =>
       ~SameKey(Seed[i], Seed[j])

Init ==
  /\ StoreInit
  /\ rows = Seed
  /\ patched = [s \in Sessions |-> 0]
  /\ commands = 0
  /\ versions = [t \in TypeIds |-> IF Seed[t] = NoRow THEN {} ELSE {Seed[t].schema}]

(***************************************************************************)
(* Creating a resource.                                                    *)
(***************************************************************************)
\* One command more, of a kind this run offers.
TakeUp(s, kind) ==
  /\ pc[s] = "idle"
  /\ kind \in Kinds
  /\ commands < MaxCommands
  /\ commands' = commands + 1

CreateResource(s, r) ==
  /\ TakeUp(s, "create")
  /\ r \in ResourceIds /\ Fresh(r)
  /\ \E t \in TypeIds, slot \in Slots \cap SlotDurations :
       /\ rows[t] # NoRow /\ rows[t].active
       /\ \E e \in [table : {"resource"}, owner : Owners, type : {t}, slug : Slugs,
                    meta : Labels, slot : {slot}, hours : Hours, rules : Rules,
                    base : Bases, customs : Customs, price : Prices,
                    cutoff : Cutoffs, published : {FALSE}, deleted : {FALSE}] :
            /\ PartsAccepted(e)
            /\ Conforms(rows[t].schema, e.base)
            /\ Stage(s, Only(r, e), "insert")
  /\ UNCHANGED <<patched, versions>>

\* The foreign key: the INSERT takes a share lock on the row of the type, so it
\* waits for a DELETE of it and fails if that one commits.  An UPDATE of a type
\* leaves its key alone and does not conflict.
TypeLocked(s) ==
  \E r \in ResourceIds, u \in Sessions \ {s} :
    staged[s][r] # NoRow /\ draft[u][staged[s][r].type] = Gone

TypePresent(s) ==
  \A r \in ResourceIds : staged[s][r] # NoRow => rows[staged[s][r].type] # NoRow

Insert(s) ==
  /\ ~TypeLocked(s) /\ TypePresent(s) /\ KeysFree(s)
  /\ InsertRows(s)
  /\ UNCHANGED <<patched, commands, versions>>

\* add() takes any IntegrityError for a taken slug.
RefuseInsert(s) ==
  /\ KeyRefused(s) \/ (~TypeLocked(s) /\ ~TypePresent(s))
  /\ InsertRefused(s)
  /\ UNCHANGED <<patched, commands, versions>>

(***************************************************************************)
(* Changing a resource.  Each command loads the owner's resource (a deleted *)
(* one is not found), changes one part, checks the rules that relate it to *)
(* the others as they were loaded, and saves the whole row.                *)
(***************************************************************************)
Loaded(s, r) == r \in ResourceIds /\ View(s, r) # NoRow /\ ~View(s, r).deleted

\* A command with a route of its own.
Edit(s, r, kind) == TakeUp(s, kind) /\ Loaded(s, r) /\ UNCHANGED <<patched, versions>>

\* PATCH /v1/me/resources/{id} runs up to five commands, in this order, in one
\* transaction; each of them loads what the one before it has flushed.
PatchOrder == <<"meta", "price", "cutoff", "base", "customs">>

Patch(s, r, n) ==
  /\ Loaded(s, r)
  /\ \/ TakeUp(s, PatchOrder[n])
     \/ /\ Saved(s) /\ draft[s][r] # NoRow
        /\ patched[s] \in 1..(n - 1) /\ PatchOrder[n] \in Kinds
        /\ UNCHANGED commands
  /\ patched' = [patched EXCEPT ![s] = n]
  /\ UNCHANGED versions

UpdateMetadata(s, r) ==
  /\ Patch(s, r, 1)
  /\ \E m \in Labels : Stage(s, Only(r, MetadataUpdated(View(s, r), m)), "save")

SetBasePrice(s, r) ==
  /\ Patch(s, r, 2)
  /\ \E p \in Prices : Stage(s, Only(r, [View(s, r) EXCEPT !.price = p]), "save")

SetCancellationCutoff(s, r) ==
  /\ Patch(s, r, 3)
  /\ \E c \in Cutoffs : Stage(s, Only(r, [View(s, r) EXCEPT !.cutoff = c]), "save")

\* The type is selected after the resource: a step of its own.
LoadForBaseAttributes(s, r) ==
  /\ Patch(s, r, 4)
  /\ Stage(s, Only(r, View(s, r)), "base")

\* Faulty: the new attributes are not held against the type's schema.
ReplaceBaseAttributesUnchecked(s, r) ==
  /\ pc[s] = "base" /\ staged[s][r] # NoRow
  /\ \E base \in Bases :
       /\ AttributesDisjoint(base, staged[s][r].customs)
       /\ Stage(s, Only(r, [staged[s][r] EXCEPT !.base = base]), "save")
  /\ UNCHANGED <<patched, commands, versions>>

ReplaceBaseAttributes(s, r) ==
  /\ pc[s] = "base" /\ staged[s][r] # NoRow
  /\ rows[staged[s][r].type] # NoRow
  /\ \E base \in Bases :
       /\ Conforms(rows[staged[s][r].type].schema, base)
       /\ AttributesDisjoint(base, staged[s][r].customs)
       /\ Stage(s, Only(r, [staged[s][r] EXCEPT !.base = base]), "save")
  /\ UNCHANGED <<patched, commands, versions>>

ReplaceCustomAttributes(s, r) ==
  /\ Patch(s, r, 5)
  /\ \E customs \in Customs :
       /\ AttributesDisjoint(View(s, r).base, customs)
       /\ Stage(s, Only(r, [View(s, r) EXCEPT !.customs = customs]), "save")

ReplaceOperatingHours(s, r) ==
  /\ Edit(s, r, "hours")
  /\ \E hours \in Hours :
       /\ ScheduleAccepted(View(s, r).slot, hours)
       /\ RulesAccepted(View(s, r).slot, hours, View(s, r).rules)
       /\ Stage(s, Only(r, [View(s, r) EXCEPT !.hours = hours]), "save")

ReplacePricingRules(s, r) ==
  /\ Edit(s, r, "rules")
  /\ \E rules \in Rules :
       /\ RulesAccepted(View(s, r).slot, View(s, r).hours, rules)
       /\ Stage(s, Only(r, [View(s, r) EXCEPT !.rules = rules]), "save")

\* Faulty: the grid changes under the pricing rules.
SetSlotDurationOnly(s, r) ==
  /\ Edit(s, r, "slot")
  /\ \E slot \in Slots \cap SlotDurations :
       /\ ScheduleAccepted(slot, View(s, r).hours)
       /\ Stage(s, Only(r, [View(s, r) EXCEPT !.slot = slot]), "save")

\* Faulty: any number of minutes will do.
SetSlotDurationFreely(s, r) ==
  /\ Edit(s, r, "slot")
  /\ \E slot \in Slots :
       /\ SlotDurationAccepted(View(s, r), slot)
       /\ Stage(s, Only(r, [View(s, r) EXCEPT !.slot = slot]), "save")

SetSlotDuration(s, r) ==
  /\ Edit(s, r, "slot")
  /\ \E slot \in Slots \cap SlotDurations :
       /\ SlotDurationAccepted(View(s, r), slot)
       /\ Stage(s, Only(r, [View(s, r) EXCEPT !.slot = slot]), "save")

\* publish and unpublish.
Publish(s, r) ==
  /\ Edit(s, r, "publish")
  /\ \E on \in BOOLEAN : Stage(s, Only(r, [View(s, r) EXCEPT !.published = on]), "save")

\* The bookings of the resource are the business of module Bookings.
SoftDelete(s, r) ==
  /\ Edit(s, r, "delete")
  /\ Stage(s, Only(r, [View(s, r) EXCEPT !.deleted = TRUE]), "save")

(***************************************************************************)
(* The catalog of resource types.                                          *)
(***************************************************************************)
CreateType(s, t) ==
  /\ TakeUp(s, "createType")
  /\ t \in TypeIds /\ Fresh(t)
  /\ \E g \in Slugs, m \in Labels, on \in BOOLEAN, schema \in Schemas :
       /\ SchemaAccepted(schema)
       /\ Stage(s, Only(t, NewType(g, m, on, schema)), "insert")
  /\ UNCHANGED <<patched, versions>>

\* Resources of the type are not looked at.
UpdateType(s, t) ==
  /\ TakeUp(s, "updateType")
  /\ t \in TypeIds /\ rows[t] # NoRow
  /\ \E m \in Labels, on \in BOOLEAN, schema \in Schemas :
       /\ SchemaAccepted(schema)
       /\ Stage(s, Only(t, TypeUpdated(rows[t], m, on, schema)), "save")
  /\ UNCHANGED <<patched, versions>>

DeleteType(s, t) ==
  /\ TakeUp(s, "deleteType")
  /\ t \in TypeIds /\ rows[t] # NoRow
  /\ Stage(s, Only(t, rows[t]), "remove")
  /\ UNCHANGED <<patched, versions>>

\* A DELETE waits for the row, and for every INSERT that holds its share lock.
TypeInUse(s, t) ==
  \/ LockedAgainst(s, t)
  \/ \E u \in Sessions, r \in ResourceIds : draft[u][r] # NoRow /\ draft[u][r].type = t
                                           /\ rows[r] = NoRow

\* Faulty: the foreign key is missing.
ReferencedByNone(t) == FALSE

Referenced(t) == \E r \in ResourceIds : rows[r] # NoRow /\ rows[r].type = t

\* A type deleted by somebody else meanwhile is no error: nothing is left to do.
RemoveType(s, t) ==
  /\ pc[s] = "remove" /\ staged[s][t] # NoRow
  /\ ~TypeInUse(s, t) /\ ~Referenced(t)
  /\ draft' = [draft EXCEPT ![s][t] = IF rows[t] = NoRow THEN NoRow ELSE Gone]
  /\ staged' = [staged EXCEPT ![s] = Nothing]
  /\ pc' = [pc EXCEPT ![s] = "save"]
  /\ UNCHANGED <<rows, seen, mixed, outdated, torn, lost, patched, commands, versions>>

\* ON DELETE RESTRICT: an IntegrityError that nobody catches.
RefuseRemoval(s, t) ==
  /\ pc[s] = "remove" /\ staged[s][t] # NoRow
  /\ ~TypeInUse(s, t) /\ Referenced(t)
  /\ Rollback(s)
  /\ UNCHANGED <<patched, commands, versions>>

(***************************************************************************)
(* The rest of every transaction.                                          *)
(***************************************************************************)
Save(s, i) ==
  /\ SelectRow(s, i) \/ WriteRow(s, i)
  /\ UNCHANGED <<patched, commands, versions>>

\* create_resource builds its answer from the owner's public slug: without one
\* it raises after the INSERT, and the transaction is rolled back.
AnswerFails(s) ==
  \E r \in ResourceIds : draft[s][r] # NoRow /\ rows[r] = NoRow
                       /\ draft[s][r].owner \in Slugless

Commit(s) ==
  /\ ~AnswerFails(s)
  /\ CommitRows(s)
  /\ patched' = [patched EXCEPT ![s] = 0]
  /\ versions' = [t \in TypeIds |->
                    versions[t] \cup IF rows'[t] = NoRow THEN {} ELSE {rows'[t].schema}]
  /\ UNCHANGED commands

\* A failed statement, a lost connection, a crash; a part of a PATCH that is
\* refused after others were flushed; a row that is gone.
Fail(s) ==
  /\ Abort(s) \/ \E i \in Ids : RowVanished(s, i)
  /\ patched' = [patched EXCEPT ![s] = 0]
  /\ UNCHANGED <<commands, versions>>

EditResource(s, r) ==
  \/ UpdateMetadata(s, r) \/ SetBasePrice(s, r) \/ SetCancellationCutoff(s, r)
  \/ LoadForBaseAttributes(s, r) \/ ReplaceBaseAttributes(s, r)
  \/ ReplaceCustomAttributes(s, r) \/ ReplaceOperatingHours(s, r)
  \/ ReplacePricingRules(s, r) \/ SetSlotDuration(s, r)
  \/ Publish(s, r) \/ SoftDelete(s, r)

EditType(s, t) ==
  \/ CreateType(s, t) \/ UpdateType(s, t) \/ DeleteType(s, t)
  \/ RemoveType(s, t) \/ RefuseRemoval(s, t)

Step(s) ==
  \/ \E r \in ResourceIds : CreateResource(s, r) \/ EditResource(s, r)
  \/ \E t \in TypeIds : EditType(s, t)
  \/ Insert(s) \/ RefuseInsert(s)
  \/ \E i \in Ids : Save(s, i)
  \/ Commit(s) \/ Fail(s)

\* All the commands a run has are done: nobody waits for a lock any more.
Finished ==
  /\ commands = MaxCommands /\ \A s \in Sessions : pc[s] = "idle"
  /\ UNCHANGED vars

Next == (\E s \in Sessions : Step(s)) \/ Finished

Spec == Init /\ [][Next]_vars

(***************************************************************************)
(* Properties.                                                             *)
(***************************************************************************)
TypeOK ==
  /\ \A i \in Ids : rows[i] \in RowsOf(i) \cup {NoRow}
  /\ pc \in [Sessions -> {"idle", "insert", "base", "remove", "save"}]
  /\ \A s \in Sessions, i \in Ids :
       /\ staged[s][i] \in RowsOf(i) \cup {NoRow}
       /\ seen[s][i] \in RowsOf(i) \cup {NoRow}
       /\ draft[s][i] \in RowsOf(i) \cup {NoRow, Gone}
  /\ mixed \in [Sessions -> SUBSET Ids] /\ outdated \in [Sessions -> SUBSET Ids]
  /\ torn \subseteq Ids /\ lost \subseteq Ids
  /\ patched \in [Sessions -> 0..Len(PatchOrder)]
  /\ commands \in 0..MaxCommands
  /\ versions \in [TypeIds -> SUBSET Schemas]

TimesOfDay == 0..95

\* What the checks are for: an instant has one price at most, a priced instant
\* is open, opening hours and prices change between slots only, and the public
\* page shows no attribute twice.
PartsSound(e) ==
  /\ \A d \in Weekdays : \A n \in DOMAIN e.hours[d] : OnGrid(e.slot, e.hours[d][n])
  /\ \A n \in DOMAIN e.rules :
       /\ OnGrid(e.slot, e.rules[n].window)
       /\ \A d \in Weekdays, t \in TimesOfDay : Matches(e.rules[n], d, t) =>
            /\ Open(e.hours, d, t)
            /\ \A m \in DOMAIN e.rules : Matches(e.rules[m], d, t) => m = n
  /\ \A n \in DOMAIN e.customs :
       /\ e.customs[n] \notin DOMAIN e.base
       /\ \A m \in DOMAIN e.customs : e.customs[m] = e.customs[n] => m = n

\* The class comment of Resource (resource.py:30-36) holds of every row that is
\* some handler's entity, however edits of the parts interleave: it fails only
\* where the columns of two transactions meet in one row.
AggregateSound ==
  \A r \in ResourceIds : rows[r] # NoRow /\ r \notin torn => PartsSound(rows[r])

\* uq_resources_owner_slug and the unique slug of resource types, under
\* concurrent inserts: what a public URL names is one row.
SlugsUnique ==
  /\ \A q, r \in ResourceIds : q # r /\ rows[q] # NoRow /\ rows[r] # NoRow =>
       <<rows[q].owner, rows[q].slug>> # <<rows[r].owner, rows[r].slug>>
  /\ \A t, u \in TypeIds : t # u /\ rows[t] # NoRow /\ rows[u] # NoRow =>
       rows[t].slug # rows[u].slug

\* delete_resource_type.py:22-24: a type is gone only if no resource has it, even
\* where the resource is being created at that moment.
NoOrphan ==
  \A r \in ResourceIds : rows[r] # NoRow => rows[rows[r].type] # NoRow

\* The base attributes of a resource fit a schema that its type has had.  (Not
\* the schema it has now: update_resource_type.py looks at no resource.)
AttributesFittedOnce ==
  \A r \in ResourceIds : rows[r] # NoRow =>
    \E schema \in versions[rows[r].type] : Conforms(schema, rows[r].base)
=============================================================================
