---------------------------- MODULE PublicPages -----------------------------
(***************************************************************************)
(* What visitors see: the public listing, the page of a resource and the   *)
(* page of an owner.  Each handler decides from several SELECTs, with the  *)
(* commits of owners and administrators between them (modules Accounts and *)
(* Resources; here a commit is one step).                                  *)
(***************************************************************************)
EXTENDS Naturals, FiniteSets

CONSTANTS
  Owners,       \* users who have, had or may get the role OWNER
  Slugless,     \* those who registered as customers
  Resources,    \* numbered in the order in which they were created
  OwnerOf,
  PageLimit,    \* resources on a page
  NoSub,        \* no subscription
  NoOwner,      \* no owner is looked at
  MaxCommits    \* bound on the commits of others

VARIABLES
  users,        \* Owners -> [role, active]
  subs,         \* Owners -> status of the subscription or NoSub
  resources,    \* Resources -> [published, deleted]
  call,         \* the request that is being answered and what it has found
  commits,      \* commits so far
  throughout,   \* auxiliary: resources visible in every state of the call
  operational,  \* auxiliary: owners whose subscription was, at some moment of it
  activeOnce,   \* auxiliary: owners who were active at some moment of it
  offeredOnce,  \* auxiliary: resources published at some moment of it
  upgraded      \* auxiliary: owners who went from TRIALING to ACTIVE during it

database == <<users, subs, resources>>
moments == <<throughout, operational, activeOnce, offeredOnce, upgraded>>
vars == <<database, call, commits, moments>>

Statuses == {"ACTIVE", "TRIALING", "PAST_DUE", "INACTIVE"}
Roles == {"admin", "owner", "customer"}
Operational == {"ACTIVE", "TRIALING"}

Idle == [page |-> "none", step |-> "done", owner |-> NoOwner, asked |-> {},
         found |-> {}, shown |-> {}]

ASSUME PagesAssumption ==
  /\ Slugless \subseteq Owners /\ OwnerOf \in [Resources -> Owners \ Slugless]
  /\ Resources \subseteq Nat /\ IsFiniteSet(Resources)
  /\ NoSub \notin Statuses /\ NoOwner \notin Owners /\ {PageLimit, MaxCommits} \subseteq Nat

\* create_resource answers a promoted customer with an error, so that no resource
\* has an owner without a slug.
Init ==
  /\ users = [u \in Owners |-> [role |-> IF u \in Slugless THEN "customer" ELSE "owner",
                                active |-> TRUE]]
  /\ subs = [u \in Owners |-> IF u \in Slugless THEN NoSub ELSE "TRIALING"]
  /\ resources = [r \in Resources |-> [published |-> TRUE, deleted |-> FALSE]]
  /\ call = Idle
  /\ commits = 0
  /\ throughout = {} /\ operational = {} /\ activeOnce = {} /\ offeredOnce = {}
  /\ upgraded = {}

(***************************************************************************)
(* Reading.                                                                *)
(***************************************************************************)
Paying(u) == subs[u] \in Operational
Published(r) == resources[r].published /\ ~resources[r].deleted

\* What every page shows.  The listing does not look at the role.
Visible(r) ==
  /\ users[OwnerOf[r]] = [role |-> "owner", active |-> TRUE]
  /\ Paying(OwnerOf[r]) /\ Published(r)

\* ORDER BY created_at DESC LIMIT ...: the first page.
Newest(found) == {r \in found : Cardinality({q \in found : q > r}) < PageLimit}

\* The moments of a call begin with the state it starts in.
Begin ==
  /\ throughout' = {r \in Resources : Visible(r)}
  /\ operational' = {u \in Owners : Paying(u)}
  /\ activeOnce' = {u \in Owners : users[u].active}
  /\ offeredOnce' = {r \in Resources : Published(r)}
  /\ upgraded' = {}

Goes(c) == call' = c /\ UNCHANGED <<database, commits>>

At(page, step) == call.page = page /\ call.step = step

\* list_public_resources: ACTIVE subscriptions, TRIALING ones, ...
ListActive ==
  /\ call.step = "done" /\ Begin
  /\ Goes([Idle EXCEPT !.page = "list", !.step = "trialing", !.asked = Resources,
                       !.found = {u \in Owners : subs[u] = "ACTIVE"}])

\* Faulty: one SELECT, of one status, is thought to be enough.
ListOneStatus ==
  /\ At("list", "trialing")
  /\ Goes([call EXCEPT !.step = "users"])
  /\ UNCHANGED moments

ListTrialing ==
  /\ At("list", "trialing")
  /\ Goes([call EXCEPT !.step = "users", !.found = @ \cup {u \in Owners : subs[u] = "TRIALING"}])
  /\ UNCHANGED moments

\* Faulty: the listing does not ask if the owner is active.
ListAnyOwners ==
  /\ At("list", "users")
  /\ Goes([call EXCEPT !.step = "resources"])
  /\ UNCHANGED moments

\* ... their owners, if active (whatever their role) ...
ListOwners ==
  /\ At("list", "users")
  /\ Goes([call EXCEPT !.step = "resources", !.found = {u \in @ : users[u].active}])
  /\ UNCHANGED moments

\* ... and the published resources of those.
ListResources ==
  /\ At("list", "resources")
  /\ Goes([call EXCEPT !.step = "done",
                       !.shown = Newest({r \in Resources : Published(r) /\ OwnerOf[r] \in call.found})])
  /\ UNCHANGED moments

\* get_public_resource and get_owner_public_page begin alike: with a user who has a
\* slug, which nobody ever loses.
FindOwner(page, u, asked) ==
  /\ call.step = "done" /\ Begin
  /\ u \notin Slugless
  /\ Goes([Idle EXCEPT !.page = page, !.owner = u, !.asked = asked,
             !.step = IF users[u] = [role |-> "owner", active |-> TRUE] THEN "sub" ELSE "done"])

FindOwnerPage(u) == FindOwner("owner", u, {r \in Resources : OwnerOf[r] = u})

FindResourcePage(r) == FindOwner("resource", OwnerOf[r], {r})

CheckSubscription ==
  /\ call.step = "sub"
  /\ Goes([call EXCEPT !.step = IF Paying(call.owner) THEN "found" ELSE "done"])
  /\ UNCHANGED moments

ShowResource ==
  /\ At("resource", "found")
  /\ Goes([call EXCEPT !.step = "done", !.shown = {r \in call.asked : Published(r)}])
  /\ UNCHANGED moments

ShowOwner ==
  /\ At("owner", "found")
  /\ Goes([call EXCEPT !.step = "done",
                       !.shown = Newest({r \in Resources : Published(r) /\ OwnerOf[r] = call.owner})])
  /\ UNCHANGED moments

(***************************************************************************)
(* The commits of others.                                                  *)
(***************************************************************************)
\* What a commit adds to the moments of the call.
Committed ==
  /\ commits < MaxCommits /\ commits' = commits + 1
  /\ throughout' = {r \in throughout : Visible(r)'}
  /\ operational' = operational \cup {u \in Owners : Paying(u)'}
  /\ activeOnce' = activeOnce \cup {u \in Owners : users'[u].active}
  /\ offeredOnce' = offeredOnce \cup {r \in Resources : Published(r)'}
  /\ upgraded' = upgraded \cup {u \in Owners : subs[u] = "TRIALING" /\ subs'[u] = "ACTIVE"}
  /\ UNCHANGED call

Promote(u) ==
  /\ \E role \in Roles : users' = [users EXCEPT ![u].role = role]
  /\ UNCHANGED <<subs, resources>>
  /\ Committed

Deactivate(u) ==
  /\ users' = [users EXCEPT ![u].active = FALSE]
  /\ UNCHANGED <<subs, resources>>
  /\ Committed

SetStatus(u) ==
  /\ users[u].role = "owner" /\ subs[u] # NoSub
  /\ \E status \in Statuses \ {subs[u]} : subs' = [subs EXCEPT ![u] = status]
  /\ UNCHANGED <<users, resources>>
  /\ Committed

\* publish and unpublish.
Publish(r) ==
  /\ ~resources[r].deleted
  /\ \E on \in BOOLEAN : resources' = [resources EXCEPT ![r].published = on]
  /\ UNCHANGED <<users, subs>>
  /\ Committed

Delete(r) ==
  /\ ~resources[r].deleted
  /\ resources' = [resources EXCEPT ![r].deleted = TRUE]
  /\ UNCHANGED <<users, subs>>
  /\ Committed

Next ==
  \/ ListActive \/ ListTrialing \/ ListOwners \/ ListResources
  \/ CheckSubscription \/ ShowOwner \/ ShowResource
  \/ \E u \in Owners : FindOwnerPage(u) \/ Promote(u) \/ Deactivate(u) \/ SetStatus(u)
  \/ \E r \in Resources : FindResourcePage(r) \/ Publish(r) \/ Delete(r)

Spec == Init /\ [][Next]_vars

(***************************************************************************)
(* Properties.                                                             *)
(***************************************************************************)
\* plan-06 design, 6.4: a resource that is unpublished or deleted, or whose owner
\* is not operational, is not shown.  The gates are read one after the other, so
\* each has held at some moment of the call, not all at one moment.
ShownWasAllowed ==
  \A r \in call.shown :
    OwnerOf[r] \in operational /\ OwnerOf[r] \in activeOnce /\ r \in offeredOnce

\* list_public_resources.py:39-46 reads ACTIVE and TRIALING subscriptions by two
\* SELECTs.  What is visible all the time is found on every page that is asked
\* for it, or pushed from the page by newer ones, except when its owner passes
\* from the second set to the first between the two.
VisibleIsListed ==
  call.step = "done" =>
    \A r \in throughout \cap call.asked :
      \/ r \in call.shown
      \/ Cardinality({q \in call.shown : q > r}) >= PageLimit
      \/ call.page = "list" /\ OwnerOf[r] \in upgraded
=============================================================================
