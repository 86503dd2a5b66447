------------------------------ MODULE Accounts ------------------------------
(***************************************************************************)
(* Users, their tokens and the subscriptions of owners: registration,      *)
(* login, refresh, the commands of an administrator and the trial job, as  *)
(* transactions over RowStore.                                             *)
(*                                                                         *)
(* Tokens are signed claims that nobody can take back, and every update of *)
(* a user or a subscription writes back an entity read earlier.            *)
(***************************************************************************)
EXTENDS RowStore, Sequences, FiniteSets

CONSTANTS
  UserIds, SubIds,      \* the primary keys of the two tables
  SubOf,                \* the key a user's subscription gets
  Emails,               \* normalised e-mail addresses
  AdminEmail,           \* the one of the bootstrap script
  Names,                \* full names
  Candidates,           \* name -> the public slugs tried for it, in order
  NoSlug, NoTrial,      \* NULL in public_slug and in trial_ends_at
  TrialDuration,        \* Settings.trial_duration_days
  AccessTTL, RefreshTTL,
  Seed, SeedPairs,      \* rows and tokens at the start
  Kinds,                \* commands that a run offers
  MaxCommands, MaxTime  \* bounds on the commands taken up and on the clock

VARIABLES
  clock,
  pairs,      \* token pairs handed out and not expired
  task,       \* what a session's handler holds besides the staged entities
  told,       \* SubIds -> new_status in the owner's last SUBSCRIPTION_CHANGED
  commands,   \* commands taken up so far
  promoted,   \* auxiliary: users whose role an administrator changed
  changedAt   \* auxiliary: when a user's role or is_active last changed

vars == <<storeVars, clock, pairs, task, told, commands, promoted, changedAt>>
accountVars == <<clock, pairs, told, promoted, changedAt>>

Roles == {"admin", "owner", "customer"}
SelfRegisterable == {"owner", "customer"}
SubStatuses == {"ACTIVE", "TRIALING", "PAST_DUE", "INACTIVE"}

Slugs == UNION {{Candidates[n][k] : k \in DOMAIN Candidates[n]} : n \in Names}
Times == 0..MaxTime
Trials == {NoTrial} \cup (0..(MaxTime + TrialDuration))

UserRow ==
  [table : {"user"}, email : Emails, hash : {"old", "new"}, role : Roles,
   slug : Slugs \cup {NoSlug}, active : BOOLEAN]

SubRow ==
  [table : {"sub"}, owner : UserIds, status : SubStatuses, trial : Trials]

RowsOf(i) == IF i \in UserIds THEN UserRow ELSE SubRow

TokenPair == [user : UserIds, role : Roles, at : Times]

\* What a handler keeps: nothing, the slugs still to be tried for a new user,
\* whose tokens it issues, the status it announces, or that it is the job.
NoTask == [kind |-> "none"]
Tasks ==
  {NoTask, [kind |-> "job"]}
  \cup [kind : {"register"}, name : Names, attempt : Nat \ {0}, user : UserIds,
        email : Emails]
  \cup [kind : {"issue"}, user : UserIds, role : Roles]
  \cup [kind : {"status"}, sub : SubIds, status : SubStatuses]

\* OwnerSubscription.__post_init__ raises ValueError on any other row.
Readable(sub) == sub.status = "TRIALING" <=> sub.trial # NoTrial

\* Faulty: no unique index on the public slug.
SameEmail(e, f) ==
  /\ e.table = f.table
  /\ IF e.table = "user" THEN e.email = f.email ELSE e.owner = f.owner

\* UNIQUE(email) and UNIQUE(public_slug), where NULLs differ; UNIQUE(owner_id).
SameKey(e, f) ==
  /\ e.table = f.table
  /\ IF e.table = "user"
     THEN e.email = f.email \/ (e.slug # NoSlug /\ e.slug = f.slug)
     ELSE e.owner = f.owner

\* The unique index, as an INSERT meets it.
Waits(s, i) == \E f \in InFlight(s) : SameKey(staged[s][i], f)
Taken(s, i) == \E f \in Stored : SameKey(staged[s][i], f)

\* The keys of all new rows are free; one of them is not.
KeysFree(s) ==
  \A i \in Ids : staged[s][i] # NoRow => ~Waits(s, i) /\ ~Taken(s, i)
KeyRefused(s) ==
  \E i \in Ids : staged[s][i] # NoRow /\ ~Waits(s, i) /\ Taken(s, i)

ASSUME KeyAssumption ==
  /\ UserIds \cap SubIds = {} /\ Ids = UserIds \cup SubIds
  /\ SubOf \in [UserIds -> SubIds]
  /\ \A u, v \in UserIds : SubOf[u] = SubOf[v] => u = v
  /\ NoRow # Gone /\ AdminEmail \in Emails
  /\ \A i \in Ids : NoRow \notin RowsOf(i) /\ Gone \notin RowsOf(i)
  /\ \A n \in Names : /\ Len(Candidates[n]) \in Nat \ {0}
                      /\ DOMAIN Candidates[n] = 1..Len(Candidates[n])
  /\ NoSlug \notin Slugs /\ NoTrial \notin Nat
  /\ {TrialDuration, AccessTTL, RefreshTTL, MaxTime, MaxCommands} \subseteq Nat
  /\ AccessTTL <= RefreshTTL

ASSUME SeedAssumption ==
  /\ Seed = [i \in Ids |-> Seed[i]]
  /\ \A i \in Ids : Seed[i] \in RowsOf(i) \cup {NoRow}
  /\ \A i, j \in Ids : i # j /\ Seed[i] # NoRow /\ Seed[j] # NoRow =>
       ~SameKey(Seed[i], Seed[j])
  /\ \A i \in SubIds : Seed[i] # NoRow => Readable(Seed[i])
  /\ \A u \in UserIds : Seed[u] # NoRow /\ Seed[u].role = "owner" =>
       Seed[u].slug # NoSlug /\ Seed[SubOf[u]] # NoRow
  /\ \A i \in SubIds : Seed[i] # NoRow => SubOf[Seed[i].owner] = i
  /\ SeedPairs \subseteq TokenPair
  /\ \A p \in SeedPairs : p.at = 0 /\ Seed[p.user] # NoRow
                       /\ Seed[p.user].active /\ Seed[p.user].role = p.role

Init ==
  /\ rows = Seed
  /\ StoreInit
  /\ clock = 0
  /\ pairs = SeedPairs
  /\ task = [s \in Sessions |-> NoTask]
  /\ told = [i \in SubIds |-> IF Seed[i] = NoRow THEN "TRIALING" ELSE Seed[i].status]
  /\ commands = 0
  /\ promoted = {}
  /\ changedAt = [u \in UserIds |-> 0]

TakeUp(s, kind) ==
  /\ pc[s] = "idle" /\ kind \in Kinds
  /\ commands < MaxCommands
  /\ commands' = commands + 1

(***************************************************************************)
(* Tokens.  issue_pair signs an access and a refresh token with one set of *)
(* claims; decode accepts a token up to and including its exp.             *)
(***************************************************************************)
AccessValid(p) == clock <= p.at + AccessTTL
RefreshValid(p) == clock <= p.at + RefreshTTL

\* require_role(ADMIN): the role is the one in the claims, not the one in the row.
AdminPresent == \E p \in pairs : AccessValid(p) /\ p.role = "admin"

Issue(s) ==
  /\ pc[s] = "issue"
  /\ pairs' = pairs \cup {[user |-> task[s].user, role |-> task[s].role, at |-> clock]}
  /\ pc' = [pc EXCEPT ![s] = "save"]
  /\ UNCHANGED <<rows, staged, seen, draft, mixed, outdated, torn, lost,
                 clock, task, told, commands, promoted, changedAt>>

\* A password that is right.  A hash with old parameters is replaced: the whole
\* user is written back, while the tokens are issued from it as it was loaded.
Login(s, u) ==
  /\ TakeUp(s, "login")
  /\ rows[u] # NoRow /\ rows[u].active
  /\ task' = [task EXCEPT ![s] = [kind |-> "issue", user |-> u, role |-> rows[u].role]]
  /\ Stage(s, IF rows[u].hash = "old" THEN Only(u, [rows[u] EXCEPT !.hash = "new"])
                                     ELSE Nothing, "issue")
  /\ UNCHANGED accountVars

\* Faulty: the new pair repeats the claims of the old one.
RefreshFromClaims(s) ==
  /\ TakeUp(s, "refresh")
  /\ \E p \in pairs :
       /\ RefreshValid(p)
       /\ rows[p.user] # NoRow /\ rows[p.user].active
       /\ task' = [task EXCEPT ![s] = [kind |-> "issue", user |-> p.user, role |-> p.role]]
  /\ Stage(s, Nothing, "issue")
  /\ UNCHANGED accountVars

\* A refresh token is not used up.  The user is read again.
Refresh(s) ==
  /\ TakeUp(s, "refresh")
  /\ \E p \in pairs :
       /\ RefreshValid(p)
       /\ rows[p.user] # NoRow /\ rows[p.user].active
       /\ task' = [task EXCEPT ![s] =
                     [kind |-> "issue", user |-> p.user, role |-> rows[p.user].role]]
  /\ Stage(s, Nothing, "issue")
  /\ UNCHANGED accountVars

(***************************************************************************)
(* Registration.                                                           *)
(***************************************************************************)
EmailFree(email) == \A u \in UserIds : rows[u] # NoRow => rows[u].email # email

\* Faulty: the password is stored as it was sent.
NewUserUnhashed(email, role, slug) ==
  [table |-> "user", email |-> email, hash |-> "plain", role |-> role, slug |-> slug,
   active |-> TRUE]

NewUser(email, role, slug) ==
  [table |-> "user", email |-> email, hash |-> "new", role |-> role, slug |-> slug,
   active |-> TRUE]

\* OwnerSubscription.create_trialing.
NewSub(u) ==
  [table |-> "sub", owner |-> u, status |-> "TRIALING", trial |-> clock + TrialDuration]

\* uuid4: nobody has the key, in a row or in memory.
FreshUser(u) ==
  /\ Fresh(u) /\ Fresh(SubOf[u])
  /\ \A s \in Sessions : task[s].kind = "register" => task[s].user # u

\* A customer has no slug and no subscription.
RegisterCustomer(s, u) ==
  /\ TakeUp(s, "register") /\ FreshUser(u)
  /\ \E email \in Emails : /\ EmailFree(email)
                          /\ Stage(s, Only(u, NewUser(email, "customer", NoSlug)), "insert")
  /\ UNCHANGED <<accountVars, task>>

BeginOwner(s, u) ==
  /\ TakeUp(s, "register") /\ FreshUser(u)
  /\ \E email \in Emails, name \in Names :
       /\ EmailFree(email)
       /\ task' = [task EXCEPT ![s] = [kind |-> "register", name |-> name, attempt |-> 1,
                                       user |-> u, email |-> email]]
  /\ Stage(s, Nothing, "slug")
  /\ UNCHANGED accountVars

SlugFree(slug) == \A u \in UserIds : rows[u] # NoRow => rows[u].slug # slug

\* Faulty: the subscription is left to a second request.
TakeSlugOnly(s) ==
  LET t == task[s]
      slug == Candidates[t.name][t.attempt] IN
  /\ pc[s] = "slug" /\ SlugFree(slug)
  /\ Stage(s, Only(t.user, NewUser(t.email, "owner", slug)), "insert")
  /\ task' = [task EXCEPT ![s] = NoTask]
  /\ UNCHANGED <<accountVars, commands>>

\* One SELECT per attempt.  users.add() only queues the new user: user and
\* subscription are inserted by one flush.
TakeSlug(s) ==
  LET t == task[s]
      slug == Candidates[t.name][t.attempt] IN
  /\ pc[s] = "slug" /\ SlugFree(slug)
  /\ Stage(s, [Nothing EXCEPT ![t.user] = NewUser(t.email, "owner", slug),
                              ![SubOf[t.user]] = NewSub(t.user)], "insert")
  /\ task' = [task EXCEPT ![s] = NoTask]
  /\ UNCHANGED <<accountVars, commands>>

NextSlug(s) ==
  LET t == task[s] IN
  /\ pc[s] = "slug" /\ ~SlugFree(Candidates[t.name][t.attempt])
  /\ t.attempt < Len(Candidates[t.name])
  /\ task' = [task EXCEPT ![s].attempt = t.attempt + 1]
  /\ UNCHANGED <<storeVars, accountVars, commands>>

\* PublicSlugAlreadyTaken.
RefuseSlug(s) ==
  LET t == task[s] IN
  /\ pc[s] = "slug" /\ ~SlugFree(Candidates[t.name][t.attempt])
  /\ t.attempt = Len(Candidates[t.name])
  /\ Rollback(s)
  /\ task' = [task EXCEPT ![s] = NoTask]
  /\ UNCHANGED <<accountVars, commands>>

\* scripts/bootstrap_admin.py.
Bootstrap(s, u) ==
  /\ TakeUp(s, "bootstrap") /\ FreshUser(u)
  /\ EmailFree(AdminEmail)
  /\ Stage(s, Only(u, NewUser(AdminEmail, "admin", NoSlug)), "insert")
  /\ UNCHANGED <<accountVars, task>>

Insert(s) == KeysFree(s) /\ InsertRows(s) /\ UNCHANGED <<accountVars, task, commands>>

RefuseInsert(s) ==
  KeyRefused(s) /\ InsertRefused(s) /\ UNCHANGED <<accountVars, task, commands>>

(***************************************************************************)
(* The administrator's commands.                                           *)
(***************************************************************************)
\* Faulty: a new role comes with an active account.
PromoteAndActivate(s, u) ==
  /\ TakeUp(s, "promote") /\ AdminPresent
  /\ rows[u] # NoRow
  /\ \E role \in Roles :
       Stage(s, Only(u, [rows[u] EXCEPT !.role = role, !.active = TRUE]), "save")
  /\ UNCHANGED <<accountVars, task>>

\* Any role to any role: slug and subscription stay as they are.
Promote(s, u) ==
  /\ TakeUp(s, "promote") /\ AdminPresent
  /\ rows[u] # NoRow
  /\ \E role \in Roles : Stage(s, Only(u, [rows[u] EXCEPT !.role = role]), "save")
  /\ UNCHANGED <<accountVars, task>>

Deactivate(s, u) ==
  /\ TakeUp(s, "deactivate") /\ AdminPresent
  /\ rows[u] # NoRow
  /\ Stage(s, Only(u, [rows[u] EXCEPT !.active = FALSE]), "save")
  /\ UNCHANGED <<accountVars, task>>

\* Faulty: the end of the trial is set and never cleared.
TransitionKeepsTrial(sub, status) ==
  [sub EXCEPT !.status = status,
              !.trial = IF status = "TRIALING" THEN clock + TrialDuration ELSE @]

\* OwnerSubscription.transition_to, any status to any other.
TransitionTo(sub, status) ==
  [sub EXCEPT !.status = status,
              !.trial = IF status = "TRIALING" THEN clock + TrialDuration ELSE NoTrial]

\* The status the row has already is a success that writes nothing.
SetStatus(s, u) ==
  LET i == SubOf[u] IN
  /\ TakeUp(s, "status") /\ AdminPresent
  /\ rows[u] # NoRow /\ rows[u].role = "owner"
  /\ rows[i] # NoRow /\ Readable(rows[i])
  /\ \E status \in SubStatuses \ {rows[i].status} :
       /\ Stage(s, Only(i, TransitionTo(rows[i], status)), "save")
       /\ task' = [task EXCEPT ![s] = [kind |-> "status", sub |-> i, status |-> status]]
  /\ UNCHANGED accountVars

Overdue == {i \in SubIds : /\ rows[i] # NoRow /\ rows[i].status = "TRIALING"
                           /\ rows[i].trial # NoTrial /\ rows[i].trial < clock}

\* The job transitions every overdue trial and flushes it ...
ExpireTrials(s) ==
  /\ TakeUp(s, "expire")
  /\ Overdue # {}
  /\ Stage(s, [i \in Ids |-> IF i \in Overdue THEN TransitionTo(rows[i], "INACTIVE")
                                             ELSE NoRow], "save")
  /\ task' = [task EXCEPT ![s] = [kind |-> "job"]]
  /\ UNCHANGED accountVars

\* ... and returns from inside the loop over get_session(): nothing is committed.
JobReturns(s) ==
  /\ Saved(s) /\ task[s].kind = "job"
  /\ Rollback(s)
  /\ task' = [task EXCEPT ![s] = NoTask]
  /\ UNCHANGED <<accountVars, commands>>

(***************************************************************************)
(* The rest of every transaction, and time.                                *)
(***************************************************************************)
Save(s, i) ==
  /\ SelectRow(s, i) \/ WriteRow(s, i)
  /\ UNCHANGED <<accountVars, task, commands>>

\* Faulty: the owner is told of every new status but the last one there is.
AnnouncedButInactive(s) ==
  IF task[s].kind = "status" /\ task[s].status # "INACTIVE"
  THEN [told EXCEPT ![task[s].sub] = task[s].status] ELSE told

\* The notification row is inserted by the same transaction.
Announced(s) ==
  IF task[s].kind = "status" THEN [told EXCEPT ![task[s].sub] = task[s].status] ELSE told

Commit(s) ==
  /\ task[s].kind # "job"
  /\ CommitRows(s)
  /\ told' = Announced(s)
  /\ promoted' = promoted \cup {u \in UserIds : /\ rows[u] # NoRow
                                               /\ rows'[u].role # rows[u].role}
  /\ changedAt' = [u \in UserIds |->
       IF rows[u] # NoRow /\ <<rows'[u].role, rows'[u].active>> # <<rows[u].role, rows[u].active>>
       THEN clock ELSE changedAt[u]]
  /\ task' = [task EXCEPT ![s] = NoTask]
  /\ UNCHANGED <<clock, pairs, commands>>

Fail(s) ==
  /\ Abort(s)
  /\ task' = [task EXCEPT ![s] = NoTask]
  /\ UNCHANGED <<accountVars, commands>>

\* Login and refresh take less than the unit of the clock.
Tick ==
  /\ clock < MaxTime
  /\ \A s \in Sessions : pc[s] # "issue"
  /\ clock' = clock + 1
  /\ pairs' = {p \in pairs : clock + 1 <= p.at + RefreshTTL}
  /\ UNCHANGED <<storeVars, task, told, commands, promoted, changedAt>>

Step(s) ==
  \/ \E u \in UserIds : \/ Login(s, u) \/ RegisterCustomer(s, u) \/ BeginOwner(s, u)
                        \/ Bootstrap(s, u) \/ Promote(s, u) \/ Deactivate(s, u)
                        \/ SetStatus(s, u)
  \/ Refresh(s) \/ Issue(s)
  \/ TakeSlug(s) \/ NextSlug(s) \/ RefuseSlug(s)
  \/ Insert(s) \/ RefuseInsert(s)
  \/ ExpireTrials(s) \/ JobReturns(s)
  \/ \E i \in Ids : Save(s, i)
  \/ Commit(s) \/ Fail(s)

\* Nothing is left to do within the bounds.
Finished ==
  /\ clock = MaxTime /\ \A s \in Sessions : pc[s] = "idle"
  /\ UNCHANGED vars

Next == (\E s \in Sessions : Step(s)) \/ Tick \/ Finished

Spec == Init /\ [][Next]_vars

(***************************************************************************)
(* Properties.                                                             *)
(***************************************************************************)
TypeOK ==
  /\ \A i \in Ids : rows[i] \in RowsOf(i) \cup {NoRow}
  /\ pc \in [Sessions -> {"idle", "slug", "issue", "insert", "save"}]
  /\ \A s \in Sessions, i \in Ids :
       /\ staged[s][i] \in RowsOf(i) \cup {NoRow}
       /\ seen[s][i] \in RowsOf(i) \cup {NoRow}
       /\ draft[s][i] \in RowsOf(i) \cup {NoRow}
  /\ mixed \in [Sessions -> SUBSET Ids] /\ outdated \in [Sessions -> SUBSET Ids]
  /\ torn \subseteq Ids /\ lost \subseteq Ids
  /\ clock \in Times /\ commands \in 0..MaxCommands
  /\ pairs \subseteq TokenPair
  /\ \A s \in Sessions : task[s] \in Tasks
  /\ told \in [SubIds -> SubStatuses]
  /\ promoted \subseteq UserIds /\ changedAt \in [UserIds -> Times]

\* The e-mail and the slug are looked up before the INSERT; two registrations
\* that both find them free never both commit.
KeysUnique ==
  /\ \A u, v \in UserIds : u # v /\ rows[u] # NoRow /\ rows[v] # NoRow =>
       rows[u].email # rows[v].email /\ rows[u].slug \notin {rows[v].slug} \ {NoSlug}
  /\ \A i, j \in SubIds : i # j /\ rows[i] # NoRow /\ rows[j] # NoRow =>
       rows[i].owner # rows[j].owner

\* user.py:68 with register_user.py:81-104: an owner has a public slug and a
\* subscription, whatever fails half-way.  It takes a promotion to make one
\* without.
OwnersComplete ==
  \A u \in UserIds : rows[u] # NoRow /\ rows[u].role = "owner" /\ u \notin promoted =>
    rows[u].slug # NoSlug /\ rows[SubOf[u]] # NoRow

\* owner_subscription.py:30-38: every stored subscription can be loaded, unless
\* the columns of two concurrent writes met in its row.
SubscriptionReadable ==
  \A i \in SubIds : rows[i] # NoRow /\ i \notin torn => Readable(rows[i])

\* set_owner_subscription_status.py:61-74: the last thing an owner was told is
\* the status of the row, also when two administrators change it at once,
\* unless the columns of their writes met.
NoticeMatchesStatus ==
  \A i \in SubIds : rows[i] # NoRow /\ i \notin torn => told[i] = rows[i].status

\* deps.py:53 trusts the claims for as long as the access token lives, and
\* refresh_token.py:37-48 reads the row again: a deactivated user, or one with
\* a new role, has old access for one access token's life and not longer.
AccessEnds ==
  \A p \in pairs : AccessValid(p) =>
    \/ rows[p.user].active /\ rows[p.user].role = p.role
    \/ clock <= changedAt[p.user] + AccessTTL

\* No command reactivates an account: is_active comes back only with a user that
\* was loaded before the deactivation and saved after it.
DeactivationIsFinal ==
  [][\A u \in UserIds : rows[u] # NoRow /\ ~rows[u].active =>
       ~rows'[u].active \/ u \in lost']_vars
=============================================================================
