------------------------- MODULE PublicPagesProofs --------------------------
(***************************************************************************)
(* What visitors see, for every number of owners, resources, page sizes    *)
(* and commits by others: nothing is shown that was never allowed, and     *)
(* what was visible all the time is not missed.                            *)
(***************************************************************************)
EXTENDS PublicPages, FiniteSetTheorems, WellFoundedInduction, TLAPS

(***************************************************************************)
(* A page of the newest.                                                   *)
(***************************************************************************)

\* What is pushed from a page is pushed by as many newer ones as fit on it.
LEMMA PushedByNewer ==
  ASSUME NEW S \in SUBSET Nat, IsFiniteSet(S), PageLimit \in Nat,
         NEW r \in S, r \notin Newest(S)
  PROVE  Cardinality({q \in Newest(S) : q > r}) >= PageLimit
<1>. DEFINE Above(x) == {q \in S : q > x}
            Out == {x \in S : x > r} \ Newest(S)
            Kept == {q \in Newest(S) : q > r}
<1>0. \A x, y, z \in S : x > y /\ y > z => x > z
  OBVIOUS
<1>1. \A x \in S : IsFiniteSet(Above(x)) /\ Cardinality(Above(x)) \in Nat
  BY FS_Subset, FS_CardinalityType
<1>2. \A x \in S \ Newest(S) : Cardinality(Above(x)) >= PageLimit
  BY <1>1 DEF Newest
<1>3. IsFiniteSet(Kept) /\ Cardinality(Kept) \in Nat
  <2>1. Kept \in SUBSET S
    BY DEF Newest
  <2>. QED
    BY <2>1, FS_Subset, FS_CardinalityType
<1>4. CASE Out = {}
  <2>1. Above(r) = Kept
    BY <1>4 DEF Newest
  <2>. QED
    BY <1>2, <2>1
<1>5. CASE Out # {}
  <2>1. PICK x \in Out : \A y \in Out : Above(y) \notin (SUBSET Above(x)) \ {Above(x)}
    <3>. DEFINE F == {Above(x) : x \in Out}
    <3>1. F \subseteq FiniteSubsetsOf(S)
      BY <1>1 DEF FiniteSubsetsOf
    <3>2. F # {}
      BY <1>5
    <3>3. PICK A \in F : \A B \in F : <<B, A>> \notin StrictSubsetOrdering(S)
      <4>. HIDE DEF F
      <4>. QED
        BY <3>1, <3>2, FS_StrictSubsetOrderingWellFounded, WFMin
    <3>4. \A B \in F : B \notin (SUBSET A) \ {A}
      BY <3>3 DEF StrictSubsetOrdering
    <3>5. PICK x \in Out : A = Above(x)
      OBVIOUS
    <3>6. \A y \in Out : Above(y) \in F
      OBVIOUS
    <3>. HIDE DEF Out, Above, F
    <3>. QED
      BY <3>4, <3>5, <3>6
  <2>2. \A y \in Above(x) : y \notin Out
    <3>1. ASSUME NEW y \in Above(x), y \in Out PROVE FALSE
      <4>1. y \in Nat /\ x \in Nat /\ y > x /\ x \in S /\ y \in S
        BY <3>1
      <4>2. Above(y) \subseteq Above(x)
        <5>. HIDE DEF Out
        <5>. QED
          BY <1>0, <4>1
      <4>3. y \in Above(x) /\ y \notin Above(y)
        BY <3>1, <4>1
      <4>. QED
        BY <2>1, <3>1, <4>2, <4>3
    <3>. QED
      BY <3>1
  <2>3. Above(x) \in SUBSET Kept
    <3>1. ASSUME NEW y \in Above(x) PROVE y \in Kept
      <4>1. x \in S /\ x > r /\ y \in S /\ y > x
        BY <2>1
      <4>2. y > r
        BY <1>0, <4>1
      <4>3. y \in Newest(S)
        BY <2>2, <4>1, <4>2
      <4>. QED
        BY <4>2, <4>3
    <3>. QED
      BY <3>1
  <2>4. Cardinality(Above(x)) <= Cardinality(Kept)
    BY <1>3, <2>3, FS_Subset
  <2>5. Cardinality(Above(x)) >= PageLimit /\ Cardinality(Above(x)) \in Nat
    BY <1>1, <1>2, <2>1
  <2>. QED
    BY <1>3, <2>4, <2>5
<1>. QED
  BY <1>4, <1>5

(***************************************************************************)
(* The inductive invariant.                                                *)
(***************************************************************************)
Steps == {"done", "trialing", "users", "resources", "sub", "found"}

TypeInv ==
  /\ users \in [Owners -> [role : Roles, active : BOOLEAN]]
  /\ subs \in [Owners -> Statuses \cup {NoSub}]
  /\ resources \in [Resources -> [published : BOOLEAN, deleted : BOOLEAN]]
  /\ call \in [page : {"none", "list", "owner", "resource"}, step : Steps,
               owner : Owners \cup {NoOwner}, asked : SUBSET Resources,
               found : SUBSET Owners, shown : SUBSET Resources]
  /\ throughout \subseteq Resources

\* Where a call stands says what it is about.
StepInv ==
  /\ call.page = "none" => call.step = "done" /\ throughout = {}
  /\ call.step \in {"trialing", "users", "resources"} => call.page = "list"
  /\ call.step \in {"sub", "found"} =>
       /\ call.page \in {"owner", "resource"} /\ call.owner \in Owners
       /\ \A r \in call.asked : OwnerOf[r] = call.owner
  /\ call.step # "done" => call.shown = {}

\* The moments of a call include the present one.
MomentInv ==
  /\ \A r \in throughout : Visible(r)
  /\ call.page # "none" =>
       /\ \A u \in Owners : Paying(u) => u \in operational
       /\ \A u \in Owners : users[u].active => u \in activeOnce
       /\ \A r \in Resources : Published(r) => r \in offeredOnce

\* What was found so far has passed the gates so far.
GateInv ==
  /\ call.page = "list" => call.found \subseteq operational
  /\ call.step = "resources" => call.found \subseteq activeOnce
  /\ call.step \in {"sub", "found"} => call.owner \in activeOnce
  /\ call.step = "found" => call.owner \in operational

\* What is visible all the time has been found so far, or will be, ...
FoundInv ==
  /\ call.step = "trialing" => \A r \in throughout :
       OwnerOf[r] \in call.found \cup upgraded \/ subs[OwnerOf[r]] = "TRIALING"
  /\ call.step \in {"users", "resources"} => \A r \in throughout :
       OwnerOf[r] \in call.found \cup upgraded

PagesInv ==
  TypeInv /\ StepInv /\ MomentInv /\ GateInv /\ FoundInv
    /\ ShownWasAllowed /\ VisibleIsListed

LEMMA InitPages == Init => PagesInv
BY PagesAssumption
   DEF Init, PagesInv, TypeInv, StepInv, MomentInv, GateInv, FoundInv, ShownWasAllowed,
       VisibleIsListed, Idle, Steps, Roles, Statuses

(***************************************************************************)
(* The steps of a call.                                                    *)
(***************************************************************************)
LEMMA ListActivePages ==
  ASSUME PagesInv, ListActive
  PROVE  PagesInv'
<1>1. TypeInv' /\ StepInv'
  BY DEF PagesInv, ListActive, Begin, Goes, database, TypeInv, StepInv, Idle, Steps
<1>2. MomentInv'
  BY DEF PagesInv, ListActive, Begin, Goes, database, MomentInv, Visible, Paying, Published
<1>3. /\ call'.page = "list" /\ call'.step = "trialing" /\ call'.shown = {}
      /\ call'.found = {u \in Owners : subs[u] = "ACTIVE"}
  BY DEF ListActive, Goes, Idle
<1>4. GateInv' /\ FoundInv'
  <2>1. \A r \in Resources : Visible(r) => OwnerOf[r] \in Owners /\ Paying(OwnerOf[r])
    BY PagesAssumption DEF Visible
  <2>. QED
    BY <1>3, <2>1 DEF ListActive, Begin, Goes, database, GateInv, FoundInv, Paying, Operational
<1>5. ShownWasAllowed' /\ VisibleIsListed'
  BY <1>3 DEF ShownWasAllowed, VisibleIsListed
<1>. QED
  BY <1>1, <1>2, <1>4, <1>5 DEF PagesInv

LEMMA ListTrialingPages ==
  ASSUME PagesInv, ListTrialing
  PROVE  PagesInv'
<1>1. TypeInv' /\ StepInv' /\ MomentInv'
  BY DEF PagesInv, ListTrialing, At, Goes, database, moments, TypeInv, StepInv, Steps, MomentInv,
         Visible, Paying, Published
<1>2. GateInv' /\ FoundInv' /\ ShownWasAllowed' /\ VisibleIsListed'
  BY PagesAssumption
     DEF PagesInv, ListTrialing, At, Goes, database, moments, TypeInv, StepInv, MomentInv,
         GateInv, FoundInv, Paying, Operational, ShownWasAllowed, VisibleIsListed
<1>. QED
  BY <1>1, <1>2 DEF PagesInv

LEMMA ListOwnersPages ==
  ASSUME PagesInv, ListOwners
  PROVE  PagesInv'
<1>1. TypeInv' /\ StepInv' /\ MomentInv'
  BY DEF PagesInv, ListOwners, At, Goes, database, moments, TypeInv, StepInv, Steps, MomentInv,
         Visible, Paying, Published
<1>2. GateInv' /\ FoundInv' /\ ShownWasAllowed' /\ VisibleIsListed'
  BY PagesAssumption
     DEF PagesInv, ListOwners, At, Goes, database, moments, TypeInv, StepInv, MomentInv,
         GateInv, FoundInv, Visible, ShownWasAllowed, VisibleIsListed
<1>. QED
  BY <1>1, <1>2 DEF PagesInv

LEMMA ListResourcesPages ==
  ASSUME PagesInv, ListResources
  PROVE  PagesInv'
<1>. DEFINE S == {r \in Resources : Published(r) /\ OwnerOf[r] \in call.found}
<1>1. TypeInv' /\ StepInv' /\ MomentInv'
  BY DEF PagesInv, ListResources, At, Goes, database, moments, TypeInv, StepInv, Steps, MomentInv,
         Visible, Paying, Published, Newest
<1>2. GateInv' /\ FoundInv'
  BY DEF PagesInv, ListResources, At, Goes, database, moments, TypeInv, GateInv, FoundInv
<1>3. call'.shown = Newest(S) /\ call'.asked = call.asked
  BY DEF PagesInv, ListResources, Goes, TypeInv
<1>4. ShownWasAllowed'
  BY <1>3 DEF PagesInv, ListResources, At, moments, StepInv, MomentInv, GateInv,
              ShownWasAllowed, Newest
<1>5. VisibleIsListed'
  <2>1. S \in SUBSET Nat /\ IsFiniteSet(S) /\ PageLimit \in Nat
    BY PagesAssumption, FS_Subset
  <2>2. \A r \in throughout : r \in S \/ OwnerOf[r] \in upgraded
    BY DEF PagesInv, ListResources, At, TypeInv, MomentInv, FoundInv, Visible
  <2>3. \A r \in S : r \in Newest(S) \/ Cardinality({q \in Newest(S) : q > r}) >= PageLimit
    BY <2>1, PushedByNewer
  <2>4. throughout' = throughout /\ upgraded' = upgraded /\ call'.page = "list"
    BY DEF PagesInv, ListResources, At, Goes, moments, TypeInv
  <2>. HIDE DEF S
  <2>. QED
    BY <1>3, <2>2, <2>3, <2>4 DEF VisibleIsListed
<1>. QED
  BY <1>1, <1>2, <1>4, <1>5 DEF PagesInv

LEMMA FindOwnerPages ==
  ASSUME PagesInv, NEW page \in {"owner", "resource"}, NEW u \in Owners,
         NEW asked \in SUBSET Resources, \A r \in asked : OwnerOf[r] = u,
         FindOwner(page, u, asked)
  PROVE  PagesInv'
<1>1. TypeInv' /\ StepInv'
  BY DEF PagesInv, FindOwner, Begin, Goes, database, TypeInv, StepInv, Idle, Steps
<1>2. MomentInv'
  BY DEF PagesInv, FindOwner, Begin, Goes, database, MomentInv, Visible, Paying, Published
<1>3. GateInv' /\ FoundInv' /\ ShownWasAllowed'
  BY DEF PagesInv, FindOwner, Begin, Goes, database, TypeInv, GateInv, FoundInv, Idle,
         ShownWasAllowed
<1>4. VisibleIsListed'
  BY DEF PagesInv, FindOwner, Begin, Goes, database, Idle, Visible, VisibleIsListed
<1>. QED
  BY <1>1, <1>2, <1>3, <1>4 DEF PagesInv

LEMMA CheckSubscriptionPages ==
  ASSUME PagesInv, CheckSubscription
  PROVE  PagesInv'
<1>1. TypeInv' /\ StepInv' /\ MomentInv'
  BY DEF PagesInv, CheckSubscription, Goes, database, moments, TypeInv, StepInv, Steps, MomentInv,
         Visible, Paying, Published
<1>2. GateInv' /\ FoundInv' /\ ShownWasAllowed' /\ VisibleIsListed'
  BY DEF PagesInv, CheckSubscription, Goes, database, moments, TypeInv, StepInv, MomentInv,
         GateInv, FoundInv, Visible, ShownWasAllowed, VisibleIsListed
<1>. QED
  BY <1>1, <1>2 DEF PagesInv

LEMMA ShowResourcePages ==
  ASSUME PagesInv, ShowResource
  PROVE  PagesInv'
<1>1. TypeInv' /\ StepInv' /\ MomentInv'
  BY DEF PagesInv, ShowResource, At, Goes, database, moments, TypeInv, StepInv, Steps, MomentInv,
         Visible, Paying, Published
<1>2. GateInv' /\ FoundInv' /\ ShownWasAllowed' /\ VisibleIsListed'
  BY DEF PagesInv, ShowResource, At, Goes, database, moments, TypeInv, StepInv, MomentInv,
         GateInv, FoundInv, Visible, ShownWasAllowed, VisibleIsListed
<1>. QED
  BY <1>1, <1>2 DEF PagesInv

LEMMA ShowOwnerPages ==
  ASSUME PagesInv, ShowOwner
  PROVE  PagesInv'
<1>. DEFINE S == {r \in Resources : Published(r) /\ OwnerOf[r] = call.owner}
<1>1. TypeInv' /\ StepInv' /\ MomentInv'
  BY DEF PagesInv, ShowOwner, At, Goes, database, moments, TypeInv, StepInv, Steps, MomentInv,
         Visible, Paying, Published, Newest
<1>2. GateInv' /\ FoundInv'
  BY DEF PagesInv, ShowOwner, At, Goes, database, moments, TypeInv, GateInv, FoundInv
<1>3. call'.shown = Newest(S) /\ call'.asked = call.asked
  BY DEF PagesInv, ShowOwner, Goes, TypeInv
<1>4. ShownWasAllowed'
  BY <1>3 DEF PagesInv, ShowOwner, At, moments, StepInv, MomentInv, GateInv,
              ShownWasAllowed, Newest
<1>5. VisibleIsListed'
  <2>1. S \in SUBSET Nat /\ IsFiniteSet(S) /\ PageLimit \in Nat
    BY PagesAssumption, FS_Subset
  <2>2. \A r \in throughout \cap call.asked : r \in S
    BY DEF PagesInv, ShowOwner, At, TypeInv, StepInv, MomentInv, Visible
  <2>3. \A r \in S : r \in Newest(S) \/ Cardinality({q \in Newest(S) : q > r}) >= PageLimit
    BY <2>1, PushedByNewer
  <2>4. throughout' = throughout
    BY DEF ShowOwner, moments
  <2>. HIDE DEF S
  <2>. QED
    BY <1>3, <2>2, <2>3, <2>4 DEF VisibleIsListed
<1>. QED
  BY <1>1, <1>2, <1>4, <1>5 DEF PagesInv

(***************************************************************************)
(* The commits of others.                                                  *)
(***************************************************************************)
LEMMA CommittedPages ==
  ASSUME PagesInv, Committed,
         users' \in [Owners -> [role : Roles, active : BOOLEAN]],
         subs' \in [Owners -> Statuses \cup {NoSub}],
         resources' \in [Resources -> [published : BOOLEAN, deleted : BOOLEAN]]
  PROVE  PagesInv'
<1>1. TypeInv' /\ StepInv'
  BY DEF PagesInv, Committed, TypeInv, StepInv
<1>2. MomentInv'
  BY DEF PagesInv, Committed, TypeInv, MomentInv
<1>3. GateInv'
  BY DEF PagesInv, Committed, GateInv
<1>4. FoundInv'
  <2>1. \A r \in throughout' : r \in throughout /\ OwnerOf[r] \in Owners
                              /\ subs'[OwnerOf[r]] \in {"ACTIVE", "TRIALING"}
    BY PagesAssumption DEF PagesInv, TypeInv, Committed, Visible, Paying, Operational
  <2>. QED
    BY <2>1 DEF PagesInv, Committed, FoundInv
<1>5. ShownWasAllowed' /\ VisibleIsListed'
  BY DEF PagesInv, Committed, ShownWasAllowed, VisibleIsListed
<1>. QED
  BY <1>1, <1>2, <1>3, <1>4, <1>5 DEF PagesInv

LEMMA OthersPages ==
  ASSUME PagesInv,
         \/ \E u \in Owners : Promote(u) \/ Deactivate(u) \/ SetStatus(u)
         \/ \E r \in Resources : Publish(r) \/ Delete(r)
  PROVE  PagesInv'
<1>1. TypeInv
  BY DEF PagesInv
<1>2. ASSUME NEW u \in Owners, Promote(u) \/ Deactivate(u) PROVE PagesInv'
  BY <1>1, <1>2, CommittedPages DEF TypeInv, Promote, Deactivate
<1>3. ASSUME NEW u \in Owners, SetStatus(u) PROVE PagesInv'
  BY <1>1, <1>3, CommittedPages DEF TypeInv, SetStatus
<1>4. ASSUME NEW r \in Resources, Publish(r) PROVE PagesInv'
  <2>1. PICK on \in BOOLEAN : resources' = [resources EXCEPT ![r].published = on]
    BY <1>4 DEF Publish
  <2>2. resources' \in [Resources -> [published : BOOLEAN, deleted : BOOLEAN]]
    BY <1>1, <2>1 DEF TypeInv
  <2>. QED
    BY <1>1, <1>4, <2>2, CommittedPages DEF TypeInv, Publish
<1>5. ASSUME NEW r \in Resources, Delete(r) PROVE PagesInv'
  <2>1. resources' \in [Resources -> [published : BOOLEAN, deleted : BOOLEAN]]
    BY <1>1, <1>5 DEF TypeInv, Delete
  <2>. QED
    BY <1>1, <1>5, <2>1, CommittedPages DEF TypeInv, Delete
<1>. QED
  BY <1>2, <1>3, <1>4, <1>5

LEMMA NextPages ==
  ASSUME PagesInv, [Next]_vars
  PROVE  PagesInv'
<1>1. CASE ListActive \/ ListTrialing \/ ListOwners \/ ListResources
  BY <1>1, ListActivePages, ListTrialingPages, ListOwnersPages, ListResourcesPages
<1>2. CASE CheckSubscription \/ ShowOwner \/ ShowResource
  BY <1>2, CheckSubscriptionPages, ShowOwnerPages, ShowResourcePages
<1>3. ASSUME NEW u \in Owners, FindOwnerPage(u) PROVE PagesInv'
  BY <1>3, FindOwnerPages DEF FindOwnerPage
<1>4. ASSUME NEW r \in Resources, FindResourcePage(r) PROVE PagesInv'
  BY <1>4, FindOwnerPages, PagesAssumption DEF FindResourcePage
<1>5. CASE UNCHANGED vars
  BY <1>5 DEF vars, database, moments, PagesInv, TypeInv, StepInv, MomentInv, GateInv, FoundInv,
              Visible, Paying, Published, ShownWasAllowed, VisibleIsListed
<1>. QED
  BY <1>1, <1>2, <1>3, <1>4, <1>5, OthersPages DEF Next

(***************************************************************************)
(* The theorems.                                                           *)
(***************************************************************************)

\* Nothing is shown of an owner without a subscription that was operational at
\* some moment of the call, of an inactive owner (one that never was active
\* during it), or of a resource that was not published at any moment of it.
THEOREM ShownAllowed == Spec => []ShownWasAllowed
<1>1. Init => PagesInv
  BY InitPages
<1>2. PagesInv /\ [Next]_vars => PagesInv'
  BY NextPages
<1>3. PagesInv => ShownWasAllowed
  BY DEF PagesInv
<1>. QED
  BY <1>1, <1>2, <1>3, PTL DEF Spec

\* A resource that is visible from the first SELECT to the last is on the page
\* that was asked for it, is pushed from it by a page of newer ones, or belongs
\* to an owner who went from TRIALING to ACTIVE under the listing's eyes.
THEOREM VisibleListed == Spec => []VisibleIsListed
<1>1. Init => PagesInv
  BY InitPages
<1>2. PagesInv /\ [Next]_vars => PagesInv'
  BY NextPages
<1>3. PagesInv => VisibleIsListed
  BY DEF PagesInv
<1>. QED
  BY <1>1, <1>2, <1>3, PTL DEF Spec
=============================================================================
