---------------------------- MODULE A2AAdmission ----------------------------
(***************************************************************************)
(* Admission of A2A work items: who may submit what, under which budget,   *)
(* and as a child of what.  Source: A2ACoordinator.submit and TaskStore.   *)
(* create in pipeline/a2a_coordination.py.                                 *)
(*                                                                         *)
(* create holds the store's lock from the idempotency check to the append, *)
(* so an admission is one step; only a crash splits it, because the        *)
(* append makes the task's directory before it links the first event into  *)
(* it.  What happens to an admitted task is A2ADispatch; here it only ends *)
(* at some point, and gives back its reservation.  There is one principal. *)
(***************************************************************************)
EXTENDS Naturals, FiniteSets, FiniteSetsExt

CONSTANTS
  Ids,       \* work item identities
  NoParent,  \* parent_work_item_id is None
  Paths,     \* repository paths
  Beneath,   \* pairs <<d, p>>: p lies strictly below directory d
  Keys,      \* budget keys
  MaxBudget, \* the largest amount an item or a ceiling names
  Effects,   \* MCP effects
  Grants,    \* the revisions of the authority that coordinators have loaded
  Workers,   \* the worker profiles of the policy
  Requests   \* the work items clients submit

\* A scope is one path, or the tree "<path>/**".
Scope == [at : Paths, tree : BOOLEAN]

\* A budget or a ceiling names some of the keys.
Budget == UNION {[K -> 0 .. MaxBudget] : K \in SUBSET Keys}

Item ==
  [parent    : Ids \cup {NoParent},
   effects   : SUBSET Effects,
   allowed   : SUBSET Scope,
   protected : SUBSET Scope,
   budget    : Budget]

\* The fields of AuthorityGrant and WorkerProfile that bound an item; a grant
\* also has a revision, for its digest.
Bounds == [effects : SUBSET Effects, allowed : SUBSET Scope, max : Budget]
Grant == [revision : Nat, effects : SUBSET Effects, allowed : SUBSET Scope, max : Budget]

ASSUME AdmissionAssumption ==
  /\ IsFiniteSet(Ids)
  /\ NoParent \notin Ids
  /\ MaxBudget \in Nat
  /\ Beneath \subseteq Paths \X Paths
  /\ \A d, p, q \in Paths :
       <<d, p>> \in Beneath /\ <<p, q>> \in Beneath => <<d, q>> \in Beneath
  /\ Requests \subseteq Item
  /\ Grants \subseteq Grant
  /\ Workers \subseteq Bounds

VARIABLES
  journal,  \* a task's directory: absent, empty, or with events of a live or ended task
  record    \* the item, as asked for and as stored, its grant and its worker

vars == <<journal, record>>

-----------------------------------------------------------------------------
(* Scopes                                                                  *)

\* _scope_contains: a tree contains what starts with its path.
ScopeContains(container, candidate) ==
  IF container.tree
  THEN \/ candidate.at = container.at
       \/ <<container.at, candidate.at>> \in Beneath
  ELSE ~ candidate.tree /\ candidate.at = container.at

\* _path_allowed for one scope: a changed path that matches it.
Matches(path, scope) ==
  IF scope.tree THEN <<scope.at, path>> \in Beneath ELSE path = scope.at

\* Every scope of one set is within some scope of another.
Within(scopes, containers) ==
  \A s \in scopes : \E c \in containers : ScopeContains(c, s)

\* The paths a result of the item may change (_validate_result).
MayChange(item) ==
  {p \in Paths : /\ \E s \in item.allowed : Matches(p, s)
                 /\ \A s \in item.protected : ~ Matches(p, s)}

-----------------------------------------------------------------------------
(* Budgets                                                                 *)

Amount(item, key) == IF key \in DOMAIN item.budget THEN item.budget[key] ELSE 0

Lower(a, b) == IF a < b THEN a ELSE b

\* The ceiling that submit hands to create: keys that both sides limit.
AggregateCeiling(g, w) ==
  [key \in DOMAIN g.max \cap DOMAIN w.max |-> Lower(g.max[key], w.max[key])]

\* How much of a key the items of some tasks name together.
ReservedIn(rec, ids, key) ==
  MapThenSumSet(LAMBDA id : Amount(rec[id].item, key), ids)

Reserved(ids, key) == ReservedIn(record, ids, key)

\* Live tasks of one revision of the authority, and of one parent.
UnderGrant(g) == {id \in Ids : journal[id] = "active" /\ record[id].grant = g}

Children(parent) ==
  {id \in Ids : journal[id] = "active" /\ record[id].item.parent = parent}

\* Mutant of Fits: each item is compared with the ceiling on its own.
FitsAlone(item, ceiling, ids) ==
  \A key \in DOMAIN ceiling : Amount(item, key) <= ceiling[key]

\* Another item fits under a ceiling beside the tasks that hold reservations.
Fits(item, ceiling, ids) ==
  \A key \in DOMAIN ceiling : Amount(item, key) + Reserved(ids, key) <= ceiling[key]

-----------------------------------------------------------------------------
(* The verdict on a submission                                             *)

Loadable(id) == id \in Ids /\ journal[id] \in {"active", "ended"}

\* _effective_item: the parent's protected paths are inherited first.
Effective(req) ==
  IF req.parent = NoParent THEN req
  ELSE [req EXCEPT !.protected = @ \cup record[req.parent].item.protected]

Authorized(item, g, w) ==
  /\ item.effects \subseteq g.effects \cap w.effects
  /\ Within(item.allowed, g.allowed) /\ Within(item.allowed, w.allowed)
  /\ \A key \in DOMAIN item.budget :
       /\ key \in DOMAIN g.max \cup DOMAIN w.max
       /\ \A limits \in {g.max, w.max} :
            key \in DOMAIN limits => item.budget[key] <= limits[key]

\* Mutant of WithinParent: only the paths are compared.
WithinParentPaths(item, parent) ==
  Within(item.allowed, parent.allowed) /\ Within(parent.protected, item.protected)

WithinParent(item, parent) ==
  /\ item.effects \subseteq parent.effects
  /\ Within(item.allowed, parent.allowed)
  /\ Within(parent.protected, item.protected)

\* submit up to create's append, in the order of its checks.  create reads the
\* journal of every task, and one it cannot read ends it with TASK_NOT_FOUND.
Verdict(id, req, g, w) ==
  LET item == Effective(req)
      parent == record[req.parent].item
      orphan == req.parent # NoParent /\ ~ Loadable(req.parent)
  IN IF orphan THEN "TASK_NOT_FOUND"
     ELSE IF ~ Authorized(item, g, w) THEN "AUTHORITY_DENIED"
     ELSE IF Loadable(id) THEN
            IF record[id].item = item THEN "existing" ELSE "IDEMPOTENCY_CONFLICT"
     ELSE IF \E other \in Ids : journal[other] = "empty" THEN "TASK_NOT_FOUND"
     ELSE IF ~ Fits(item, AggregateCeiling(g, w), UnderGrant(g))
          THEN "AGGREGATE_BUDGET_DENIED"
     ELSE IF req.parent = NoParent THEN "created"
     ELSE IF ~ WithinParent(item, parent) THEN "PARENT_AUTHORITY_DENIED"
     ELSE IF ~ Fits(item, parent.budget, Children(req.parent))
          THEN "PARENT_BUDGET_DENIED"
     ELSE "created"

-----------------------------------------------------------------------------
(* Steps                                                                   *)

Init ==
  /\ journal = [id \in Ids |-> "absent"]
  /\ record = [id \in Ids |-> <<>>]

\* Mutant of Store: the item is stored as it was asked for.
StoreAsAsked(id, req, g, w, now) ==
  /\ journal' = [journal EXCEPT ![id] = now]
  /\ record' = [record EXCEPT ![id] =
                  [asked |-> req, item |-> req, grant |-> g, worker |-> w]]

\* The record of a submission, written to the journal as `now'.
Store(id, req, g, w, now) ==
  /\ journal' = [journal EXCEPT ![id] = now]
  /\ record' = [record EXCEPT ![id] =
                  [asked |-> req, item |-> Effective(req), grant |-> g, worker |-> w]]

\* An admitted submission.  Every other verdict leaves the store as it is.
Submit(id, req, g, w) ==
  /\ req.parent # id
  /\ Verdict(id, req, g, w) = "created"
  /\ Store(id, req, g, w, "active")

\* The process dies in _append_unlocked, after mkdir and before os.link.  The
\* record of an empty journal is history: what was being stored.
CrashInAppend(id, req, g, w) ==
  /\ req.parent # id
  /\ Verdict(id, req, g, w) = "created"
  /\ Store(id, req, g, w, "empty")

\* The task reaches a terminal state (A2ADispatch) and its reservation ends.
End(id) ==
  /\ journal[id] = "active"
  /\ journal' = [journal EXCEPT ![id] = "ended"]
  /\ UNCHANGED record

Next ==
  \E id \in Ids :
    \/ End(id)
    \/ \E req \in Requests, g \in Grants, w \in Workers :
         Submit(id, req, g, w) \/ CrashInAppend(id, req, g, w)

Spec == Init /\ [][Next]_vars

-----------------------------------------------------------------------------
(* Properties                                                              *)

Stored == {id \in Ids : Loadable(id)}

TypeOK ==
  /\ journal \in [Ids -> {"absent", "empty", "active", "ended"}]
  /\ DOMAIN record = Ids
  /\ \A id \in Ids :
       journal[id] # "absent" =>
         record[id] \in [asked : Requests, item : Item, grant : Grants,
                         worker : Workers]

\* Work admitted by any coordinator under one revision of the authority, for
\* any of the workers, together stays within the authority's ceiling for every
\* key that the authority and all its workers limit.
CeilingIsShared ==
  \A g \in Grants :
    \A key \in DOMAIN g.max :
      (\A w \in Workers : key \in DOMAIN w.max) =>
        Reserved(UnderGrant(g), key) <= g.max[key]

\* The live children of a task, admitted at any time and in any order, never
\* reserve more of a key than the parent was given.
ChildrenFitParent ==
  \A parent \in Stored :
    LET budget == record[parent].item.budget IN
    \A key \in DOMAIN budget : Reserved(Children(parent), key) <= budget[key]

\* The ancestors of a task, itself included, within the number of tasks.
Parents(ids) == {record[id].item.parent : id \in ids} \ {NoParent}

Ancestry(id) ==
  LET up[n \in 0 .. Cardinality(Ids)] ==
        IF n = 0 THEN {id} ELSE up[n - 1] \cup Parents(up[n - 1])
  IN up[Cardinality(Ids)]

\* However long the chain of delegation: a task has no effect and no path scope
\* an ancestor lacks, keeps every ancestor's protected scopes, and may change a
\* path only if the ancestor may, save the root of one of the ancestor's trees.
DelegationOnlyNarrows ==
  \A id \in Stored : \A top \in Ancestry(id) :
    LET below == record[id].item
        above == record[top].item
        roots == {s.at : s \in {t \in above.allowed : t.tree}}
    IN /\ below.effects \subseteq above.effects
       /\ Within(below.allowed, above.allowed)
       /\ above.protected \subseteq below.protected
       /\ MayChange(below) \subseteq MayChange(above) \cup roots

\* A client that repeats a submission is answered with the stored task, even
\* though what it sends is not what was hashed and stored.
ResubmissionIsIdempotent ==
  \A id \in Stored :
    LET r == record[id] IN Verdict(id, r.asked, r.grant, r.worker) = "existing"

\* docs/A2A_COORDINATION.md:106-107, reusing an ID with identical content is
\* idempotent: also when the first attempt died while it stored the record.
RetryAfterCrash ==
  \A id \in Ids :
    journal[id] = "empty" =>
      LET r == record[id] IN
      Verdict(id, r.asked, r.grant, r.worker) # "TASK_NOT_FOUND"

\* A stored task was authorised as it stands, within a parent that is stored.
Justified(id) ==
  LET r == record[id] IN
  /\ r.item = Effective(r.asked)
  /\ Authorized(r.item, r.grant, r.worker)
  /\ r.item.parent # NoParent =>
       /\ Loadable(r.item.parent)
       /\ WithinParent(r.item, record[r.item.parent].item)

\* The inductive invariant: with TypeOK it implies the invariants above.
IInv ==
  /\ \A id \in Stored : Justified(id)
  /\ CeilingIsShared
  /\ ChildrenFitParent

=============================================================================
