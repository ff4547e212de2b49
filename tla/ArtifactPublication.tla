------------------------- MODULE ArtifactPublication --------------------------
(***************************************************************************)
(* publish_new_artifacts: several files staged, linked one by one and      *)
(* unlinked again when one of the names is taken, by several publishers    *)
(* with names in common.  Source: pipeline/mcp_artifacts.py.               *)
(***************************************************************************)
EXTENDS Naturals, FiniteSets

CONSTANTS
  Publishers,
  Names,      \* destinations under the output root, linked in this order: 1, 2, ...
  Free        \* nothing has that name

VARIABLES
  owner,   \* whose file each name holds
  calls    \* where each publisher is, and which names it created

vars == <<owner, calls>>

Call ==
  [pc : {"idle", "check", "link", "undo", "published", "refused", "dead"},
   wanted : SUBSET Names, created : SUBSET Names]

Init ==
  /\ owner = [n \in Names |-> Free]
  /\ calls = [p \in Publishers |-> [pc |-> "idle", wanted |-> {}, created |-> {}]]

Move(p, pc) == calls' = [calls EXCEPT ![p].pc = pc]

\* The content is staged in a directory of its own.
Stage(p, wanted) ==
  /\ calls[p].pc = "idle"
  /\ calls' = [calls EXCEPT ![p] = [pc |-> "check", wanted |-> wanted, created |-> {}]]
  /\ UNCHANGED owner

\* Every destination is looked at before any is linked.
CheckNames(p) ==
  /\ calls[p].pc = "check"
  /\ Move(p, IF \E n \in calls[p].wanted : owner[n] # Free THEN "refused" ELSE "link")
  /\ UNCHANGED owner

ToLink(p) == calls[p].wanted \ calls[p].created

NextName(p) == CHOOSE n \in ToLink(p) : \A k \in ToLink(p) : n <= k

\* os.link replaces nothing; a name taken since the check ends the call.
Link(p) ==
  /\ calls[p].pc = "link" /\ ToLink(p) # {}
  /\ LET n == NextName(p) IN
       IF owner[n] = Free
         THEN /\ owner' = [owner EXCEPT ![n] = p]
              /\ calls' = [calls EXCEPT ![p].created = @ \cup {n}]
         ELSE Move(p, "undo") /\ UNCHANGED owner

Finish(p) ==
  /\ calls[p].pc = "link" /\ ToLink(p) = {}
  /\ Move(p, "published")
  /\ UNCHANGED owner

\* A directory that cannot be synchronised ends the call as well.
FailLinking(p) ==
  /\ calls[p].pc = "link"
  /\ Move(p, "undo")
  /\ UNCHANGED owner

\* Mutant: what was linked is left where it is.
UndoNothing(p) ==
  /\ calls[p].pc = "undo"
  /\ Move(p, "refused")
  /\ UNCHANGED owner

\* finally: the created names are unlinked one by one, the last one first.
Undo(p) ==
  /\ calls[p].pc = "undo"
  /\ IF calls[p].created = {}
       THEN Move(p, "refused") /\ UNCHANGED owner
       ELSE LET n == CHOOSE n \in calls[p].created : \A k \in calls[p].created : n >= k IN
            /\ owner' = [owner EXCEPT ![n] = Free]
            /\ calls' = [calls EXCEPT ![p].created = @ \ {n}]

\* A publisher that is killed leaves what it has linked so far.
Die(p) ==
  /\ calls[p].pc \in {"check", "link", "undo"}
  /\ Move(p, "dead")
  /\ UNCHANGED owner

Next ==
  \E p \in Publishers :
    \/ \E wanted \in (SUBSET Names) \ {{}} : Stage(p, wanted)
    \/ CheckNames(p) \/ Link(p) \/ Finish(p) \/ FailLinking(p) \/ Undo(p) \/ Die(p)

Spec == Init /\ [][Next]_vars

-----------------------------------------------------------------------------
(* Properties                                                              *)

Holds(p) == {n \in Names : owner[n] = p}

\* publish_new_artifacts: of publishers that race for some of their names, one
\* that returns has put all of its files in place and one that is refused none;
\* only a death can leave some of them.
AllOrNothing ==
  \A p \in Publishers :
    /\ calls[p].pc = "published" => Holds(p) = calls[p].wanted
    /\ calls[p].pc = "refused" => Holds(p) = {}

\* The inductive invariant: a publisher has exactly the names it remembers.
IInv ==
  /\ owner \in [Names -> Publishers \cup {Free}]
  /\ calls \in [Publishers -> Call]
  /\ \A p \in Publishers :
       /\ Holds(p) = calls[p].created
       /\ calls[p].created \subseteq calls[p].wanted
       /\ calls[p].pc \in {"idle", "check", "refused"} => calls[p].created = {}
       /\ calls[p].pc = "published" => calls[p].created = calls[p].wanted

=============================================================================
