---------------------------- MODULE DomainRegister ----------------------------
(***************************************************************************)
(* What the protected registry promises of one domain file: it changes     *)
(* only by an approved request, each request changes it at most once, and  *)
(* it does so from exactly the content its reviewer saw.                   *)
(***************************************************************************)
CONSTANTS Requests, NoDomain

VARIABLES
  value,   \* the file: nothing, or the bytes of one request
  seen,    \* the content each request was reviewed against
  applied  \* the requests that have been published

Unseen == "unseen"

Init ==
  /\ value = NoDomain
  /\ seen = [r \in Requests |-> Unseen]
  /\ applied = {}

Prepare(r) ==
  /\ seen[r] = Unseen
  /\ seen' = [seen EXCEPT ![r] = value]
  /\ UNCHANGED <<value, applied>>

Apply(r) ==
  /\ r \notin applied /\ seen[r] = value
  /\ value' = r
  /\ applied' = applied \cup {r}
  /\ UNCHANGED seen

Next == \E r \in Requests : Prepare(r) \/ Apply(r)

Spec == Init /\ [][Next]_<<value, seen, applied>>

=============================================================================
