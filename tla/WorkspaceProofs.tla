---------------------------- MODULE WorkspaceProofs ----------------------------
(***************************************************************************)
(* Proofs about the components of Workspace other than the promotion, for  *)
(* any number of clients, candidates, publishers, names, states and        *)
(* chunks: each has an inductive invariant, and a component that does not  *)
(* run keeps its own.                                                      *)
(***************************************************************************)
EXTENDS Workspace, Sequences, WellFoundedInduction, TLAPS

-----------------------------------------------------------------------------
(* The session                                                             *)

SessionInv == Session!TypeOK /\ Session!IInv

LEMMA NobodyIsNone ==
  /\ None \notin Clients /\ None \notin Candidates /\ None # Foreign
  /\ MaxRevisions \in Nat /\ MaxRevisions > 0 /\ MaxTampers \in Nat /\ MaxCrashes \in Nat
  BY WorkspaceAssumption, PromotionAssumption

LEMMA RecordFacts ==
  ASSUME NEW r \in Session!Record
  PROVE  /\ r.revision \in Nat /\ r.revision < MaxRevisions
         /\ r.base \in 0 .. MaxRevisions - 1 /\ r.status \in Session!Statuses
         /\ r.candidate \in Candidates \cup {None}
  BY NobodyIsNone DEF Session!Record

LEMMA SessionInit == Session!Init => SessionInv
  <1> SUFFICES ASSUME Session!Init
               PROVE  Session!TypeOK /\ Session!IInv
    BY DEF SessionInv
  <1>1. /\ last \in Session!Record /\ last.candidate = None
        /\ last.status \in {"CLARIFYING", "READY"}
    <2>1. 0 \in 0 .. MaxRevisions - 1
      BY NobodyIsNone
    <2> QED
      BY <2>1 DEF Session!Init, Session!Record, Session!Statuses
  <1>2. clients \in [Clients -> Session!Call]
    BY NobodyIsNone DEF Session!Init, Session!Call
  <1>3. Session!TypeOK
    <2>1. tampers \in 0 .. MaxTampers /\ deaths \in 0 .. MaxCrashes
      BY NobodyIsNone DEF Session!Init
    <2> QED
      BY <1>1, <1>2, <2>1 DEF Session!Init, Session!TypeOK
  <1>4. \A c \in Clients : Session!CallInv(c)
    BY NobodyIsNone DEF Session!Init, Session!CallInv
  <1>5. Session!IInv
    BY <1>1, <1>4 DEF Session!Init, Session!IInv, Session!FinalizedWasPublished
  <1> QED
    BY <1>3, <1>5

\* A client's call: the one that holds the lock, or one that takes it.
LEMMA ClientFacts ==
  ASSUME SessionInv, NEW c \in Clients,
         clients[c].pc # "idle" \/ appending = None
  PROVE  /\ Session!TypeOK /\ clients[c] \in Session!Call /\ Session!CallInv(c)
         /\ clients \in [Clients -> Session!Call] /\ last \in Session!Record
         /\ \A d \in Clients : d # c => clients[d].pc = "idle"
         /\ last.candidate # None <=> last.status \in {"PREPARED", "FINALIZED"}
         /\ file # None => file \in present
         /\ last.status = "FINALIZED" => last.candidate \in present
  <1>1. Session!TypeOK /\ Session!IInv /\ \A d \in Clients : Session!CallInv(d)
    BY DEF SessionInv, Session!IInv
  <1>2. \A d \in Clients : d # c => clients[d].pc = "idle"
    BY <1>1, NobodyIsNone DEF Session!CallInv
  <1> QED
    BY <1>1, <1>2 DEF Session!TypeOK, Session!IInv, Session!FinalizedWasPublished

LEMMA OtherClients ==
  ASSUME NEW c \in Clients, appending' \in {c, None},
         \A d \in Clients : d # c => clients'[d].pc = "idle",
         Session!CallInv(c)'
  PROVE  \A d \in Clients : Session!CallInv(d)'
  BY NobodyIsNone DEF Session!CallInv

LEMMA SessionReturn ==
  ASSUME SessionInv, NEW c \in Clients, clients[c].pc # "idle" \/ appending = None,
         Session!Return(c)
  PROVE  /\ clients' \in [Clients -> Session!Call] /\ appending' = None
         /\ \A d \in Clients : Session!CallInv(d)'
  <1> DEFINE k == [clients[c] EXCEPT !.pc = "idle", !.next = None]
  <1>1. clients' = [clients EXCEPT ![c] = k] /\ appending' = None
    BY DEF Session!Return
  <1>2. k \in Session!Call /\ k.pc = "idle"
    <2>1. clients[c] \in Session!Call
      BY ClientFacts
    <2> QED
      BY <2>1 DEF Session!Call
  <1>3. clients' \in [Clients -> Session!Call] /\ clients'[c] = k
    BY <1>1, <1>2, ClientFacts
  <1>4. \A d \in Clients : d # c => clients'[d].pc = "idle"
    BY <1>1, ClientFacts
  <1>5. Session!CallInv(c)'
    BY <1>1, <1>2, <1>3, NobodyIsNone DEF Session!CallInv
  <1> QED
    BY <1>1, <1>3, <1>4, <1>5, OtherClients

LEMMA SessionContinue ==
  ASSUME SessionInv, NEW c \in Clients, clients[c].pc # "idle",
         NEW at \in {"fill", "publish", "finish"}, Session!Continue(c, at)
  PROVE  /\ clients' \in [Clients -> Session!Call] /\ appending' = c
         /\ clients'[c].pc = at /\ clients'[c].next = clients[c].next
         /\ \A d \in Clients : d # c => clients'[d].pc = "idle"
  <1> DEFINE k == [clients[c] EXCEPT !.pc = at]
  <1>1. clients' = [clients EXCEPT ![c] = k] /\ appending' = appending
    BY ClientFacts DEF Session!Continue
  <1>2. k \in Session!Call /\ k.pc = at /\ k.next = clients[c].next
    BY ClientFacts DEF Session!Call
  <1>3. appending = c
    BY ClientFacts DEF Session!CallInv
  <1> QED
    BY <1>1, <1>2, <1>3, ClientFacts

\* Appending what follows the last revision, or running out of revisions.
LEMMA SessionAppend ==
  ASSUME SessionInv, NEW c \in Clients, clients[c].pc # "idle" \/ appending = None,
         NEW record, Session!Append(c, record), UNCHANGED <<last, present>>,
         last.revision + 1 < MaxRevisions => Session!Follows(record)
  PROVE  /\ clients' \in [Clients -> Session!Call] /\ appending' \in {c, None}
         /\ \A d \in Clients : Session!CallInv(d)'
  <1>1. CASE Session!Return(c)
    BY <1>1, SessionReturn
  <1>2. CASE /\ last.revision + 1 < MaxRevisions
             /\ clients' = [clients EXCEPT ![c] = [@ EXCEPT !.pc = "append", !.next = record]]
             /\ appending' = c
    <2> DEFINE k == [clients[c] EXCEPT !.pc = "append", !.next = record]
    <2>1. Session!Follows(record) /\ record \in Session!Record
      BY <1>2 DEF Session!Follows
    <2>2. k \in Session!Call /\ k.pc = "append" /\ k.next = record
      <3>1. clients[c] \in Session!Call
        BY ClientFacts
      <3> QED
        BY <2>1, <3>1 DEF Session!Call
    <2>3. clients' \in [Clients -> Session!Call] /\ clients'[c] = k
      BY <1>2, <2>2, ClientFacts
    <2>4. \A d \in Clients : d # c => clients'[d].pc = "idle"
      BY <1>2, ClientFacts
    <2>5. Session!Follows(record)'
      BY <2>1 DEF Session!Follows
    <2>6. Session!CallInv(c)'
      BY <1>2, <2>2, <2>3, <2>5 DEF Session!CallInv
    <2> QED
      BY <1>2, <2>3, <2>4, <2>6, OtherClients
  <1> QED
    BY <1>1, <1>2, ClientFacts, RecordFacts, NobodyIsNone DEF Session!Append

LEMMA GetStep ==
  ASSUME SessionInv, NEW c \in Clients, Session!Get(c)
  PROVE  SessionInv'
  <1>1. /\ UNCHANGED <<last, torn, file, expired, appending, present, tampers, deaths>>
        /\ clients[c].pc = "idle" /\ clients' = [clients EXCEPT ![c].expects = last.revision]
        /\ Session!TypeOK /\ Session!IInv
    BY DEF Session!Get, SessionInv
  <1>2. clients' \in [Clients -> Session!Call]
    BY <1>1, RecordFacts, NobodyIsNone DEF Session!TypeOK, Session!Call
  <1>3. \A d \in Clients : clients'[d].pc = clients[d].pc /\ clients'[d].next = clients[d].next
    BY <1>1 DEF Session!TypeOK, Session!Call
  <1>4. Session!TypeOK'
    BY <1>1, <1>2 DEF Session!TypeOK
  <1>5. \A d \in Clients : Session!CallInv(d)'
    BY <1>1, <1>3 DEF Session!IInv, Session!CallInv, Session!Follows
  <1>6. Session!IInv'
    BY <1>1, <1>5 DEF Session!IInv, Session!FinalizedWasPublished
  <1> QED
    BY <1>4, <1>6 DEF SessionInv

\* A step that touches neither the history nor the file.
LEMMA SessionQuiet ==
  ASSUME SessionInv, UNCHANGED <<last, file, expired, present, tampers, deaths>>,
         torn' \in BOOLEAN, appending' \in Clients \cup {None},
         clients' \in [Clients -> Session!Call],
         \A d \in Clients : Session!CallInv(d)'
  PROVE  SessionInv'
  <1>1. Session!TypeOK'
    BY DEF SessionInv, Session!TypeOK
  <1>2. Session!IInv'
    BY DEF SessionInv, Session!IInv, Session!FinalizedWasPublished
  <1> QED
    BY <1>1, <1>2 DEF SessionInv

LEMMA AnswerStep ==
  ASSUME SessionInv, NEW c \in Clients, NEW word \in {"CLARIFYING", "READY"},
         Session!Answer(c, word)
  PROVE  SessionInv'
  <1> DEFINE record == [last EXCEPT !.revision = @ + 1, !.status = word]
  <1>1. /\ appending = None /\ last.status \in {"CLARIFYING", "READY"}
        /\ Session!Append(c, record)
        /\ UNCHANGED <<last, torn, file, expired, present, tampers, deaths>>
    BY DEF Session!Answer, Session!Loads
  <1>2. last \in Session!Record /\ last.candidate = None /\ torn \in BOOLEAN
    BY <1>1, ClientFacts DEF Session!TypeOK
  <1>3. last.revision + 1 < MaxRevisions => Session!Follows(record)
    <2> SUFFICES ASSUME last.revision + 1 < MaxRevisions
                 PROVE  Session!Follows(record)
      OBVIOUS
    <2>1. last.revision + 1 \in 0 .. MaxRevisions - 1
      BY <1>2, RecordFacts, NobodyIsNone
    <2>2. record \in Session!Record /\ record.candidate = None /\ record.status = word
      BY <1>2, <2>1 DEF Session!Record, Session!Statuses
    <2> QED
      BY <1>2, <2>2 DEF Session!Follows
  <1> QED
    BY <1>1, <1>2, <1>3, SessionAppend, SessionQuiet

LEMMA FinalizeStep ==
  ASSUME SessionInv, NEW c \in Clients, Session!Finalize(c)
  PROVE  SessionInv'
  <1>1. /\ UNCHANGED <<last, torn, file, expired, present, tampers, deaths>>
        /\ appending = None /\ appending' = c
    BY DEF Session!Finalize, Session!Loads
  <1>2. PICK at \in {"compile", "publish"} :
          /\ clients' = [clients EXCEPT ![c].pc = at]
          /\ at = "compile" => last.status = "READY"
          /\ at = "publish" => last.status \in {"PREPARED", "FINALIZED"}
    BY DEF Session!Finalize
  <1> DEFINE k == [clients[c] EXCEPT !.pc = at]
  <1>3. k \in Session!Call /\ k.pc = at
    BY <1>1, ClientFacts DEF Session!Call
  <1>4. clients' \in [Clients -> Session!Call] /\ clients'[c] = k
    BY <1>1, <1>2, <1>3, ClientFacts
  <1>5. \A d \in Clients : d # c => clients'[d].pc = "idle"
    BY <1>1, <1>2, ClientFacts
  <1>6. /\ at = "compile" => last.candidate = None
        /\ at = "publish" => last.candidate # None
    BY <1>1, <1>2, ClientFacts
  <1>7. Session!CallInv(c)'
    BY <1>1, <1>3, <1>4, <1>6 DEF Session!CallInv
  <1>8. \A d \in Clients : Session!CallInv(d)'
    BY <1>1, <1>5, <1>7, OtherClients
  <1> QED
    BY <1>1, <1>4, <1>8, SessionQuiet, ClientFacts DEF Session!TypeOK

LEMMA CompileStep ==
  ASSUME SessionInv, NEW c \in Clients, Session!Compile(c)
  PROVE  SessionInv'
  <1>1. /\ UNCHANGED <<last, torn, file, expired, present, tampers, deaths>>
        /\ clients[c].pc = "compile"
    BY DEF Session!Compile
  <1>2. /\ last \in Session!Record /\ last.candidate = None /\ torn \in BOOLEAN
        /\ clients[c] \in Session!Call
    BY <1>1, ClientFacts DEF Session!TypeOK, Session!CallInv
  <1>3. CASE Session!Return(c)
    BY <1>1, <1>2, <1>3, SessionReturn, SessionQuiet
  <1>4. ASSUME NEW candidate \in Candidates,
               Session!Append(c, [revision |-> last.revision + 1, status |-> "PREPARED",
                                  base |-> clients[c].expects, candidate |-> candidate])
        PROVE  SessionInv'
    <2> DEFINE record == [revision |-> last.revision + 1, status |-> "PREPARED",
                          base |-> clients[c].expects, candidate |-> candidate]
    <2>1. last.revision + 1 < MaxRevisions => Session!Follows(record)
      <3> SUFFICES ASSUME last.revision + 1 < MaxRevisions
                   PROVE  Session!Follows(record)
        OBVIOUS
      <3>1. last.revision + 1 \in 0 .. MaxRevisions - 1
        BY <1>2, RecordFacts, NobodyIsNone
      <3>2. record \in Session!Record
        BY <1>2, <3>1 DEF Session!Record, Session!Statuses, Session!Call
      <3>3. candidate # None
        BY NobodyIsNone
      <3> QED
        BY <1>2, <3>2, <3>3 DEF Session!Follows
    <2> QED
      BY <1>1, <1>2, <1>4, <2>1, SessionAppend, SessionQuiet
  <1> QED
    BY <1>3, <1>4 DEF Session!Compile

LEMMA CreateRevisionStep ==
  ASSUME SessionInv, NEW c \in Clients, Session!CreateRevision(c)
  PROVE  SessionInv'
  <1>1. /\ UNCHANGED <<last, file, expired, present, tampers, deaths>>
        /\ clients[c].pc = "append" /\ torn' = TRUE /\ Session!Continue(c, "fill")
    BY DEF Session!CreateRevision
  <1>2. Session!Follows(clients[c].next)
    BY <1>1, ClientFacts DEF Session!CallInv
  <1>3. Session!CallInv(c)'
    BY <1>1, <1>2, SessionContinue DEF Session!CallInv, Session!Follows
  <1> QED
    BY <1>1, <1>3, SessionContinue, OtherClients, SessionQuiet

LEMMA FillRevisionStep ==
  ASSUME SessionInv, NEW c \in Clients, Session!FillRevision(c)
  PROVE  SessionInv'
  <1> DEFINE record == clients[c].next
  <1>1. /\ UNCHANGED <<file, expired, present, tampers, deaths>>
        /\ clients[c].pc = "fill" /\ torn' = FALSE /\ last' = record
    BY DEF Session!FillRevision
  <1>2. Session!Follows(record)
    BY <1>1, ClientFacts DEF Session!CallInv
  <1>3. /\ clients' \in [Clients -> Session!Call] /\ appending' \in {c, None}
        /\ \A d \in Clients : Session!CallInv(d)'
    <2>1. CASE Session!Return(c)
      BY <1>1, <2>1, SessionReturn
    <2>2. CASE last'.status = "PREPARED" /\ Session!Continue(c, "publish")
      <3>1. last'.candidate # None
        BY <1>1, <1>2, <2>2 DEF Session!Follows
      <3>2. Session!CallInv(c)'
        BY <1>1, <2>2, <3>1, SessionContinue DEF Session!CallInv
      <3> QED
        BY <1>1, <2>2, <3>2, SessionContinue, OtherClients
    <2> QED
      BY <2>1, <2>2 DEF Session!FillRevision
  <1>4. Session!TypeOK'
    BY <1>1, <1>2, <1>3, ClientFacts DEF Session!TypeOK, Session!Follows
  <1>5. Session!IInv'
    BY <1>1, <1>2, <1>3, ClientFacts
    DEF Session!IInv, Session!Follows, Session!FinalizedWasPublished
  <1> QED
    BY <1>4, <1>5 DEF SessionInv

LEMMA PublishStep ==
  ASSUME SessionInv, NEW c \in Clients, Session!Publish(c)
  PROVE  SessionInv'
  <1>1. /\ UNCHANGED <<last, torn, expired, tampers, deaths>>
        /\ clients[c].pc = "publish" /\ last.candidate # None
        /\ last \in Session!Record /\ file \in Candidates \cup {None, Foreign}
        /\ file # None => file \in present
        /\ torn \in BOOLEAN
    BY ClientFacts DEF Session!Publish, Session!CallInv, Session!TypeOK
  <1>2. CASE UNCHANGED <<file, present>> /\ Session!Return(c)
    BY <1>1, <1>2, SessionReturn, SessionQuiet
  <1>3. CASE UNCHANGED <<file, present>> /\ file = last.candidate /\ Session!Continue(c, "finish")
    <2>1. Session!CallInv(c)'
      BY <1>1, <1>3, SessionContinue DEF Session!CallInv
    <2> QED
      BY <1>1, <1>3, <2>1, SessionContinue, OtherClients, SessionQuiet
  <1>4. CASE /\ file' = last.candidate /\ present' = present \cup {file'}
             /\ Session!Continue(c, "finish")
    <2>1. Session!CallInv(c)'
      BY <1>1, <1>4, SessionContinue DEF Session!CallInv
    <2>2. \A d \in Clients : Session!CallInv(d)'
      BY <1>1, <1>4, <2>1, SessionContinue, OtherClients
    <2>3. last.candidate \in Candidates
      BY <1>1, RecordFacts
    <2>4. Session!TypeOK'
      BY <1>1, <1>4, <2>3, SessionContinue, ClientFacts DEF Session!TypeOK
    <2>5. Session!IInv'
      BY <1>1, <1>4, <2>2, ClientFacts DEF Session!IInv, Session!FinalizedWasPublished
    <2> QED
      BY <2>4, <2>5 DEF SessionInv
  <1> QED
    BY <1>2, <1>3, <1>4 DEF Session!Publish

LEMMA FinishStep ==
  ASSUME SessionInv, NEW c \in Clients, Session!Finish(c)
  PROVE  SessionInv'
  <1> DEFINE record == [last EXCEPT !.revision = @ + 1, !.status = "FINALIZED"]
  <1>1. /\ UNCHANGED <<last, torn, file, expired, present, tampers, deaths>>
        /\ clients[c].pc = "finish" /\ Session!Append(c, record)
    BY DEF Session!Finish
  <1>2. /\ last \in Session!Record /\ last.candidate # None /\ last.candidate \in present
        /\ torn \in BOOLEAN
    BY <1>1, ClientFacts DEF Session!CallInv, Session!TypeOK
  <1>3. last.revision + 1 < MaxRevisions => Session!Follows(record)
    <2> SUFFICES ASSUME last.revision + 1 < MaxRevisions
                 PROVE  Session!Follows(record)
      OBVIOUS
    <2>1. last.revision + 1 \in 0 .. MaxRevisions - 1
      BY <1>2, RecordFacts, NobodyIsNone
    <2>2. /\ record \in Session!Record /\ record.candidate = last.candidate
          /\ record.base = last.base /\ record.status = "FINALIZED"
      BY <1>2, <2>1 DEF Session!Record, Session!Statuses
    <2> QED
      BY <1>2, <2>2 DEF Session!Follows
  <1> QED
    BY <1>1, <1>2, <1>3, SessionAppend, SessionQuiet

LEMMA SessionDies ==
  ASSUME SessionInv, NEW c \in Clients, Session!Die(c)
  PROVE  SessionInv'
  <1>1. /\ UNCHANGED <<last, torn, file, expired, present, tampers>>
        /\ clients[c].pc # "idle" /\ Session!Return(c)
        /\ deaths < MaxCrashes /\ deaths' = deaths + 1
        /\ Session!TypeOK /\ Session!IInv
    BY DEF Session!Die, SessionInv
  <1>2. deaths' \in 0 .. MaxCrashes
    BY <1>1, NobodyIsNone DEF Session!TypeOK
  <1>3. Session!TypeOK'
    BY <1>1, <1>2, SessionReturn DEF Session!TypeOK
  <1>4. Session!IInv'
    BY <1>1, SessionReturn DEF Session!IInv, Session!FinalizedWasPublished
  <1> QED
    BY <1>3, <1>4 DEF SessionInv

LEMMA SessionOutside ==
  ASSUME SessionInv, Session!Tamper \/ Session!Expire
  PROVE  SessionInv'
  <1>1. Session!TypeOK /\ Session!IInv /\ UNCHANGED <<last, torn, appending, clients, deaths>>
    BY DEF SessionInv, Session!Tamper, Session!Expire
  <1>2. present \subseteq present' /\ (file' # None => file' \in present')
    BY <1>1 DEF Session!Tamper, Session!Expire, Session!IInv
  <1>3. tampers' \in 0 .. MaxTampers
    BY <1>1, NobodyIsNone DEF Session!Tamper, Session!Expire, Session!TypeOK
  <1>4. Session!TypeOK'
    BY <1>1, <1>3 DEF Session!Tamper, Session!Expire, Session!TypeOK
  <1>5. \A d \in Clients : Session!CallInv(d)'
    BY <1>1, <1>2 DEF Session!IInv, Session!CallInv, Session!Follows
  <1>6. Session!IInv'
    BY <1>1, <1>2, <1>5 DEF Session!IInv, Session!FinalizedWasPublished
  <1> QED
    BY <1>4, <1>6 DEF SessionInv

LEMMA SessionNext ==
  ASSUME SessionInv, Session!Next
  PROVE  SessionInv'
  BY GetStep, AnswerStep, FinalizeStep, CompileStep, CreateRevisionStep, FillRevisionStep,
     PublishStep, FinishStep, SessionDies, SessionOutside DEF Session!Next

\* No revision changes the candidate, or the revision it was made from.
LEMMA SessionFreezes ==
  ASSUME SessionInv, Session!Next, last.candidate # None
  PROVE  last'.candidate = last.candidate /\ last'.base = last.base
  <1>1. ASSUME NEW c \in Clients, Session!FillRevision(c)
        PROVE  last'.candidate = last.candidate /\ last'.base = last.base
    <2>1. clients[c].pc = "fill" /\ last' = clients[c].next
      BY <1>1 DEF Session!FillRevision
    <2> QED
      BY <2>1, ClientFacts DEF Session!CallInv, Session!Follows
  <1> QED
    BY <1>1 DEF Session!Next, Session!Tamper, Session!Expire, Session!Get, Session!Answer,
       Session!Finalize, Session!Compile, Session!CreateRevision, Session!Publish,
       Session!Finish, Session!Die

-----------------------------------------------------------------------------
(* The publication of artifacts                                            *)

Below == {pair \in Nat \X Nat : pair[1] < pair[2]}

LEMMA Least ==
  ASSUME NEW S, S \subseteq Nat, S # {}
  PROVE  \E n \in S : \A k \in S : n <= k
  <1>1. IsWellFoundedOn(Below, Nat)
    BY NatLessThanWellFounded DEF OpToRel, Below
  <1>2. \E x \in S : \A y \in S : ~ (<<y, x>> \in Below)
    BY <1>1, WFMin
  <1>3. PICK x \in S : \A y \in S : ~ (<<y, x>> \in Below)
    BY <1>2
  <1>4. ASSUME NEW y \in S, ~ (x <= y)
        PROVE  FALSE
    <2>1. x \in Nat /\ y \in Nat /\ y < x
      BY <1>4
    <2>2. <<y, x>> \in Nat \X Nat /\ <<y, x>>[1] < <<y, x>>[2]
      BY <2>1
    <2> QED
      BY <1>3, <2>2 DEF Below
  <1> QED
    BY <1>4

LEMMA Greatest ==
  ASSUME NEW m \in Nat, NEW S, S \subseteq 0 .. m, S # {}
  PROVE  \E n \in S : \A k \in S : n >= k
  <1> DEFINE R == {m - k : k \in S}
  <1>1. R \subseteq Nat /\ R # {}
    <2>1. \A k \in S : k \in Int /\ k >= 0 /\ k <= m
      OBVIOUS
    <2>2. \A k \in S : m - k \in Nat
      BY <2>1
    <2> QED
      BY <2>2
  <1>2. PICK r \in R : \A q \in R : r <= q
    BY <1>1, Least
  <1>3. PICK n \in S : r = m - n
    BY <1>2
  <1>4. \A k \in S : m - n <= m - k
    BY <1>2, <1>3
  <1> QED
    BY <1>4

ArtifactsInv == Artifacts!IInv

LEMMA ArtifactsInit == Artifacts!Init => ArtifactsInv
  <1> SUFFICES ASSUME Artifacts!Init
               PROVE  Artifacts!IInv
    BY DEF ArtifactsInv
  <1>1. owner \in [1 .. NameCount -> Stagers \cup {Free}]
    BY DEF Artifacts!Init
  <1>2. publishing \in [Stagers -> Artifacts!Call]
    BY DEF Artifacts!Init, Artifacts!Call
  <1>3. \A p \in Stagers : Artifacts!Holds(p) = {}
    BY WorkspaceAssumption DEF Artifacts!Init, Artifacts!Holds
  <1> QED
    BY <1>1, <1>2, <1>3 DEF Artifacts!Init, Artifacts!IInv

LEMMA StagerFacts ==
  ASSUME ArtifactsInv, NEW p \in Stagers
  PROVE  /\ owner \in [1 .. NameCount -> Stagers \cup {Free}]
         /\ publishing \in [Stagers -> Artifacts!Call] /\ publishing[p] \in Artifacts!Call
         /\ Artifacts!Holds(p) = publishing[p].created
         /\ publishing[p].wanted \subseteq 1 .. NameCount
         /\ publishing[p].created \subseteq publishing[p].wanted
  BY DEF ArtifactsInv, Artifacts!IInv, Artifacts!Call

\* What a publisher that links and unlinks nothing has to show.
LEMMA Moves ==
  ASSUME ArtifactsInv, NEW p \in Stagers, UNCHANGED owner,
         NEW at \in {"refused", "link", "published", "undo", "dead"}, Artifacts!Move(p, at),
         at = "refused" => publishing[p].created = {},
         at = "published" => publishing[p].created = publishing[p].wanted
  PROVE  ArtifactsInv'
  <1> DEFINE k == [publishing[p] EXCEPT !.pc = at]
  <1>1. publishing' = [publishing EXCEPT ![p] = k]
    BY StagerFacts DEF Artifacts!Move
  <1>2. /\ k \in Artifacts!Call /\ k.pc = at /\ k.wanted = publishing[p].wanted
        /\ k.created = publishing[p].created
    BY StagerFacts DEF Artifacts!Call
  <1>3. /\ publishing' \in [Stagers -> Artifacts!Call] /\ publishing'[p] = k
        /\ \A q \in Stagers : q # p => publishing'[q] = publishing[q]
    BY <1>1, <1>2, StagerFacts
  <1>4. \A q \in Stagers : Artifacts!Holds(q)' = Artifacts!Holds(q)
    BY DEF Artifacts!Holds
  <1> HIDE DEF k
  <1>5. ASSUME NEW q \in Stagers
        PROVE  /\ Artifacts!Holds(q)' = publishing'[q].created
               /\ publishing'[q].created \subseteq publishing'[q].wanted
               /\ publishing'[q].pc \in {"idle", "check", "refused"} => publishing'[q].created = {}
               /\ publishing'[q].pc = "published" => publishing'[q].created = publishing'[q].wanted
    <2>1. /\ Artifacts!Holds(q) = publishing[q].created
          /\ publishing[q].created \subseteq publishing[q].wanted
      BY StagerFacts
    <2>2. CASE q = p
      BY <1>2, <1>3, <1>4, <2>1, <2>2
    <2>3. CASE q # p
      <3>1. publishing'[q] = publishing[q] /\ Artifacts!Holds(q)' = Artifacts!Holds(q)
        BY <1>3, <1>4, <2>3
      <3> QED
        BY <3>1 DEF ArtifactsInv, Artifacts!IInv
    <2> QED
      BY <2>2, <2>3
  <1>6. owner' \in [1 .. NameCount -> Stagers \cup {Free}]
    BY StagerFacts
  <1> QED
    BY <1>3, <1>5, <1>6 DEF ArtifactsInv, Artifacts!IInv

\* A name that changes hands between nobody and one publisher.
LEMMA Takes ==
  ASSUME ArtifactsInv, NEW p \in Stagers, NEW n \in 1 .. NameCount,
         NEW o \in {p, Free}, owner[n] \in {p, Free}, owner' = [owner EXCEPT ![n] = o]
  PROVE  /\ owner' \in [1 .. NameCount -> Stagers \cup {Free}]
         /\ Artifacts!Holds(p)' = IF o = p THEN Artifacts!Holds(p) \cup {n}
                                            ELSE Artifacts!Holds(p) \ {n}
         /\ \A q \in Stagers : q # p => Artifacts!Holds(q)' = Artifacts!Holds(q)
  <1>1. /\ owner' \in [1 .. NameCount -> Stagers \cup {Free}] /\ owner'[n] = o
        /\ \A k \in 1 .. NameCount : k # n => owner'[k] = owner[k]
    BY StagerFacts
  <1>2. Free \notin Stagers
    BY WorkspaceAssumption
  <1> QED
    BY <1>1, <1>2 DEF Artifacts!Holds

LEMMA StageStep ==
  ASSUME ArtifactsInv, NEW p \in Stagers, NEW wanted \in SUBSET (1 .. NameCount),
         Artifacts!Stage(p, wanted)
  PROVE  ArtifactsInv'
  <1> DEFINE k == [pc |-> "check", wanted |-> wanted, created |-> {}]
  <1>1. publishing' = [publishing EXCEPT ![p] = k] /\ publishing[p].pc = "idle" /\ UNCHANGED owner
    BY DEF Artifacts!Stage
  <1>2. k \in Artifacts!Call
    BY DEF Artifacts!Call
  <1>3. /\ publishing' \in [Stagers -> Artifacts!Call] /\ publishing'[p] = k
        /\ \A q \in Stagers : q # p => publishing'[q] = publishing[q]
    BY <1>1, <1>2, StagerFacts
  <1>4. \A q \in Stagers : Artifacts!Holds(q)' = Artifacts!Holds(q)
    BY <1>1 DEF Artifacts!Holds
  <1>5. Artifacts!Holds(p) = {}
    BY <1>1 DEF ArtifactsInv, Artifacts!IInv
  <1> QED
    BY <1>1, <1>3, <1>4, <1>5 DEF ArtifactsInv, Artifacts!IInv

LEMMA LinkStep ==
  ASSUME ArtifactsInv, NEW p \in Stagers, Artifacts!Link(p)
  PROVE  ArtifactsInv'
  <1> DEFINE n == Artifacts!NextName(p)
             k == [publishing[p] EXCEPT !.created = @ \cup {n}]
  <1>1. n \in publishing[p].wanted /\ n \notin publishing[p].created
    <2>1. Artifacts!ToLink(p) # {} /\ Artifacts!ToLink(p) \subseteq Nat
      BY StagerFacts DEF Artifacts!Link, Artifacts!ToLink
    <2>2. \E m \in Artifacts!ToLink(p) : \A j \in Artifacts!ToLink(p) : m <= j
      BY <2>1, Least
    <2>3. n \in Artifacts!ToLink(p)
      BY <2>2 DEF Artifacts!NextName
    <2> QED
      BY <2>3 DEF Artifacts!ToLink
  <1>2. CASE Artifacts!Move(p, "undo") /\ UNCHANGED owner
    BY <1>2, Moves
  <1>3. CASE /\ owner[n] = Free /\ owner' = [owner EXCEPT ![n] = p]
             /\ publishing' = [publishing EXCEPT ![p].created = @ \cup {n}]
    <2>1. n \in 1 .. NameCount
      BY <1>1, StagerFacts
    <2>2. /\ k \in Artifacts!Call /\ k.pc = publishing[p].pc
          /\ k.wanted = publishing[p].wanted /\ k.created = publishing[p].created \cup {n}
      BY <2>1, StagerFacts DEF Artifacts!Call
    <2>3. /\ publishing' \in [Stagers -> Artifacts!Call] /\ publishing'[p] = k
          /\ \A q \in Stagers : q # p => publishing'[q] = publishing[q]
      BY <1>3, <2>2, StagerFacts
    <2>4. /\ owner' \in [1 .. NameCount -> Stagers \cup {Free}]
          /\ Artifacts!Holds(p)' = Artifacts!Holds(p) \cup {n}
          /\ \A q \in Stagers : q # p => Artifacts!Holds(q)' = Artifacts!Holds(q)
      BY <1>3, <2>1, Takes
    <2>5. publishing[p].pc = "link"
      BY DEF Artifacts!Link
    <2> HIDE DEF k
    <2>6. ASSUME NEW q \in Stagers
          PROVE  /\ Artifacts!Holds(q)' = publishing'[q].created
                 /\ publishing'[q].created \subseteq publishing'[q].wanted
                 /\ publishing'[q].pc \in {"idle", "check", "refused"} => publishing'[q].created = {}
                 /\ publishing'[q].pc = "published" =>
                      publishing'[q].created = publishing'[q].wanted
      <3>1. CASE q = p
        <4>1. /\ Artifacts!Holds(p) = publishing[p].created
              /\ publishing[p].created \subseteq publishing[p].wanted
          BY StagerFacts
        <4> QED
          BY <1>1, <2>2, <2>3, <2>4, <2>5, <3>1, <4>1
      <3>2. CASE q # p
        <4>1. publishing'[q] = publishing[q] /\ Artifacts!Holds(q)' = Artifacts!Holds(q)
          BY <2>3, <2>4, <3>2
        <4> QED
          BY <4>1 DEF ArtifactsInv, Artifacts!IInv
      <3> QED
        BY <3>1, <3>2
    <2> QED
      BY <2>3, <2>4, <2>6 DEF ArtifactsInv, Artifacts!IInv
  <1> QED
    BY <1>2, <1>3 DEF Artifacts!Link

LEMMA UndoStep ==
  ASSUME ArtifactsInv, NEW p \in Stagers, Artifacts!Undo(p)
  PROVE  ArtifactsInv'
  <1> DEFINE S == publishing[p].created
             n == CHOOSE m \in S : \A j \in S : m >= j
             k == [publishing[p] EXCEPT !.created = @ \ {n}]
  <1>1. CASE S = {}
    BY <1>1, Moves DEF Artifacts!Undo
  <1>2. CASE S # {}
    <2>1. n \in S
      <3>1. S \subseteq 0 .. NameCount /\ NameCount \in Nat
        BY StagerFacts, WorkspaceAssumption
      <3>2. \E m \in S : \A j \in S : m >= j
        BY <1>2, <3>1, Greatest
      <3> QED
        BY <3>2
    <2>2. /\ owner' = [owner EXCEPT ![n] = Free] /\ publishing[p].pc = "undo"
          /\ publishing' = [publishing EXCEPT ![p].created = @ \ {n}]
      BY <1>2 DEF Artifacts!Undo
    <2>3. n \in 1 .. NameCount /\ owner[n] = p
      BY <2>1, StagerFacts DEF Artifacts!Holds
    <2>4. /\ k \in Artifacts!Call /\ k.pc = publishing[p].pc
          /\ k.wanted = publishing[p].wanted /\ k.created = S \ {n}
      BY StagerFacts DEF Artifacts!Call
    <2>5. /\ publishing' \in [Stagers -> Artifacts!Call] /\ publishing'[p] = k
          /\ \A q \in Stagers : q # p => publishing'[q] = publishing[q]
      BY <2>2, <2>4, StagerFacts
    <2>6. /\ owner' \in [1 .. NameCount -> Stagers \cup {Free}]
          /\ Artifacts!Holds(p)' = Artifacts!Holds(p) \ {n}
          /\ \A q \in Stagers : q # p => Artifacts!Holds(q)' = Artifacts!Holds(q)
      BY <2>2, <2>3, Takes, WorkspaceAssumption
    <2> QED
      BY <2>2, <2>4, <2>5, <2>6 DEF ArtifactsInv, Artifacts!IInv
  <1> QED
    BY <1>1, <1>2

LEMMA ArtifactsNext ==
  ASSUME ArtifactsInv, Artifacts!Next
  PROVE  ArtifactsInv'
  <1>1. PICK p \in Stagers :
          \/ \E wanted \in (SUBSET (1 .. NameCount)) \ {{}} : Artifacts!Stage(p, wanted)
          \/ Artifacts!CheckNames(p) \/ Artifacts!Link(p) \/ Artifacts!Finish(p)
          \/ Artifacts!FailLinking(p) \/ Artifacts!Undo(p) \/ Artifacts!Die(p)
    BY DEF Artifacts!Next
  <1>2. CASE Artifacts!CheckNames(p)
    <2>1. publishing[p].created = {} /\ UNCHANGED owner
      BY <1>2 DEF Artifacts!CheckNames, ArtifactsInv, Artifacts!IInv
    <2>2. Artifacts!Move(p, "refused") \/ Artifacts!Move(p, "link")
      BY <1>2 DEF Artifacts!CheckNames
    <2> QED
      BY <2>1, <2>2, Moves
  <1>3. CASE Artifacts!Finish(p)
    <2>1. publishing[p].created = publishing[p].wanted
      BY <1>3, StagerFacts DEF Artifacts!Finish, Artifacts!ToLink
    <2> QED
      BY <1>3, <2>1, Moves DEF Artifacts!Finish
  <1>4. CASE Artifacts!FailLinking(p) \/ Artifacts!Die(p)
    BY <1>4, Moves DEF Artifacts!FailLinking, Artifacts!Die
  <1> QED
    BY <1>1, <1>2, <1>3, <1>4, StageStep, LinkStep, UndoStep

-----------------------------------------------------------------------------
(* The ledger                                                              *)

LedgerInv == Ledger!IInv

LEMMA FileFacts ==
  ASSUME LedgerInv, NEW f \in directory
  PROVE  /\ f.name \in Ledger!ArtifactNames /\ f.digest \in Nat /\ f.previous \in Nat
         /\ f = [name |-> f.name, digest |-> f.digest, previous |-> f.previous]
  BY DEF LedgerInv, Ledger!IInv

LEMMA ListedFacts ==
  ASSUME LedgerInv
  PROVE  /\ listed \in Seq([name : Ledger!ArtifactNames, digest : Nat])
         /\ Len(listed) \in Nat /\ Len(listed) >= 1 /\ DOMAIN listed = 1 .. Len(listed)
         /\ sequence \in Nat /\ digests \in Nat /\ Len(listed) = sequence + 1
         /\ \A i \in 1 .. Len(listed) :
              /\ listed[i].name \in Ledger!ArtifactNames /\ listed[i].digest \in Nat
              /\ listed[i].name[1] = i - 1
         /\ Head(listed) = listed[1]
         /\ Ledger!Last(listed) = listed[Len(listed)]
  <1> DEFINE Item == [name : Ledger!ArtifactNames, digest : Nat]
  <1>1. /\ listed \in Seq(Item) /\ sequence \in Nat /\ digests \in Nat
        /\ Len(listed) = sequence + 1
        /\ \A i \in 1 .. Len(listed) : listed[i].name[1] = i - 1
    BY DEF LedgerInv, Ledger!IInv
  <1> HIDE DEF Item
  <1>2. Len(listed) \in Nat /\ Len(listed) >= 1 /\ DOMAIN listed = 1 .. Len(listed)
    BY <1>1
  <1>3. \A i \in 1 .. Len(listed) : listed[i] \in Item
    BY <1>1, <1>2
  <1>4. Head(listed) = listed[1] /\ Ledger!Last(listed) = listed[Len(listed)]
    BY <1>1, <1>2 DEF Ledger!Last
  <1> QED
    BY <1>1, <1>2, <1>3, <1>4 DEF Item

LEMMA LedgerInit == Ledger!Init => LedgerInv
  <1> SUFFICES ASSUME Ledger!Init
               PROVE  Ledger!IInv
    BY DEF LedgerInv
  <1> DEFINE first == [name |-> <<0, "run">>, digest |-> 1]
  <1>1. <<0, "run">> \in Ledger!ArtifactNames
    BY DEF Ledger!ArtifactNames
  <1>2. listed = <<first>> /\ first \in [name : Ledger!ArtifactNames, digest : Nat]
    BY <1>1 DEF Ledger!Init, Ledger!RunFile
  <1>3. /\ listed \in Seq([name : Ledger!ArtifactNames, digest : Nat])
        /\ Len(listed) = 1 /\ Head(listed) = first /\ listed[1] = first
    BY <1>2
  <1>4. directory \subseteq [name : Ledger!ArtifactNames, digest : Nat, previous : Nat]
    BY <1>1 DEF Ledger!Init, Ledger!RunFile
  <1>5. /\ sequence = 0 /\ digests = 1 /\ step.pc = "idle" /\ manifest = <<>>
        /\ disturbed = FALSE
    BY DEF Ledger!Init, Ledger!NoStep
  <1>6. disturbed \in BOOLEAN /\ Ledger!CommittedIsValid
    BY <1>5 DEF Ledger!CommittedIsValid
  <1>7. Head(listed).name = Ledger!RunFile
    BY <1>3 DEF Ledger!RunFile
  <1>8. \A i \in 1 .. Len(listed) : listed[i].name[1] = i - 1
    BY <1>3
  <1> QED
    BY <1>3, <1>4, <1>5, <1>6, <1>7, <1>8 DEF Ledger!IInv

\* A valid manifest stays valid while the files it names stay what they are.
LEMMA StaysValid ==
  ASSUME LedgerInv, manifest' = manifest, manifest # <<>>, ~disturbed,
         directory \subseteq directory',
         \A f \in directory' \ directory : Ledger!Named(f.name) = {}
  PROVE  Ledger!Valid(manifest)'
  <1>1. Ledger!Valid(manifest)
    BY DEF LedgerInv, Ledger!IInv, Ledger!CommittedIsValid
  <1>2. Ledger!Intact(manifest)'
    BY <1>1 DEF Ledger!Valid, Ledger!Intact
  <1>3. ASSUME NEW i \in DOMAIN manifest, NEW f \in directory', f.name = manifest[i].name
        PROVE  f \in directory
    <2>1. PICK g \in directory : g.name = manifest[i].name
      BY <1>1 DEF Ledger!Valid, Ledger!Intact
    <2> QED
      BY <1>3, <2>1 DEF Ledger!Named
  <1>4. ASSUME NEW i \in 2 .. Len(manifest), NEW f \in directory', f.name = manifest[i].name
        PROVE  f.previous = manifest[i - 1].digest
    <2>1. CASE i \in DOMAIN manifest
      BY <1>1, <1>3, <1>4, <2>1 DEF Ledger!Valid, Ledger!Named
    <2> QED
      BY <2>1
  <1> QED
    BY <1>1, <1>2, <1>4 DEF Ledger!Valid, Ledger!Named

LEMMA LedgerLink ==
  ASSUME LedgerInv, NEW s \in States, Ledger!Link(s)
  PROVE  LedgerInv'
  <1> DEFINE name == <<sequence + 1, s>>
             new == [name |-> name, digest |-> digests + 1,
                     previous |-> Ledger!Last(listed).digest]
  <1>1. /\ Ledger!Named(name) = {} /\ step.pc = "idle" /\ digests' = digests + 1
        /\ directory' = directory \cup {new}
        /\ step' = [pc |-> "list", name |-> name, digest |-> digests + 1]
        /\ UNCHANGED <<listed, sequence, manifest, committed, disturbed, changes>>
    BY DEF Ledger!Link
  <1>2. name \in Ledger!ArtifactNames /\ name[1] = sequence + 1
    BY ListedFacts DEF Ledger!ArtifactNames
  <1>3. new \in [name : Ledger!ArtifactNames, digest : Nat, previous : Nat]
    BY <1>2, ListedFacts
  <1>4. \A i \in 1 .. Len(listed) : listed[i].name # name
    BY <1>2, ListedFacts
  <1>5. ASSUME NEW i \in 2 .. Len(listed), NEW f \in directory', f.name = listed[i].name
        PROVE  f.previous = listed[i - 1].digest
    <2>1. listed[i].name # name
      <3>1. i \in 1 .. Len(listed)
        BY ListedFacts
      <3> QED
        BY <1>4, <3>1
    <2>2. f \in directory
      BY <1>1, <1>5, <2>1
    <2>3. \A j \in 2 .. Len(listed) : \A d \in Ledger!Named(listed[j].name) :
            d.previous = listed[j - 1].digest
      BY DEF LedgerInv, Ledger!IInv
    <2>4. f \in Ledger!Named(listed[i].name)
      BY <1>5, <2>2 DEF Ledger!Named
    <2> QED
      BY <1>5, <2>3, <2>4
  <1>6. \A f \in Ledger!Named(name)' : f = new
    BY <1>1 DEF Ledger!Named
  <1>7. manifest' # <<>> /\ ~disturbed' => Ledger!Valid(manifest)'
    BY <1>1, StaysValid
  <1>8. step'.name = name /\ step'.digest = digests + 1 /\ step'.pc = "list"
    BY <1>1
  <1>9. /\ directory' \subseteq [name : Ledger!ArtifactNames, digest : Nat, previous : Nat]
        /\ digests' \in Nat
    BY <1>1, <1>3, ListedFacts DEF LedgerInv, Ledger!IInv
  <1>10. step'.pc = "list" =>
           /\ step'.name \in Ledger!ArtifactNames /\ step'.digest \in Nat
           /\ step'.name[1] = sequence' + 1
           /\ \A f \in Ledger!Named(step.name)' : f.previous = Ledger!Last(listed)'.digest
    BY <1>1, <1>2, <1>6, <1>8, ListedFacts DEF Ledger!Named, Ledger!Last
  <1>11. \A i \in 2 .. Len(listed) : \A f \in Ledger!Named(listed[i].name)' :
           f.previous = listed[i - 1].digest
    BY <1>1, <1>5 DEF Ledger!Named
  <1> QED
    BY <1>1, <1>7, <1>9, <1>10, <1>11 DEF LedgerInv, Ledger!IInv, Ledger!CommittedIsValid

LEMMA LedgerFailSync ==
  ASSUME LedgerInv, Ledger!FailSync
  PROVE  LedgerInv'
  <1>1. /\ step'.pc = "idle"
        /\ UNCHANGED <<directory, listed, sequence, manifest, committed, disturbed, digests,
                       changes>>
    BY DEF Ledger!FailSync, Ledger!NoStep
  <1> QED
    BY <1>1 DEF LedgerInv, Ledger!IInv, Ledger!CommittedIsValid, Ledger!Valid, Ledger!Intact,
       Ledger!Named

LEMMA LedgerList ==
  ASSUME LedgerInv, Ledger!List
  PROVE  LedgerInv'
  <1> DEFINE new == [name |-> step.name, digest |-> step.digest]
  <1>1. /\ step.pc = "list" /\ step'.pc = "idle" /\ sequence' = sequence + 1
        /\ listed' = Append(listed, new)
        /\ UNCHANGED <<directory, manifest, committed, disturbed, digests, changes>>
    BY DEF Ledger!List, Ledger!NoStep
  <1>2. /\ step.name \in Ledger!ArtifactNames /\ step.digest \in Nat
        /\ step.name[1] = sequence + 1
        /\ \A f \in Ledger!Named(step.name) : f.previous = listed[Len(listed)].digest
    BY <1>1, ListedFacts DEF LedgerInv, Ledger!IInv
  <1>3. /\ listed' \in Seq([name : Ledger!ArtifactNames, digest : Nat])
        /\ Len(listed') = Len(listed) + 1 /\ listed'[Len(listed) + 1] = new
        /\ \A i \in 1 .. Len(listed) : listed'[i] = listed[i]
        /\ Head(listed') = listed[1]
    BY <1>1, <1>2, ListedFacts
  <1>4. ASSUME NEW i \in 1 .. Len(listed')
        PROVE  i \in 1 .. Len(listed) \/ i = Len(listed) + 1
    BY <1>3, ListedFacts
  <1>5. ASSUME NEW i \in 1 .. Len(listed')
        PROVE  listed'[i].name[1] = i - 1
    <2>1. CASE i \in 1 .. Len(listed)
      BY <1>3, <2>1, ListedFacts
    <2>2. CASE i = Len(listed) + 1
      <3>1. listed'[i].name = step.name
        BY <1>3, <2>2
      <3> QED
        BY <1>2, <2>2, <3>1, ListedFacts
    <2> QED
      BY <1>4, <2>1, <2>2
  <1>6. ASSUME NEW i \in 2 .. Len(listed'), NEW f \in directory, f.name = listed'[i].name
        PROVE  f.previous = listed'[i - 1].digest
    <2>1. i \in 1 .. Len(listed') /\ i \in Nat /\ i >= 2
      BY <1>3, ListedFacts
    <2>2. CASE i = Len(listed) + 1
      <3>1. f.name = step.name
        BY <1>3, <1>6, <2>2
      <3>2. i - 1 = Len(listed) /\ listed'[i - 1] = listed[Len(listed)]
        BY <1>3, <2>2, ListedFacts
      <3> QED
        BY <1>2, <3>1, <3>2 DEF Ledger!Named
    <2>3. CASE i \in 1 .. Len(listed)
      <3>1. i \in 2 .. Len(listed) /\ i - 1 \in 1 .. Len(listed)
        BY <2>1, <2>3, ListedFacts
      <3>2. listed'[i - 1] = listed[i - 1] /\ listed'[i] = listed[i]
        BY <1>3, <2>3, <3>1
      <3> QED
        BY <1>6, <3>1, <3>2 DEF LedgerInv, Ledger!IInv, Ledger!Named
    <2> QED
      BY <1>4, <2>1, <2>2, <2>3
  <1>7. \A i \in 2 .. Len(listed') : \A f \in Ledger!Named(listed[i].name)' :
          f.previous = listed'[i - 1].digest
    BY <1>1, <1>6 DEF Ledger!Named
  <1>8. /\ disturbed' \in BOOLEAN
        /\ manifest' # <<>> /\ ~disturbed' => Ledger!Valid(manifest)'
    BY <1>1 DEF LedgerInv, Ledger!IInv, Ledger!CommittedIsValid, Ledger!Valid, Ledger!Intact,
       Ledger!Named
  <1>9. Head(listed').name = Ledger!RunFile /\ sequence' \in Nat /\ Len(listed') = sequence' + 1
    BY <1>1, <1>3, ListedFacts DEF LedgerInv, Ledger!IInv
  <1> QED
    BY <1>1, <1>3, <1>5, <1>8, <1>9, <1>7
    DEF LedgerInv, Ledger!IInv, Ledger!CommittedIsValid

LEMMA LedgerValidate ==
  ASSUME LedgerInv, Ledger!ValidateArtifacts
  PROVE  LedgerInv'
  <1>1. /\ Ledger!Intact(listed) /\ manifest = <<>> /\ step'.pc = "publish"
        /\ disturbed' = FALSE
        /\ UNCHANGED <<directory, listed, sequence, manifest, digests>>
    BY DEF Ledger!ValidateArtifacts, Ledger!NoStep
  <1>2. Ledger!Intact(listed)'
    BY <1>1 DEF Ledger!Intact
  <1> QED
    BY <1>1, <1>2 DEF LedgerInv, Ledger!IInv, Ledger!CommittedIsValid, Ledger!Named

\* What is linked is what was looked at, where nobody came in between.
LEMMA LedgerPublish ==
  ASSUME LedgerInv, Ledger!PublishManifest
  PROVE  LedgerInv'
  <1>1. /\ step.pc = "publish" /\ step'.pc = "idle" /\ manifest' = listed
        /\ UNCHANGED <<directory, listed, sequence, disturbed, digests>>
    BY DEF Ledger!PublishManifest, Ledger!NoStep
  <1>2. ASSUME ~disturbed'
        PROVE  Ledger!Valid(manifest)'
    <2>1. Ledger!Intact(listed)
      BY <1>1, <1>2 DEF LedgerInv, Ledger!IInv
    <2>2. Ledger!Valid(listed)
      BY <2>1 DEF LedgerInv, Ledger!IInv, Ledger!Valid
    <2> QED
      BY <1>1, <2>2 DEF Ledger!Valid, Ledger!Intact, Ledger!Named
  <1> QED
    BY <1>1, <1>2 DEF LedgerInv, Ledger!IInv, Ledger!CommittedIsValid, Ledger!Named

LEMMA LedgerTamper ==
  ASSUME LedgerInv, Ledger!Tamper
  PROVE  LedgerInv'
  <1>1. PICK f \in directory : \E left \in {{}, {[f EXCEPT !.digest = 0]}} :
          directory' = (directory \ {f}) \cup left
    BY DEF Ledger!Tamper
  <1>2. /\ manifest = <<>> /\ disturbed' = TRUE
        /\ UNCHANGED <<listed, sequence, manifest, committed, step, digests>>
    BY DEF Ledger!Tamper
  <1> DEFINE g == [f EXCEPT !.digest = 0]
  <1>3. /\ g \in [name : Ledger!ArtifactNames, digest : Nat, previous : Nat]
        /\ g.name = f.name /\ g.previous = f.previous
    BY FileFacts
  <1>4. \A h \in directory' : h \in directory \/ h = g
    BY <1>1
  <1>5. ASSUME NEW h \in directory'
        PROVE  \E k \in directory : k.name = h.name /\ k.previous = h.previous
    BY <1>3, <1>4
  <1>6. directory' \subseteq [name : Ledger!ArtifactNames, digest : Nat, previous : Nat]
    BY <1>3, <1>4 DEF LedgerInv, Ledger!IInv
  <1>7. \A i \in 2 .. Len(listed) : \A h \in Ledger!Named(listed[i].name)' :
          h.previous = listed[i - 1].digest
    BY <1>2, <1>5 DEF LedgerInv, Ledger!IInv, Ledger!Named
  <1>8. step.pc = "list" =>
          \A h \in Ledger!Named(step.name)' : h.previous = Ledger!Last(listed).digest
    BY <1>2, <1>5 DEF LedgerInv, Ledger!IInv, Ledger!Named
  <1> QED
    BY <1>2, <1>6, <1>7, <1>8
    DEF LedgerInv, Ledger!IInv, Ledger!CommittedIsValid, Ledger!Last

LEMMA LedgerNext ==
  ASSUME LedgerInv, Ledger!Next
  PROVE  LedgerInv'
  BY LedgerLink, LedgerFailSync, LedgerList, LedgerValidate, LedgerPublish, LedgerTamper
  DEF Ledger!Next

-----------------------------------------------------------------------------
(* The sandbox                                                             *)

SandboxInv == Sandbox!TypeOK /\ Sandbox!IInv

LEMMA SandboxInit == Sandbox!Init => SandboxInv
  <1> SUFFICES ASSUME Sandbox!Init
               PROVE  Sandbox!TypeOK /\ Sandbox!IInv
    BY DEF SandboxInv
  <1>1. 0 \in 0 .. MaxWritten /\ 0 \in 0 .. MaxOutput
    BY WorkspaceAssumption
  <1>2. Sandbox!TypeOK
    BY <1>1 DEF Sandbox!Init, Sandbox!TypeOK
  <1>3. Sandbox!IInv
    BY DEF Sandbox!Init, Sandbox!IInv, Sandbox!Alive, Sandbox!CompletedWasEnforced
  <1> QED
    BY <1>2, <1>3

LEMMA ToolStep ==
  ASSUME SandboxInv,
         \/ Sandbox!Write \/ Sandbox!CloseOutput \/ Sandbox!Exit \/ Sandbox!DieOfSignal
         \/ Sandbox!DeadlinePasses
  PROVE  SandboxInv'
  <1> USE DEF SandboxInv, Sandbox!TypeOK, Sandbox!IInv, Sandbox!CompletedWasEnforced,
          Sandbox!Alive
  <1>1. CASE Sandbox!Write
    <2>1. pipe' \in 0 .. MaxWritten /\ written' \in 0 .. MaxWritten /\ pipe' <= written'
      BY <1>1, WorkspaceAssumption DEF Sandbox!Write
    <2> QED
      BY <1>1, <2>1 DEF Sandbox!Write
  <1>2. CASE Sandbox!CloseOutput
    <2>1. Sandbox!TypeOK'
      BY <1>2 DEF Sandbox!CloseOutput
    <2>2. Sandbox!IInv'
      BY <1>2 DEF Sandbox!CloseOutput
    <2> QED
      BY <2>1, <2>2
  <1>3. CASE Sandbox!Exit
    <2>1. Sandbox!TypeOK'
      BY <1>3 DEF Sandbox!Exit
    <2>2. Sandbox!IInv'
      BY <1>3 DEF Sandbox!Exit
    <2> QED
      BY <2>1, <2>2
  <1>4. CASE Sandbox!DieOfSignal
    <2>1. Sandbox!TypeOK'
      BY <1>4 DEF Sandbox!DieOfSignal
    <2>2. Sandbox!IInv'
      BY <1>4 DEF Sandbox!DieOfSignal
    <2> QED
      BY <2>1, <2>2
  <1>5. CASE Sandbox!DeadlinePasses
    <2>1. Sandbox!TypeOK'
      BY <1>5 DEF Sandbox!DeadlinePasses, Sandbox!process
    <2>2. Sandbox!IInv'
      BY <1>5 DEF Sandbox!DeadlinePasses, Sandbox!process
    <2> QED
      BY <2>1, <2>2
  <1> QED
    BY <1>1, <1>2, <1>3, <1>4, <1>5

\* Output is kept as far as there is room.
LEMMA Kept ==
  ASSUME Sandbox!TypeOK, NEW n \in 0 .. MaxWritten
  PROVE  chunks + Sandbox!Least(n, MaxOutput - chunks) \in 0 .. MaxOutput
  <1>1. chunks \in Nat /\ chunks <= MaxOutput /\ n \in Nat /\ MaxOutput \in Nat
    BY WorkspaceAssumption DEF Sandbox!TypeOK
  <1>2. CASE n < MaxOutput - chunks
    BY <1>1, <1>2 DEF Sandbox!Least
  <1>3. CASE ~(n < MaxOutput - chunks)
    BY <1>1, <1>3 DEF Sandbox!Least
  <1> QED
    BY <1>2, <1>3

LEMMA ExecuteStep ==
  ASSUME SandboxInv, Sandbox!Execute
  PROVE  SandboxInv'
  <1> USE DEF SandboxInv, Sandbox!TypeOK, Sandbox!IInv, Sandbox!CompletedWasEnforced,
          Sandbox!Alive, Sandbox!process
  <1>1. CASE Sandbox!Prepare
    BY <1>1 DEF Sandbox!Prepare, Sandbox!Refusals
  <1>2. CASE Sandbox!Spawn
    BY <1>2 DEF Sandbox!Spawn
  <1>3. CASE Sandbox!TimeOut
    BY <1>3 DEF Sandbox!TimeOut, Sandbox!Kill
  <1>4. CASE Sandbox!Read
    <2>1. PICK n \in 1 .. pipe :
            /\ pipe' = pipe - n
            /\ chunks' = chunks + Sandbox!Least(n, MaxOutput - chunks)
            /\ IF n > MaxOutput - chunks
                 THEN /\ Sandbox!Kill /\ flags' = [flags EXCEPT !.truncated = TRUE]
                      /\ pc' = "wait"
                 ELSE UNCHANGED <<tool, flags, pc>>
      BY <1>4 DEF Sandbox!Read
    <2>2. pipe' \in 0 .. MaxWritten /\ n \in 0 .. MaxWritten /\ pipe' <= written
      <3>1. pipe \in Nat /\ pipe <= MaxWritten /\ written \in Nat /\ n \in Nat
            /\ 1 <= n /\ n <= pipe /\ MaxWritten \in Nat
        BY <2>1, WorkspaceAssumption
      <3> QED
        BY <2>1, <3>1
    <2>3. chunks' \in 0 .. MaxOutput
      BY <2>1, <2>2, Kept
    <2> QED
      BY <1>4, <2>1, <2>2, <2>3 DEF Sandbox!Read, Sandbox!Kill
  <1>5. CASE Sandbox!EndOfOutput \/ Sandbox!Nothing
    BY <1>5 DEF Sandbox!EndOfOutput, Sandbox!Nothing
  <1>6. CASE Sandbox!Poll
    <2>1. chunks + Sandbox!Least(pipe, MaxOutput - chunks) \in 0 .. MaxOutput
      <3>1. pipe \in 0 .. MaxWritten /\ Sandbox!TypeOK
        OBVIOUS
      <3> QED
        BY <3>1, Kept
    <2>2. pipe' \in 0 .. MaxWritten /\ chunks' \in 0 .. MaxOutput /\ pipe' <= written
      BY <1>6, <2>1, WorkspaceAssumption DEF Sandbox!Poll
    <2> QED
      BY <1>6, <2>2 DEF Sandbox!Poll
  <1>7. CASE Sandbox!Wait
    BY <1>7 DEF Sandbox!Wait, Sandbox!Kill
  <1>8. CASE Sandbox!WaitAgain
    BY <1>8 DEF Sandbox!WaitAgain
  <1>9. CASE Sandbox!Collect
    BY <1>9 DEF Sandbox!Collect, Sandbox!Status
  <1> QED
    BY <1>1, <1>2, <1>3, <1>4, <1>5, <1>6, <1>7, <1>8, <1>9 DEF Sandbox!Execute

LEMMA SandboxNext ==
  ASSUME SandboxInv, Sandbox!Next
  PROVE  SandboxInv'
  BY ToolStep, ExecuteStep DEF Sandbox!Next

-----------------------------------------------------------------------------
(* The workspace                                                           *)

LEMMA KeepsStill ==
  /\ SessionInv /\ UNCHANGED sessionVars => SessionInv'
  /\ ArtifactsInv /\ UNCHANGED artifactVars => ArtifactsInv'
  /\ LedgerInv /\ UNCHANGED ledgerVars => LedgerInv'
  /\ SandboxInv /\ UNCHANGED sandboxVars => SandboxInv'
  <1>1. SessionInv /\ UNCHANGED sessionVars => SessionInv'
    BY DEF sessionVars, SessionInv, Session!TypeOK, Session!IInv, Session!CallInv,
       Session!Follows, Session!FinalizedWasPublished
  <1>2. ArtifactsInv /\ UNCHANGED artifactVars => ArtifactsInv'
    BY DEF artifactVars, ArtifactsInv, Artifacts!IInv, Artifacts!Holds
  <1>3. LedgerInv /\ UNCHANGED ledgerVars => LedgerInv'
    BY DEF ledgerVars, LedgerInv, Ledger!IInv, Ledger!CommittedIsValid, Ledger!Valid,
       Ledger!Intact, Ledger!Named
  <1>4. SandboxInv /\ UNCHANGED sandboxVars => SandboxInv'
    BY DEF sandboxVars, SandboxInv, Sandbox!TypeOK, Sandbox!IInv, Sandbox!Alive,
       Sandbox!CompletedWasEnforced
  <1> QED
    BY <1>1, <1>2, <1>3, <1>4

WorkspaceInv == SessionInv /\ ArtifactsInv /\ LedgerInv /\ SandboxInv

LEMMA WorkspaceInvInit == WorkspaceInit => WorkspaceInv
  BY SessionInit, ArtifactsInit, LedgerInit, SandboxInit DEF WorkspaceInit, WorkspaceInv

LEMMA WorkspaceInvNext ==
  ASSUME WorkspaceInv, [WorkspaceNext]_workspaceVars
  PROVE  WorkspaceInv'
  <1>1. /\ Session!Next \/ UNCHANGED sessionVars
        /\ Artifacts!Next \/ UNCHANGED artifactVars
        /\ Ledger!Next \/ UNCHANGED ledgerVars
        /\ Sandbox!Next \/ UNCHANGED sandboxVars
    BY DEF WorkspaceNext, workspaceVars
  <1> QED
    BY <1>1, KeepsStill, SessionNext, ArtifactsNext, LedgerNext, SandboxNext DEF WorkspaceInv

\* Each component keeps its inductive invariant, whichever of them runs.
THEOREM Invariance == WorkspaceSpec => []WorkspaceInv
  BY WorkspaceInvInit, WorkspaceInvNext, PTL DEF WorkspaceSpec

\* The promotion in a workspace behaves as Promotion says, so that what is proved
\* of Promotion holds in a workspace.
THEOREM Promotes == WorkspaceSpec => Spec
  <1>1. WorkspaceInit => Init
    BY DEF WorkspaceInit
  <1>2. [WorkspaceNext]_workspaceVars => [Next]_vars
    BY DEF WorkspaceNext, workspaceVars
  <1> QED
    BY <1>1, <1>2, PTL DEF WorkspaceSpec, Spec

\* domain_sessions.py: a session that says FINALIZED had its candidate published,
\* for any number of clients, revisions, crashes and torn or damaged files.
THEOREM Finalized == WorkspaceSpec => []FinalizedWasPublished
  <1>1. WorkspaceInv => FinalizedWasPublished
    BY DEF WorkspaceInv, SessionInv, Session!IInv, FinalizedWasPublished
  <1> QED
    BY <1>1, Invariance, PTL

\* domain_sessions.py: from the revision that prepares a candidate on, every
\* revision names it and the one it was made from.
THEOREM Frozen == WorkspaceSpec => CandidateIsFrozen
  <1>1. WorkspaceInv /\ [WorkspaceNext]_workspaceVars =>
          [last.candidate # None =>
             last'.candidate = last.candidate /\ last'.base = last.base]_(Session!vars)
    <2> SUFFICES ASSUME WorkspaceInv, [WorkspaceNext]_workspaceVars,
                        last.candidate # None, ~ UNCHANGED Session!vars
                 PROVE  last'.candidate = last.candidate /\ last'.base = last.base
      OBVIOUS
    <2>1. Session!Next
      BY DEF WorkspaceNext, workspaceVars, sessionVars, Session!vars
    <2> QED
      BY <2>1, SessionFreezes DEF WorkspaceInv
  <1> QED
    BY <1>1, Invariance, PTL DEF WorkspaceSpec, CandidateIsFrozen, Session!CandidateIsFrozen

\* mcp_artifacts.py: a publication of several artifacts that ends has put all of
\* them in place, or has taken back every one it had linked.
THEOREM AllOrNone == WorkspaceSpec => []AllOrNothing
  <1>1. WorkspaceInv => AllOrNothing
    BY DEF WorkspaceInv, ArtifactsInv, Artifacts!IInv, Artifacts!Call, AllOrNothing,
       Artifacts!AllOrNothing
  <1> QED
    BY <1>1, Invariance, PTL

\* lifecycle.py: a manifest that is published passes the validation of its
\* consumers, whatever failed or was changed while the run was recorded, unless
\* something was changed between the look commit took and its link.
THEOREM Committed == WorkspaceSpec => []CommittedIsValid
  <1>1. WorkspaceInv => CommittedIsValid
    BY DEF WorkspaceInv, LedgerInv, Ledger!IInv, CommittedIsValid
  <1> QED
    BY <1>1, Invariance, PTL

\* execution.py: when an execution is done no process of the tool is left, and
\* COMPLETED is said only of one its policy held for, for any amount of output.
THEOREM Contained == WorkspaceSpec => []FinishedIsContained
  <1>1. WorkspaceInv => FinishedIsContained
    BY DEF WorkspaceInv, SandboxInv, Sandbox!IInv, FinishedIsContained,
       Sandbox!NothingSurvives
  <1> QED
    BY <1>1, Invariance, PTL

=============================================================================
