------------------------------- MODULE RunLedger -------------------------------
(***************************************************************************)
(* The evidence ledger of a run: artifacts published one by one and chained *)
(* by digest, a terminal manifest, and the validation a consumer makes of  *)
(* it later.  Publications may fail at any step, callers may go on, and    *)
(* others may change the directory.  Source: pipeline/lifecycle.py.        *)
(***************************************************************************)
EXTENDS Naturals, Sequences, SequencesExt

CONSTANTS
  States,      \* PipelineState
  MaxRecords,  \* bound: publications that are begun
  MaxTampers   \* bound: changes others make

VARIABLES
  directory, \* the artifact of each name there is: its digest and its predecessor's
  listed,    \* artifacts: names and digests, in order
  sequence,  \* number of transitions
  manifest,  \* the inventory of manifest.json, empty while there is none
  committed,
  step,      \* what a record or a commit in progress has yet to do
  disturbed, \* history: others changed something since commit looked at the files
  digests, tampers

vars == <<directory, listed, sequence, manifest, committed, step, disturbed, digests,
          tampers>>

NoStep == [pc |-> "idle", name |-> <<>>, digest |-> 0]

RunFile == <<0, "run">>

\* __init__ publishes run.json, which has no predecessor.
Init ==
  /\ directory = {[name |-> RunFile, digest |-> 1, previous |-> 0]}
  /\ listed = <<[name |-> RunFile, digest |-> 1]>>
  /\ sequence = 0 /\ manifest = <<>> /\ committed = FALSE /\ step = NoStep
  /\ disturbed = FALSE /\ digests = 1 /\ tampers = 0

Named(name) == {f \in directory : f.name = name}

\* record: the payload names the digest of the last listed artifact.
Link(state) ==
  LET name == <<sequence + 1, state>> IN
  /\ ~committed /\ step.pc = "idle" /\ digests <= MaxRecords
  /\ Named(name) = {}                  \* else os.link raises, and nothing changed
  /\ digests' = digests + 1
  /\ directory' = directory \cup
       {[name |-> name, digest |-> digests', previous |-> Last(listed).digest]}
  /\ step' = [pc |-> "list", name |-> name, digest |-> digests']
  /\ UNCHANGED <<listed, sequence, manifest, committed, disturbed, tampers>>

\* The directory cannot be synchronised: the file is there and not listed.  Or
\* the manifest cannot be staged.
FailSync ==
  /\ step.pc \in {"list", "publish"} /\ step' = NoStep
  /\ UNCHANGED <<directory, listed, sequence, manifest, committed, disturbed, digests,
                 tampers>>

List ==
  /\ step.pc = "list" /\ step' = NoStep
  /\ listed' = Append(listed, [name |-> step.name, digest |-> step.digest])
  /\ sequence' = sequence + 1
  /\ UNCHANGED <<directory, manifest, committed, disturbed, digests, tampers>>

\* _validate_artifacts: every listed file is there with its digest.
Intact(inventory) ==
  \A i \in DOMAIN inventory :
    \E f \in directory : f.name = inventory[i].name /\ f.digest = inventory[i].digest

\* Mutant: the manifest is published without a look at the files.
ValidateNothing ==
  /\ manifest = <<>> /\ step.pc = "idle"
  /\ step' = [NoStep EXCEPT !.pc = "publish"] /\ disturbed' = FALSE
  /\ UNCHANGED <<directory, listed, sequence, manifest, committed, digests, tampers>>

\* commit looks at the files, under no lock ...
ValidateArtifacts ==
  /\ manifest = <<>> /\ step.pc = "idle"
  /\ Intact(listed)
  /\ step' = [NoStep EXCEPT !.pc = "publish"] /\ disturbed' = FALSE
  /\ UNCHANGED <<directory, listed, sequence, manifest, committed, digests, tampers>>

\* ... and links the manifest like any artifact; where the directory cannot be
\* synchronised, the ledger stays open and a second commit finds the name taken.
PublishManifest ==
  /\ step.pc = "publish" /\ step' = NoStep
  /\ manifest' = listed /\ committed' \in BOOLEAN
  /\ UNCHANGED <<directory, listed, sequence, disturbed, digests, tampers>>

\* Others delete a file or change its bytes.  What they do once the manifest is
\* out is what Valid is there to notice.
Tamper ==
  /\ tampers < MaxTampers /\ manifest = <<>> /\ tampers' = tampers + 1
  /\ \E f \in directory : \E left \in {{}, {[f EXCEPT !.digest = 0]}} :
       directory' = (directory \ {f}) \cup left
  /\ disturbed' = TRUE
  /\ UNCHANGED <<listed, sequence, manifest, committed, step, digests>>

Next == (\E s \in States : Link(s)) \/ FailSync \/ List
        \/ ValidateArtifacts \/ PublishManifest \/ Tamper

Spec == Init /\ [][Next]_vars

\* validate: the files are intact and each names the digest before it.
Valid(inventory) ==
  /\ Intact(inventory)
  /\ Head(inventory).name = RunFile
  /\ \A i \in 2 .. Len(inventory) :
       \A f \in Named(inventory[i].name) : f.previous = inventory[i - 1].digest

-----------------------------------------------------------------------------
(* Properties                                                              *)

\* commit: whatever failed, was retried or was changed while the run went on, a
\* manifest that gets published passes the validation a consumer makes of it,
\* unless others changed a file between the look commit takes and its link.
CommittedIsValid == manifest # <<>> /\ ~disturbed => Valid(manifest)

ArtifactNames == Nat \X (States \cup {"run"})

\* The inductive invariant: the n-th transition is listed under the name n, a
\* file of that name chains to the one before it, and so does the file that is
\* linked and not yet listed.
IInv ==
  /\ directory \subseteq [name : ArtifactNames, digest : Nat, previous : Nat]
  /\ listed \in Seq([name : ArtifactNames, digest : Nat])
  /\ sequence \in Nat /\ digests \in Nat /\ Len(listed) = sequence + 1
  /\ Head(listed).name = RunFile
  /\ \A i \in 1 .. Len(listed) : listed[i].name[1] = i - 1
  /\ \A i \in 2 .. Len(listed) : \A f \in Named(listed[i].name) :
       f.previous = listed[i - 1].digest
  /\ step.pc = "list" =>
       /\ step.name \in ArtifactNames /\ step.digest \in Nat
       /\ step.name[1] = sequence + 1
       /\ \A f \in Named(step.name) : f.previous = Last(listed).digest
  /\ disturbed \in BOOLEAN
  /\ step.pc = "publish" => manifest = <<>> /\ (~disturbed => Intact(listed))
  /\ CommittedIsValid

=============================================================================
