----------------------------- MODULE Inspection -----------------------------
(***************************************************************************)
(* application/service.py inspect_chart, with core/safety.py that admits a *)
(* chart and evidence/bundle.py write_bundle that publishes the result.    *)
(* Runs are invocations that name one chart path and one output directory; *)
(* the chart at that path may be rebuilt at any time, and any invocation   *)
(* may be killed.                                                          *)
(*                                                                         *)
(* A chart stands for the archive with its values files: the four places   *)
(* that read them (helm template, the digests, helm install, the archive   *)
(* version) read the same paths.  A manifest is what it renders, and the   *)
(* rules it matches are a function of it.                                  *)
(***************************************************************************)
EXTENDS Naturals

CONSTANTS
  Runs,          \* invocations
  Charts,        \* what the chart path may hold
  Manifests,     \* what a chart renders
  Manifest,      \* [Charts -> Manifests]
  Matched,       \* the hard-stop rules a manifest matches
  Overridable,   \* the rules an operator may accept
  Plans,         \* evaluation plans
  Requests,      \* the options of the invocations
  MaxRebuilds,   \* how often the chart may be rebuilt meanwhile
  None           \* no value

ASSUME ManifestAssumption == Manifest \in [Charts -> Manifests]
ASSUME MaxRebuildsAssumption == MaxRebuilds \in Nat
ASSUME NoneAssumption == None \notin Charts \cup Manifests \cup Plans

\* A bundle's files: the evaluation with its report, profile and input; the
\* artifacts of the run; the integrity manifest over all of them.
File == {"evaluation", "artifacts", "seal"}

\* The inputs one approval is bound to (approval_scope_sha256); the rules are
\* the manifest's.
ScopeType == [chart : Charts, manifest : Manifests, plan : Plans]

\* archive: the chart is a .tgz file.  generated: a model proposes the plan.
\* manifest and expected: what the operator reviewed.
RequestType ==
  [execute : BOOLEAN, archive : BOOLEAN, generated : BOOLEAN, plan : Plans,
   manifest : Manifests \cup {None}, expected : Plans \cup {None},
   approval : ScopeType \cup {None}]

ASSUME RequestsAssumption == Requests \subseteq RequestType /\ None \notin ScopeType

VARIABLES
  file,       \* the chart at the path
  rebuilds,   \* how often it was rebuilt
  output,     \* the output directory
  temporary,  \* .<output>.tmp-* of each run
  request,    \* options of each run
  pc,         \* where each run is
  rendered,   \* the chart helm template read
  plan,       \* the frozen plan
  digested,   \* the chart chart_package_sha256 is of
  outcome,    \* the admission decision
  installed   \* the chart helm install read

inputs == <<rendered, plan, digested, outcome, installed>>
vars == <<file, rebuilds, output, temporary, request, pc, inputs>>

Directory == [there : BOOLEAN, owner : Runs \cup {None}, files : SUBSET File]
Absent == [there |-> FALSE, owner |-> None, files |-> {}]
Empty == [there |-> TRUE, owner |-> None, files |-> {}]

Ended == {"returned", "failed", "killed"}

Init ==
  /\ file \in Charts /\ rebuilds = 0
  /\ output \in {Absent, Empty}
  /\ temporary = [r \in Runs |-> Absent]
  /\ request \in [Runs -> Requests]
  /\ pc = [r \in Runs |-> "start"]
  /\ rendered = [r \in Runs |-> None] /\ plan = [r \in Runs |-> None]
  /\ digested = [r \in Runs |-> None] /\ outcome = [r \in Runs |-> "none"]
  /\ installed = [r \in Runs |-> None]

Goto(r, to) == pc' = [pc EXCEPT ![r] = to]

\* An exception that leaves inspect_chart before any directory was made.
Refuse(r) == Goto(r, "failed")

-----------------------------------------------------------------------------
(* inspect_chart                                                             *)

NewOrEmpty == output.files = {}

\* The output must be new or empty, an execution needs an archive, and a plan
\* proposed by a model is for a separate preflight.
Begin(r) ==
  /\ pc[r] = "start"
  /\ IF /\ NewOrEmpty
        /\ request[r].generated => ~request[r].execute
        /\ request[r].execute => request[r].archive
     THEN Goto(r, "render")
     ELSE Refuse(r)
  /\ UNCHANGED <<file, rebuilds, output, temporary, request, inputs>>

\* helm is missing, exceeds its time or its output limit, or rejects the chart.
RenderFails(r) ==
  /\ pc[r] = "render"
  /\ Refuse(r)
  /\ UNCHANGED <<file, rebuilds, output, temporary, request, inputs>>

\* helm template reads the chart; what it renders must parse, and be what was
\* reviewed.
Render(r) ==
  /\ pc[r] = "render"
  /\ rendered' = [rendered EXCEPT ![r] = file]
  /\ \/ Refuse(r)
     \/ request[r].manifest \in {None, Manifest[file]} /\ Goto(r, "plan")
  /\ UNCHANGED <<file, rebuilds, output, temporary, request, plan, digested, outcome, installed>>

\* The plan is proposed or built, must be the reviewed one, and must fit the
\* rendered resources.
Plan(r) ==
  /\ pc[r] = "plan"
  /\ \E p \in Plans :
       /\ ~request[r].generated => p = request[r].plan
       /\ plan' = [plan EXCEPT ![r] = p]
       /\ \/ Refuse(r)
          \/ request[r].expected \in {None, p} /\ Goto(r, "admit")
  /\ UNCHANGED <<file, rebuilds, output, temporary, request, rendered, digested, outcome, installed>>

Rules(r) == Matched[Manifest[rendered[r]]]

\* The scope an approval of this input would have, where one is possible.
Scope(r, chart) ==
  IF request[r].archive /\ Rules(r) # {} /\ Rules(r) \subseteq Overridable
  THEN [chart |-> chart, manifest |-> Manifest[rendered[r]], plan |-> plan[r]]
  ELSE None

\* Slip: a scope that does not match leaves the chart to its rules.
SlipAdmit(r) ==
  /\ pc[r] = "admit"
  /\ digested' = [digested EXCEPT ![r] = IF request[r].archive THEN file ELSE None]
  /\ outcome' = [outcome EXCEPT ![r] =
       IF request[r].approval # None THEN "approved"
       ELSE IF Rules(r) = {} THEN "admit" ELSE "static_only"]
  /\ Goto(r, "execute")
  /\ UNCHANGED <<file, rebuilds, output, temporary, request, rendered, plan, installed>>

\* decide_local_admission, the digests of the inputs and the approval.
Admit(r) ==
  /\ pc[r] = "admit"
  /\ digested' = [digested EXCEPT ![r] = IF request[r].archive THEN file ELSE None]
  /\ LET approval == request[r].approval
     IN  \/ /\ approval = None
            /\ outcome' = [outcome EXCEPT ![r] = IF Rules(r) = {} THEN "admit" ELSE "static_only"]
            /\ Goto(r, "execute")
         \/ /\ approval # None
            /\ IF request[r].execute /\ approval = Scope(r, file)
               THEN outcome' = [outcome EXCEPT ![r] = "approved"] /\ Goto(r, "execute")
               ELSE UNCHANGED outcome /\ Refuse(r)
  /\ UNCHANGED <<file, rebuilds, output, temporary, request, rendered, plan, installed>>

Admitted(r) == request[r].execute /\ outcome[r] \in {"admit", "approved"}

\* run_runtime makes a cluster and installs the chart as it is by then, or
\* stops before; it returns, or an exception passes through.
Execute(r) ==
  /\ pc[r] = "execute" /\ Admitted(r)
  /\ installed' \in {installed, [installed EXCEPT ![r] = file]}
  /\ Goto(r, "version") \/ Refuse(r)
  /\ UNCHANGED <<file, rebuilds, output, temporary, request, rendered, plan, digested, outcome>>

NoExecution(r) ==
  /\ pc[r] = "execute" /\ ~Admitted(r)
  /\ Goto(r, "version")
  /\ UNCHANGED <<file, rebuilds, output, temporary, request, inputs>>

\* The version is read off the archive once more; an archive that cannot be
\* read any longer, or names none, ends the run with what it measured.
ReadVersion(r) ==
  /\ pc[r] = "version"
  /\ Goto(r, "evaluate") \/ (request[r].archive /\ Refuse(r))
  /\ UNCHANGED <<file, rebuilds, output, temporary, request, inputs>>

\* The evaluation is built, and its validation need not succeed.  An
\* interpretation, when asked for, is added or is reported unavailable.
Evaluate(r) ==
  /\ pc[r] = "evaluate"
  /\ Goto(r, "write") \/ Refuse(r)
  /\ UNCHANGED <<file, rebuilds, output, temporary, request, inputs>>

-----------------------------------------------------------------------------
(* write_bundle                                                              *)

\* The output is looked at again, and a directory made beside it.
OpenTemporary(r) ==
  /\ pc[r] = "write"
  /\ IF NewOrEmpty
     THEN /\ temporary' = [temporary EXCEPT ![r] = [there |-> TRUE, owner |-> r, files |-> {}]]
          /\ Goto(r, "files")
     ELSE Refuse(r) /\ UNCHANGED temporary
  /\ UNCHANGED <<file, rebuilds, output, request, inputs>>

\* One file is written; the seal comes last and is verified with the rest.
WriteFile(r) ==
  /\ pc[r] = "files"
  /\ \E f \in File \ temporary[r].files :
       /\ f = "artifacts" => "evaluation" \in temporary[r].files
       /\ f = "seal" => temporary[r].files = File \ {"seal"}
       /\ temporary' = [temporary EXCEPT ![r].files = @ \cup {f}]
       /\ IF f = "seal" THEN Goto(r, "promote") ELSE UNCHANGED pc
  /\ UNCHANGED <<file, rebuilds, output, request, inputs>>

\* if output.exists(): output.rmdir() - which fails when somebody filled it;
\* that it may also be gone by then is one of the failures of WriteFails.
RemoveEmpty(r) ==
  /\ pc[r] = "promote" /\ output.there
  /\ IF output.files = {}
     THEN output' = Absent /\ Goto(r, "replace")
     ELSE Goto(r, "cleanup") /\ UNCHANGED output
  /\ UNCHANGED <<file, rebuilds, temporary, request, inputs>>

NothingToRemove(r) ==
  /\ pc[r] = "promote" /\ ~output.there
  /\ Goto(r, "replace")
  /\ UNCHANGED <<file, rebuilds, output, temporary, request, inputs>>

\* Slip: the rename takes the place of whatever is there.
SlipReplace(r) ==
  /\ pc[r] = "replace"
  /\ output' = temporary[r]
  /\ temporary' = [temporary EXCEPT ![r] = Absent]
  /\ Goto(r, "returned")
  /\ UNCHANGED <<file, rebuilds, request, inputs>>

\* rename(2): a directory takes the place of nothing or of an empty one.
Replace(r) ==
  /\ pc[r] = "replace"
  /\ IF output.files = {}
     THEN /\ output' = temporary[r]
          /\ temporary' = [temporary EXCEPT ![r] = Absent]
          /\ Goto(r, "returned")
     ELSE Goto(r, "cleanup") /\ UNCHANGED <<output, temporary>>
  /\ UNCHANGED <<file, rebuilds, request, inputs>>

\* A file or a rename that fails, or a bundle that does not verify.
WriteFails(r) ==
  /\ pc[r] \in {"files", "promote", "replace"}
  /\ Goto(r, "cleanup")
  /\ UNCHANGED <<file, rebuilds, output, temporary, request, inputs>>

\* finally: shutil.rmtree(temporary_output)
CleanUp(r) ==
  /\ pc[r] = "cleanup"
  /\ temporary' = [temporary EXCEPT ![r] = Absent]
  /\ Goto(r, "failed")
  /\ UNCHANGED <<file, rebuilds, output, request, inputs>>

-----------------------------------------------------------------------------
\* The invocation ends without its finally clauses.
Kill(r) ==
  /\ pc[r] \notin Ended
  /\ Goto(r, "killed")
  /\ UNCHANGED <<file, rebuilds, output, temporary, request, inputs>>

\* Somebody rebuilds the chart.
Rebuild ==
  /\ \E r \in Runs : pc[r] \notin Ended
  /\ rebuilds < MaxRebuilds /\ rebuilds' = rebuilds + 1
  /\ file' \in Charts \ {file}
  /\ UNCHANGED <<output, temporary, request, pc, inputs>>

Terminated == (\A r \in Runs : pc[r] \in Ended) /\ UNCHANGED vars

Run(r) ==
  \/ Begin(r) \/ RenderFails(r) \/ Render(r) \/ Plan(r) \/ Admit(r)
  \/ Execute(r) \/ NoExecution(r) \/ ReadVersion(r) \/ Evaluate(r)
  \/ OpenTemporary(r) \/ WriteFile(r) \/ RemoveEmpty(r) \/ NothingToRemove(r)
  \/ Replace(r) \/ WriteFails(r) \/ CleanUp(r) \/ Kill(r)

Next == (\E r \in Runs : Run(r)) \/ Rebuild \/ Terminated

Spec == Init /\ [][Next]_vars

-----------------------------------------------------------------------------
TypeOK ==
  /\ file \in Charts
  /\ rebuilds \in 0..MaxRebuilds
  /\ output \in Directory
  /\ temporary \in [Runs -> Directory]
  /\ request \in [Runs -> Requests]
  /\ pc \in [Runs -> {"start", "render", "plan", "admit", "execute", "version",
                      "evaluate", "write",
                      "files", "promote", "replace", "cleanup"} \cup Ended]
  /\ rendered \in [Runs -> Charts \cup {None}]
  /\ plan \in [Runs -> Plans \cup {None}]
  /\ digested \in [Runs -> Charts \cup {None}]
  /\ outcome \in [Runs -> {"none", "admit", "static_only", "approved"}]
  /\ installed \in [Runs -> Charts \cup {None}]

\* A reader of the output sees nothing or one whole bundle, of one run; a run
\* that returned finds its own bundle there for good, so of the runs that
\* raced for one output only one returns (write_bundle's promotion).
OutputIsWhole ==
  /\ output.files # {} => output.there /\ output.files = File
  /\ \A r \in Runs : pc[r] = "returned" => output.owner = r /\ output.files = File

\* A chart reaches a cluster only from an archive whose reviewed manifest and
\* plan are the ones the run rendered and froze, and either no rule matched or
\* the operator approved exactly the digests, the manifest and the plan of this
\* run, with none of its rules beyond approval (inspect_chart and safety.py).
RunsAreAdmitted ==
  \A r \in Runs : installed[r] # None =>
    /\ request[r].execute /\ request[r].archive
    /\ request[r].manifest \in {None, Manifest[rendered[r]]}
    /\ request[r].expected \in {None, plan[r]}
    /\ \/ Rules(r) = {}
       \/ /\ Rules(r) \subseteq Overridable
          /\ request[r].approval =
               [chart |-> digested[r], manifest |-> Manifest[rendered[r]], plan |-> plan[r]]

\* A run that was not killed leaves no temporary directory behind, whichever
\* write, verification or rename failed (write_bundle's finally clause).
NoLeftovers == \A r \in Runs : pc[r] \in {"returned", "failed"} => ~temporary[r].there

\* What each stage knows, for the proofs.
Reviewed(r) ==
  /\ rendered[r] \in Charts
  /\ request[r].execute => request[r].archive
  /\ request[r].manifest \in {None, Manifest[rendered[r]]}

Frozen(r) == Reviewed(r) /\ request[r].expected \in {None, plan[r]}

Decided(r) ==
  /\ Frozen(r)
  /\ outcome[r] = "admit" => Rules(r) = {}
  /\ outcome[r] = "approved" =>
       /\ Rules(r) \subseteq Overridable
       /\ request[r].approval =
            [chart |-> digested[r], manifest |-> Manifest[rendered[r]], plan |-> plan[r]]

Knows(r) ==
  /\ pc[r] = "render" => (request[r].execute => request[r].archive)
  /\ pc[r] = "plan" => Reviewed(r)
  /\ pc[r] = "admit" => Frozen(r)
  /\ pc[r] = "execute" => Decided(r)
  /\ installed[r] # None =>
       /\ Decided(r) /\ Admitted(r)
       /\ pc[r] \notin {"start", "render", "plan", "admit", "execute"}

DecisionInv == \A r \in Runs : Knows(r)

\* A temporary directory is its run's, from its making to its end.
Keeps(r) ==
  /\ pc[r] \notin {"files", "promote", "replace", "cleanup", "killed"} => temporary[r] = Absent
  /\ temporary[r].there => temporary[r].owner = r
  /\ pc[r] \in {"files", "promote", "replace"} => temporary[r].there
  /\ pc[r] \in {"promote", "replace"} => temporary[r].files = File

TemporaryInv == \A r \in Runs : Keeps(r)

IInv == TypeOK /\ DecisionInv /\ TemporaryInv /\ OutputIsWhole

\* "The scope binds the chart package [...] A mismatch stops before kind
\* starts." (README.md, the approval of local host access): an approved
\* installation installs the approved chart.
ApprovalBindsTheChart ==
  \A r \in Runs : outcome[r] = "approved" /\ installed[r] # None =>
    installed[r] = request[r].approval.chart
=============================================================================
