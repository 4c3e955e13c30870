-------------------------- MODULE InspectionProofs --------------------------
(***************************************************************************)
(* For any number of invocations, any charts, rules, plans and options:    *)
(* the output is nothing or one whole bundle, and a chart reaches a        *)
(* cluster only as admitted or approved.                                   *)
(***************************************************************************)
EXTENDS Inspection, TLAPS

\* The invariant holds at the start: no run has read or written anything.
LEMMA InitIInv == Init => IInv
<1> SUFFICES ASSUME Init PROVE IInv
  OBVIOUS
<1>1. Absent \in Directory /\ Empty \in Directory
  BY DEF Absent, Empty, Directory
<1>2. TypeOK
  BY <1>1, MaxRebuildsAssumption DEF Init, TypeOK, Ended
<1>3. DecisionInv
  BY DEF Init, DecisionInv, Knows
<1>4. TemporaryInv
  BY DEF Init, TemporaryInv, Keeps, Absent
<1>5. OutputIsWhole
  BY DEF Init, OutputIsWhole, Absent, Empty
<1> QED
  BY <1>2, <1>3, <1>4, <1>5 DEF IInv

\* A step of a run preserves the types.
LEMMA RunTypeOK ==
  ASSUME TypeOK, NEW r \in Runs, Run(r)
  PROVE  TypeOK'
<1>1. Absent \in Directory
  BY DEF Absent, Directory
<1> USE DEF Goto, Refuse, Ended, inputs
<1>2. CASE Begin(r)
  BY <1>2 DEF Begin, TypeOK
<1>3. CASE RenderFails(r)
  BY <1>3 DEF RenderFails, TypeOK
<1>4. CASE Render(r)
  BY <1>4 DEF Render, TypeOK
<1>5. CASE Plan(r)
  BY <1>5 DEF Plan, TypeOK
<1>6. CASE Admit(r)
  BY <1>6 DEF Admit, TypeOK
<1>7. CASE Execute(r)
  BY <1>7 DEF Execute, TypeOK
<1>8. CASE NoExecution(r)
  BY <1>8 DEF NoExecution, TypeOK
<1>9. CASE ReadVersion(r)
  BY <1>9 DEF ReadVersion, TypeOK
<1>10. CASE Evaluate(r)
  BY <1>10 DEF Evaluate, TypeOK
<1>11. CASE OpenTemporary(r)
  <2>1. [there |-> TRUE, owner |-> r, files |-> {}] \in Directory
    BY DEF Directory
  <2>2. temporary' \in [Runs -> Directory]
    BY <1>11, <2>1 DEF OpenTemporary, TypeOK
  <2> QED
    BY <1>11, <2>2 DEF OpenTemporary, TypeOK
<1>12. CASE WriteFile(r)
  <2>1. PICK f \in File : temporary' = [temporary EXCEPT ![r].files = @ \cup {f}]
    BY <1>12 DEF WriteFile
  <2>2. temporary[r] \in Directory
    BY DEF TypeOK
  <2>3. temporary' \in [Runs -> Directory]
    BY <2>1, <2>2 DEF TypeOK, Directory
  <2> QED
    BY <1>12, <2>3 DEF WriteFile, TypeOK
<1>13. CASE RemoveEmpty(r)
  BY <1>13, <1>1 DEF RemoveEmpty, TypeOK
<1>14. CASE NothingToRemove(r)
  BY <1>14 DEF NothingToRemove, TypeOK
<1>15. CASE Replace(r)
  <2>1. output' \in Directory
    BY <1>15 DEF Replace, TypeOK
  <2>2. temporary' \in [Runs -> Directory]
    BY <1>15, <1>1 DEF Replace, TypeOK
  <2> QED
    BY <1>15, <2>1, <2>2 DEF Replace, TypeOK
<1>16. CASE WriteFails(r)
  BY <1>16 DEF WriteFails, TypeOK
<1>17. CASE CleanUp(r)
  BY <1>17, <1>1 DEF CleanUp, TypeOK
<1>18. CASE Kill(r)
  BY <1>18 DEF Kill, TypeOK
<1> QED
  BY <1>2, <1>3, <1>4, <1>5, <1>6, <1>7, <1>8, <1>9, <1>10, <1>11, <1>12, <1>13, <1>14, <1>15,
     <1>16, <1>17, <1>18 DEF Run

\* What a run knows depends on nothing of the others.
LEMMA OthersKnow ==
  ASSUME NEW s \in Runs, Knows(s), pc'[s] = pc[s], request'[s] = request[s],
         rendered'[s] = rendered[s], plan'[s] = plan[s], digested'[s] = digested[s],
         outcome'[s] = outcome[s], installed'[s] = installed[s]
  PROVE  Knows(s)'
BY DEF Knows, Decided, Frozen, Reviewed, Admitted, Rules

\* A step of a run touches no other run.
LEMMA RunFrame ==
  ASSUME TypeOK, NEW r \in Runs, Run(r), NEW s \in Runs \ {r}
  PROVE  /\ pc'[s] = pc[s] /\ request'[s] = request[s]
         /\ rendered'[s] = rendered[s] /\ plan'[s] = plan[s] /\ digested'[s] = digested[s]
         /\ outcome'[s] = outcome[s] /\ installed'[s] = installed[s]
<1> USE DEF Goto, Refuse, inputs
<1>1. CASE Begin(r) \/ RenderFails(r) \/ Render(r)
  BY <1>1 DEF Begin, RenderFails, Render, TypeOK
<1>2. CASE Plan(r) \/ Admit(r) \/ Execute(r)
  BY <1>2 DEF Plan, Admit, Execute, TypeOK
<1>3. CASE NoExecution(r) \/ ReadVersion(r) \/ Evaluate(r) \/ OpenTemporary(r) \/ WriteFile(r)
  BY <1>3 DEF NoExecution, ReadVersion, Evaluate, OpenTemporary, WriteFile, TypeOK
<1>4. CASE \/ RemoveEmpty(r) \/ NothingToRemove(r) \/ Replace(r) \/ WriteFails(r)
           \/ CleanUp(r) \/ Kill(r)
  BY <1>4 DEF RemoveEmpty, NothingToRemove, Replace, WriteFails, CleanUp, Kill, TypeOK
<1> QED
  BY <1>1, <1>2, <1>3, <1>4 DEF Run

\* A step of a run preserves what its stages know: each gate is passed before
\* the next one is reached, and nothing that was decided upon changes later.
LEMMA RunDecisionInv ==
  ASSUME TypeOK, DecisionInv, NEW r \in Runs, Run(r)
  PROVE  DecisionInv'
<1>1. ASSUME NEW s \in Runs \ {r} PROVE Knows(s)'
  BY RunFrame, OthersKnow DEF DecisionInv
<1>2. Knows(r)
  BY DEF DecisionInv
<1> SUFFICES Knows(r)'
  BY <1>1 DEF DecisionInv
<1> USE DEF Goto, Refuse, inputs
<1>3. CASE Begin(r)
  <2>1. installed'[r] = None
    BY <1>2, <1>3 DEF Begin, Knows
  <2>2. pc'[r] = "failed" \/ (pc'[r] = "render" /\ (request'[r].execute => request'[r].archive))
    BY <1>3 DEF Begin, TypeOK
  <2> QED
    BY <2>1, <2>2 DEF Knows
<1>4. CASE RenderFails(r)
  <2>1. installed'[r] = None /\ pc'[r] = "failed"
    BY <1>2, <1>4 DEF RenderFails, Knows, TypeOK
  <2> QED
    BY <2>1 DEF Knows
<1>5. CASE Render(r)
  <2>1. installed'[r] = None
    BY <1>2, <1>5 DEF Render, Knows
  <2>2. pc'[r] = "failed" \/ (pc'[r] = "plan" /\ Reviewed(r)')
    BY <1>2, <1>5 DEF Render, Reviewed, TypeOK, Knows
  <2> QED
    BY <2>1, <2>2 DEF Knows
<1>6. CASE Plan(r)
  <2>1. installed'[r] = None
    BY <1>2, <1>6 DEF Plan, Knows
  <2>2. pc'[r] = "failed" \/ (pc'[r] = "admit" /\ Frozen(r)')
    BY <1>2, <1>6 DEF Plan, Frozen, Reviewed, TypeOK, Knows
  <2> QED
    BY <2>1, <2>2 DEF Knows
<1>7. CASE Admit(r)
  <2>1. installed'[r] = None /\ pc'[r] \in {"execute", "failed"} /\ Frozen(r)
    BY <1>2, <1>7 DEF Admit, Knows, TypeOK
  <2>2. Frozen(r)'
    BY <1>7, <2>1 DEF Admit, Frozen, Reviewed
  <2>3. ASSUME pc'[r] = "execute" PROVE Decided(r)'
    <3>1. CASE request[r].approval = None
      <4>1. outcome'[r] = IF Rules(r) = {} THEN "admit" ELSE "static_only"
        BY <1>7, <3>1 DEF Admit, TypeOK
      <4> QED
        BY <1>7, <2>2, <4>1 DEF Admit, Decided, Rules
    <3>2. CASE request[r].approval # None
      <4>1. /\ request[r].execute /\ request[r].approval = Scope(r, file)
            /\ outcome'[r] = "approved"
        BY <1>7, <2>3, <3>2 DEF Admit, TypeOK
      <4>2. request[r].archive /\ digested'[r] = file
        BY <1>7, <4>1, <2>1 DEF Admit, TypeOK, Frozen, Reviewed
      <4>3. /\ Rules(r) \subseteq Overridable
            /\ request[r].approval =
                 [chart |-> file, manifest |-> Manifest[rendered[r]], plan |-> plan[r]]
        BY <3>2, <4>1 DEF Scope
      <4> QED
        BY <1>7, <2>2, <4>1, <4>2, <4>3 DEF Admit, Decided, Rules
    <3> QED
      BY <3>1, <3>2
  <2> QED
    BY <2>1, <2>3 DEF Knows
<1>8. CASE Execute(r)
  <2>1. Decided(r) /\ Admitted(r)
    BY <1>2, <1>8 DEF Execute, Knows
  <2>2. Decided(r)' /\ Admitted(r)'
    BY <1>8, <2>1 DEF Execute, Decided, Frozen, Reviewed, Admitted, Rules
  <2>3. pc'[r] \in {"version", "failed"}
    BY <1>8 DEF Execute, TypeOK
  <2> QED
    BY <2>2, <2>3 DEF Knows
<1>9. CASE /\ UNCHANGED <<request, inputs>>
           /\ pc'[r] = pc[r] \/ pc'[r] \notin {"start", "render", "plan", "admit", "execute"}
  BY <1>2, <1>9 DEF Knows, Decided, Frozen, Reviewed, Admitted, Rules
<1>10. CASE NoExecution(r) \/ ReadVersion(r) \/ Evaluate(r) \/ OpenTemporary(r) \/ WriteFile(r)
  BY <1>9, <1>10 DEF NoExecution, ReadVersion, Evaluate, OpenTemporary, WriteFile, TypeOK
<1>11. CASE \/ RemoveEmpty(r) \/ NothingToRemove(r) \/ Replace(r) \/ WriteFails(r)
            \/ CleanUp(r) \/ Kill(r)
  BY <1>9, <1>11
  DEF RemoveEmpty, NothingToRemove, Replace, WriteFails, CleanUp, Kill, TypeOK
<1> QED
  BY <1>3, <1>4, <1>5, <1>6, <1>7, <1>8, <1>10, <1>11 DEF Run

\* A step of a run preserves the ownership of the temporary directories.
LEMMA RunTemporaryInv ==
  ASSUME TypeOK, TemporaryInv, NEW r \in Runs, Run(r)
  PROVE  TemporaryInv'
<1>1. Keeps(r)
  BY DEF TemporaryInv
<1> USE DEF Goto, Refuse
<1>2. ASSUME NEW s \in Runs \ {r} PROVE Keeps(s)'
  <2>1. temporary'[s] = temporary[s]
    BY DEF Run, Begin, RenderFails, Render, Plan, Admit, Execute, NoExecution, ReadVersion,
           Evaluate, OpenTemporary, WriteFile, RemoveEmpty, NothingToRemove, Replace, WriteFails,
           CleanUp, Kill, TypeOK
  <2>2. pc'[s] = pc[s]
    BY RunFrame
  <2>3. Keeps(s)
    BY DEF TemporaryInv
  <2> QED
    BY <2>1, <2>2, <2>3 DEF Keeps
<1> SUFFICES Keeps(r)'
  BY <1>2 DEF TemporaryInv
<1>3. CASE /\ UNCHANGED temporary
           /\ \/ Begin(r) \/ RenderFails(r) \/ Render(r) \/ Plan(r) \/ Admit(r) \/ Execute(r)
              \/ NoExecution(r) \/ ReadVersion(r) \/ Evaluate(r)
  <2>1. /\ pc[r] \in {"start", "render", "plan", "admit", "execute", "version", "evaluate"}
        /\ pc'[r] \in {"render", "plan", "admit", "execute", "version", "evaluate", "write",
                       "failed"}
    BY <1>3 DEF Begin, RenderFails, Render, Plan, Admit, Execute, NoExecution, ReadVersion,
                Evaluate, TypeOK
  <2> QED
    BY <1>1, <1>3, <2>1 DEF Keeps
<1>4. CASE OpenTemporary(r)
  <2>1. \/ /\ pc'[r] = "files"
           /\ temporary'[r] = [there |-> TRUE, owner |-> r, files |-> {}]
        \/ pc'[r] = "failed" /\ pc[r] = "write" /\ temporary'[r] = temporary[r]
    BY <1>4 DEF OpenTemporary, TypeOK
  <2> QED
    BY <1>1, <2>1 DEF Keeps
<1>5. CASE WriteFile(r)
  <2>1. PICK f \in File :
          /\ f = "seal" => temporary[r].files = File \ {"seal"}
          /\ temporary' = [temporary EXCEPT ![r].files = @ \cup {f}]
          /\ IF f = "seal" THEN Goto(r, "promote") ELSE UNCHANGED pc
    BY <1>5 DEF WriteFile
  <2>2. /\ temporary[r] \in Directory /\ pc[r] = "files"
        /\ temporary[r].there /\ temporary[r].owner = r
    BY <1>1, <1>5 DEF WriteFile, TypeOK, Keeps
  <2>3. /\ temporary'[r].there /\ temporary'[r].owner = r
        /\ temporary'[r].files = temporary[r].files \cup {f}
    BY <2>1, <2>2 DEF TypeOK, Directory
  <2>4. f = "seal" => temporary'[r].files = File
    BY <2>1, <2>3 DEF File
  <2>5. pc'[r] \in {"files", "promote"} /\ (pc'[r] = "promote" => f = "seal")
    BY <2>1, <2>2 DEF TypeOK
  <2> QED
    BY <2>3, <2>4, <2>5 DEF Keeps
<1>6. CASE RemoveEmpty(r) \/ NothingToRemove(r) \/ WriteFails(r) \/ Kill(r)
  <2>1. temporary'[r] = temporary[r]
    BY <1>6 DEF RemoveEmpty, NothingToRemove, WriteFails, Kill
  <2>2. \/ pc[r] = "promote" /\ pc'[r] \in {"replace", "cleanup"}
        \/ pc'[r] = "cleanup" /\ pc[r] \in {"files", "promote", "replace"}
        \/ pc'[r] = "killed"
    BY <1>6 DEF RemoveEmpty, NothingToRemove, WriteFails, Kill, TypeOK
  <2> QED
    BY <1>1, <2>1, <2>2 DEF Keeps
<1>7. CASE Replace(r) \/ CleanUp(r)
  <2>1. \/ temporary'[r] = Absent /\ pc'[r] \in {"returned", "failed"}
        \/ temporary'[r] = temporary[r] /\ pc[r] = "replace" /\ pc'[r] = "cleanup"
    BY <1>7 DEF Replace, CleanUp, TypeOK
  <2>2. ~Absent.there
    BY DEF Absent
  <2> QED
    BY <1>1, <2>1, <2>2 DEF Keeps
<1> QED
  BY <1>3, <1>4, <1>5, <1>6, <1>7
  DEF Run, Begin, RenderFails, Render, Plan, Admit, Execute, NoExecution, ReadVersion, Evaluate,
      inputs

\* A step of a run preserves the output: it is taken by a rename alone, which
\* needs it absent or empty, so nobody has returned by then.
LEMMA RunOutputIsWhole ==
  ASSUME TypeOK, TemporaryInv, OutputIsWhole, NEW r \in Runs, Run(r)
  PROVE  OutputIsWhole'
<1> USE DEF Goto, Refuse
<1>1. CASE RemoveEmpty(r)
  <2>1. \A s \in Runs : pc'[s] = "returned" => pc[s] = "returned"
    BY <1>1 DEF RemoveEmpty, TypeOK
  <2>2. CASE output.files = {}
    <3>1. \A s \in Runs : pc[s] # "returned"
      BY <2>2 DEF OutputIsWhole, File
    <3> QED
      BY <1>1, <2>1, <2>2, <3>1 DEF RemoveEmpty, OutputIsWhole, Absent
  <2>3. CASE output.files # {}
    BY <1>1, <2>1, <2>3 DEF RemoveEmpty, OutputIsWhole
  <2> QED
    BY <2>2, <2>3
<1>2. CASE Replace(r)
  <2>1. CASE output.files = {}
    <3>1. \A s \in Runs : pc[s] # "returned"
      BY <2>1 DEF OutputIsWhole, File
    <3>2. \A s \in Runs : pc'[s] = "returned" => s = r
      BY <1>2, <3>1 DEF Replace, TypeOK
    <3>3. temporary[r].there /\ temporary[r].owner = r /\ temporary[r].files = File
      BY <1>2 DEF Replace, TemporaryInv, Keeps
    <3> QED
      BY <1>2, <2>1, <3>2, <3>3 DEF Replace, OutputIsWhole
  <2>2. CASE output.files # {}
    <3>1. \A s \in Runs : pc'[s] = "returned" => pc[s] = "returned"
      BY <1>2, <2>2 DEF Replace, TypeOK
    <3> QED
      BY <1>2, <2>2, <3>1 DEF Replace, OutputIsWhole
  <2> QED
    BY <2>1, <2>2
<1>3. CASE /\ UNCHANGED output
           /\ \A s \in Runs : pc'[s] = "returned" => pc[s] = "returned"
  BY <1>3 DEF OutputIsWhole
<1>4. ~RemoveEmpty(r) /\ ~Replace(r) => UNCHANGED output
  BY DEF Run, Begin, RenderFails, Render, Plan, Admit, Execute, NoExecution, ReadVersion, Evaluate,
         OpenTemporary, WriteFile, NothingToRemove, WriteFails, CleanUp, Kill
<1>5. ~RemoveEmpty(r) /\ ~Replace(r) =>
        \A s \in Runs : pc'[s] = "returned" => pc[s] = "returned"
  BY DEF Run, Begin, RenderFails, Render, Plan, Admit, Execute, NoExecution, ReadVersion, Evaluate,
         OpenTemporary, WriteFile, NothingToRemove, WriteFails, CleanUp, Kill, TypeOK
<1> QED
  BY <1>1, <1>2, <1>3, <1>4, <1>5

\* A rebuilt chart disturbs nothing that a run already read.
LEMMA RebuildIInv == IInv /\ Rebuild => IInv'
<1> SUFFICES ASSUME IInv, Rebuild PROVE IInv'
  OBVIOUS
<1> USE DEF IInv
<1>1. TypeOK'
  BY MaxRebuildsAssumption DEF Rebuild, TypeOK, inputs, Ended
<1>2. DecisionInv'
  BY DEF Rebuild, DecisionInv, Knows, Decided, Frozen, Reviewed, Admitted, Rules, inputs
<1>3. TemporaryInv' /\ OutputIsWhole'
  BY DEF Rebuild, TemporaryInv, Keeps, OutputIsWhole
<1> QED
  BY <1>1, <1>2, <1>3

LEMMA NextIInv == IInv /\ [Next]_vars => IInv'
<1> SUFFICES ASSUME IInv, [Next]_vars PROVE IInv'
  OBVIOUS
<1>1. CASE \E r \in Runs : Run(r)
  BY <1>1, RunTypeOK, RunDecisionInv, RunTemporaryInv, RunOutputIsWhole DEF IInv
<1>2. CASE Rebuild
  BY <1>2, RebuildIInv
<1>3. CASE UNCHANGED vars
  BY <1>3 DEF vars, inputs, IInv, TypeOK, DecisionInv, Knows, Decided, Frozen, Reviewed,
              Admitted, Rules, TemporaryInv, Keeps, OutputIsWhole, Ended
<1> QED
  BY <1>1, <1>2, <1>3 DEF Next, Terminated

\* The inductive invariant holds in every reachable state.
THEOREM Invariance == Spec => []IInv
<1>1. Init => IInv
  BY InitIInv
<1>2. IInv /\ [Next]_vars => IInv'
  BY NextIInv
<1> QED
  BY <1>1, <1>2, PTL DEF Spec

\* Every variable keeps its type.
THEOREM TypeCorrect == Spec => []TypeOK
<1>1. IInv => TypeOK
  BY DEF IInv
<1> QED
  BY <1>1, Invariance, PTL

\* The output holds nothing or one whole bundle, and at most one run returns.
THEOREM WholeOutput == Spec => []OutputIsWhole
<1>1. IInv => OutputIsWhole
  BY DEF IInv
<1> QED
  BY <1>1, Invariance, PTL

\* What reaches a cluster was admitted, or approved as it was digested.
THEOREM AdmittedRuns == Spec => []RunsAreAdmitted
<1>1. IInv => RunsAreAdmitted
  BY DEF IInv, DecisionInv, Knows, RunsAreAdmitted, Decided, Frozen, Reviewed, Admitted
<1> QED
  BY <1>1, Invariance, PTL

\* No run that ends by itself leaves its temporary directory.
THEOREM CleanEnd == Spec => []NoLeftovers
<1>1. IInv => NoLeftovers
  BY DEF IInv, TemporaryInv, Keeps, NoLeftovers, Absent
<1> QED
  BY <1>1, Invariance, PTL

-----------------------------------------------------------------------------
\* Nobody rebuilds the chart while an approved run is on its way to helm install.
ChartHolds == (\E r \in Runs : pc[r] = "execute" /\ outcome[r] = "approved") => UNCHANGED file

\* Until an approved run installs, the path holds the chart it was approved for.
Bound(r) ==
  outcome[r] = "approved" =>
    /\ pc[r] = "execute" => request[r].approval.chart = file
    /\ installed[r] # None => installed[r] = request[r].approval.chart

\* A step of a run keeps the approval bound: Admit compares the approval's
\* chart with the one at the path, and Execute installs from the same path.
LEMMA RunBound ==
  ASSUME IInv, \A q \in Runs : Bound(q), NEW r \in Runs, Run(r), NEW s \in Runs
  PROVE  Bound(s)'
<1>0. TypeOK /\ Knows(r) /\ Bound(r) /\ Bound(s)
  BY DEF IInv, DecisionInv
<1>1. UNCHANGED file
  BY DEF Run, Begin, RenderFails, Render, Plan, Admit, Execute, NoExecution, ReadVersion, Evaluate,
         OpenTemporary, WriteFile, RemoveEmpty, NothingToRemove, Replace, WriteFails, CleanUp, Kill
<1>2. CASE s # r
  BY <1>0, <1>1, <1>2, RunFrame DEF Bound
<1> SUFFICES Bound(r)'
  BY <1>2
<1> USE DEF Goto, Refuse, inputs
<1>3. CASE Admit(r)
  <2>1. installed'[r] = None /\ request'[r] = request[r]
    BY <1>0, <1>3 DEF Admit, Knows
  <2>2. ASSUME outcome'[r] = "approved", pc'[r] = "execute"
        PROVE  request[r].approval.chart = file
    <3>1. request[r].approval # None /\ request[r].approval = Scope(r, file)
      BY <1>0, <1>3, <2>2 DEF Admit, TypeOK
    <3> QED
      BY <3>1 DEF Scope
  <2> QED
    BY <1>1, <2>1, <2>2 DEF Bound
<1>4. CASE Execute(r)
  <2>1. pc[r] = "execute" /\ pc'[r] \in {"version", "failed"} /\ UNCHANGED <<request, outcome>>
    BY <1>0, <1>4 DEF Execute, TypeOK
  <2>2. installed'[r] \in {installed[r], file}
    BY <1>0, <1>4 DEF Execute, TypeOK
  <2> QED
    BY <1>0, <2>1, <2>2 DEF Bound
<1>5. CASE UNCHANGED <<request, outcome, installed>> /\ pc'[r] # "execute"
  BY <1>0, <1>5 DEF Bound
<1>6. CASE Begin(r) \/ RenderFails(r) \/ Render(r) \/ Plan(r)
  BY <1>0, <1>5, <1>6 DEF Begin, RenderFails, Render, Plan, TypeOK
<1>7. CASE NoExecution(r) \/ ReadVersion(r) \/ Evaluate(r) \/ OpenTemporary(r) \/ WriteFile(r)
  BY <1>0, <1>5, <1>7 DEF NoExecution, ReadVersion, Evaluate, OpenTemporary, WriteFile, TypeOK
<1>8. CASE \/ RemoveEmpty(r) \/ NothingToRemove(r) \/ Replace(r) \/ WriteFails(r)
           \/ CleanUp(r) \/ Kill(r)
  BY <1>0, <1>5, <1>8 DEF RemoveEmpty, NothingToRemove, Replace, WriteFails, CleanUp, Kill, TypeOK
<1> QED
  BY <1>3, <1>4, <1>6, <1>7, <1>8 DEF Run

\* "A mismatch stops before kind starts" holds of what is installed wherever the
\* chart at the path stays what it is from the comparison with the approval to
\* helm install: the digests are read once, and nothing reads them again.
THEOREM ApprovalBindsAnUntouchedChart ==
  Spec /\ [][ChartHolds]_vars => []ApprovalBindsTheChart
<1> DEFINE AllBound == \A r \in Runs : Bound(r)
<1>1. Init => AllBound
  BY DEF Init, Bound
<1>2. IInv /\ AllBound /\ [Next]_vars /\ [ChartHolds]_vars => AllBound'
  <2> SUFFICES ASSUME IInv, AllBound, [Next]_vars, [ChartHolds]_vars PROVE AllBound'
    OBVIOUS
  <2>1. CASE UNCHANGED vars
    BY <2>1 DEF vars, inputs, Bound
  <2>2. CASE Rebuild
    <3>1. UNCHANGED <<pc, request, outcome, installed>>
      BY <2>2 DEF Rebuild, inputs
    <3>2. CASE UNCHANGED file
      BY <3>1, <3>2 DEF Bound
    <3>3. CASE ChartHolds
      BY <3>1, <3>2, <3>3 DEF Bound, ChartHolds
    <3> QED
      BY <2>1, <3>3
  <2>3. CASE \E r \in Runs : Run(r)
    BY <2>3, RunBound
  <2> QED
    BY <2>1, <2>2, <2>3 DEF Next, Terminated
<1>3. AllBound => ApprovalBindsTheChart
  BY DEF Bound, ApprovalBindsTheChart
<1> QED
  BY <1>1, <1>2, <1>3, Invariance, PTL DEF Spec
=============================================================================
