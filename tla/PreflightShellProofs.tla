------------------------- MODULE PreflightShellProofs -------------------------
(***************************************************************************)
(* What the shell preflight guarantees, for all packets, states, trees and *)
(* command lines, and any number of writes during a run.                   *)
(*                                                                         *)
(* The argument: a check that has passed said something about an input     *)
(* that is still so while nobody writes that input (Checked), the list of  *)
(* files collected on the way included; result and receipt follow from     *)
(* what has failed by the end (Ended).                                     *)
(***************************************************************************)
EXTENDS PreflightShell, TLAPS

\* Where the script is after each of its checks.
AfterSecrets == {"receipt", "done"}
AfterScope   == {"secrets"} \cup AfterSecrets
AfterTarget  == {"baseline", "scope"} \cup AfterScope
AfterSchema  == {"target"} \cup AfterTarget
AfterPacket  == {"schema"} \cup AfterSchema

\* A changed file that file_scope_check let pass: allowed by the packet and
\* not input, or the owner's own TZ.md, which no commit adds.
InScope(p) ==
  \/ Kind[p] = "TZ" /\ Untracked(p)
  \/ p \in patterns.allowed \ patterns.forbidden /\ Kind[p] \notin {"TZ", "input"}

PacketChecked ==
  pc \in AfterPacket /\ "packet" \in stable /\ "packet" \notin failures =>
    /\ Valid(packet.document, "checkpoint", TRUE, TRUE)
    /\ patterns = [allowed |-> packet.allowed, forbidden |-> packet.forbidden]

StateChecked ==
  pc \in AfterSchema /\ "state" \in stable /\ "schema" \notin failures =>
    state.audit = "passed"

TargetChecked ==
  pc \in AfterTarget /\ "git" \in stable /\ {"identity", "target"} \cap failures = {} =>
    /\ git.inside
    /\ "state" \in stable => git.branch = ExpectedBranch(opt)

ScopeChecked ==
  pc \in AfterScope /\ "tree" \in stable =>
    /\ "git" \in stable /\ git.inside => changed = Changed(opt.untracked)
    /\ "scope" \notin failures => \A p \in changed : InScope(p)

SecretsChecked ==
  pc \in AfterSecrets /\ "tree" \in stable /\ "secret" \notin failures =>
    \A p \in changed : ~Exposed(p)

Ended ==
  /\ result = "passed" => pc = "done" /\ failures = {}
  /\ pc = "done" =>
       /\ shown = "eligible" \/ result = "blocked"
       /\ shown = "eligible" /\ result = "blocked" => failures = {"receipt"} /\ saved = NONE
  /\ pc # "done" => saved = NONE
  /\ saved # NONE =>
       /\ pc = "done"
       /\ saved.eligible <=> failures = {}
       /\ saved.eligible <=> result = "passed"
       /\ saved.eligible /\ "state" \in stable => saved.audit = state.audit
       /\ "git" \in stable => saved.branch = git.branch

IInv ==
  /\ TypeOK /\ PacketChecked /\ StateChecked /\ TargetChecked
  /\ ScopeChecked /\ SecretsChecked /\ Ended

------------------------------------------------------------------------------
\* A run that has not started satisfies the invariant.
LEMMA InitIInv == Init => IInv
<1> SUFFICES ASSUME Init PROVE IInv
  OBVIOUS
<1> USE DEF AfterPacket, AfterSchema, AfterTarget, AfterScope, AfterSecrets
<1>1. TypeOK
  BY MaxWritesAssumption DEF Init, TypeOK, NoPatterns
<1>2. PacketChecked /\ StateChecked /\ TargetChecked /\ ScopeChecked /\ SecretsChecked
  BY DEF Init, PacketChecked, StateChecked, TargetChecked, ScopeChecked, SecretsChecked
<1> QED BY <1>1, <1>2 DEF IInv, Init, Ended

\* What a check finds is one of the failures.
LEMMA FailureTypes ==
  ASSUME TypeOK, NEW o
  PROVE  /\ PacketFailures(o) \subseteq Failures /\ SchemaFailures(o) \subseteq Failures
         /\ TargetFailures(o) \subseteq Failures /\ BaselineFailures \subseteq Failures
<1>1. PacketFailures(o) \subseteq Failures
  BY DEF PacketFailures, Failures
<1>2. SchemaFailures(o) \subseteq Failures
  BY DEF SchemaFailures, Failures
<1>3. TargetFailures(o) \subseteq Failures
  BY DEF TargetFailures, Failures
<1>4. BaselineFailures \subseteq Failures
  BY DEF BaselineFailures, Failures
<1> QED BY <1>1, <1>2, <1>3, <1>4

\* The types of what the four inputs say.
LEMMA InputTypes ==
  ASSUME TypeOK
  PROVE  /\ packet.allowed \subseteq Paths /\ packet.forbidden \subseteq Paths
         /\ state.audit \in {"passed", "failed", "pending"}
         /\ git.branch \in {g.branch : g \in Gits}
BY PacketsAssumption, StatesAssumption DEF TypeOK

\* As long as the files stand still, git and the scan see the same.
LEMMA TreeFrame ==
  ASSUME tree' = tree
  PROVE  /\ \A u : Changed(u)' = Changed(u)
         /\ \A p : Untracked(p)' <=> Untracked(p)
         /\ \A p : Exposed(p)' <=> Exposed(p)
BY DEF Changed, Untracked, Exposed

LEMMA ScopeFrame ==
  ASSUME tree' = tree, patterns' = patterns
  PROVE  \A p : InScope(p)' <=> InScope(p)
BY DEF InScope, Untracked

LEMMA BranchFrame ==
  ASSUME state' = state, opt' = opt
  PROVE  ExpectedBranch(opt)' = ExpectedBranch(opt)
BY DEF ExpectedBranch

\* Types are kept.
LEMMA TypeStep ==
  ASSUME IInv, [Next]_vars
  PROVE  TypeOK'
<1> USE DEF Then, Fail, inputs, IInv, TypeOK, Checks, Inputs
<1>0. CASE UNCHANGED vars
  BY <1>0 DEF vars
<1>1. CASE Start
  BY <1>1 DEF Start, Failures
<1>2. CASE TaskPacketCheck
  <2>1. PacketFailures(opt) \subseteq Failures
    BY FailureTypes DEF IInv
  <2>2. failures' = failures \cup PacketFailures(opt)
    BY <1>2 DEF TaskPacketCheck
  <2> QED BY <1>2, <2>1, <2>2, InputTypes DEF TaskPacketCheck
<1>3. CASE RuntimeSchemaCheck
  <2>1. SchemaFailures(opt) \subseteq Failures
    BY FailureTypes DEF IInv
  <2>2. failures' = failures \cup SchemaFailures(opt)
    BY <1>3 DEF RuntimeSchemaCheck
  <2> QED BY <1>3, <2>1, <2>2, InputTypes DEF RuntimeSchemaCheck
<1>4. CASE IdentityAndGitTargetCheck
  <2>1. TargetFailures(opt) \subseteq Failures
    BY FailureTypes DEF IInv
  <2>2. failures' = failures \cup TargetFailures(opt)
    BY <1>4 DEF IdentityAndGitTargetCheck
  <2> QED BY <1>4, <2>1, <2>2, InputTypes DEF IdentityAndGitTargetCheck
<1>5. CASE BaselineTrackingCheck
  <2>1. BaselineFailures \subseteq Failures
    BY FailureTypes DEF IInv
  <2>2. failures' = failures \cup BaselineFailures
    BY <1>5 DEF BaselineTrackingCheck
  <2> QED BY <1>5, <2>1, <2>2, InputTypes DEF BaselineTrackingCheck
<1>6. CASE FileScopeCheck
  <2>1. changed' \subseteq Paths
    BY <1>6 DEF FileScopeCheck, Changed
  <2>2. failures' \subseteq failures \cup {"scope"}
    BY <1>6 DEF FileScopeCheck
  <2> QED BY <1>6, <2>1, <2>2 DEF FileScopeCheck, Failures
<1>7. CASE SecretScanCheck
  <2>1. failures' \subseteq failures \cup {"docs", "secret"}
    BY <1>7 DEF SecretScanCheck
  <2> QED BY <1>7, <2>1 DEF SecretScanCheck, Failures
<1>8. ASSUME NEW written \in BOOLEAN, EmitReceipt(written) PROVE TypeOK'
  <2>1. failures' \subseteq failures \cup {"receipt"}
    BY <1>8 DEF EmitReceipt
  <2>2. saved' \in Receipts \cup {NONE}
    <3>1. [eligible |-> failures = {}, audit |-> state.audit, branch |-> git.branch,
           files |-> changed, secrets |-> "secret" \in failures] \in Receipts
      BY InputTypes DEF Receipts
    <3> QED BY <1>8, <3>1 DEF EmitReceipt
  <2> QED BY <1>8, <2>1, <2>2 DEF EmitReceipt, Failures
<1>9. CASE WritePacket
  <2>1. writes + 1 \in 0 .. MaxWrites
    BY <1>9, MaxWritesAssumption DEF WritePacket, Write
  <2> QED BY <1>9, <2>1 DEF WritePacket, Write
<1>10. CASE WriteState
  <2>1. writes + 1 \in 0 .. MaxWrites
    BY <1>10, MaxWritesAssumption DEF WriteState, Write
  <2> QED BY <1>10, <2>1 DEF WriteState, Write
<1>11. CASE WriteGit
  <2>1. writes + 1 \in 0 .. MaxWrites
    BY <1>11, MaxWritesAssumption DEF WriteGit, Write
  <2> QED BY <1>11, <2>1 DEF WriteGit, Write
<1>12. CASE WriteTree
  <2>1. writes + 1 \in 0 .. MaxWrites
    BY <1>12, MaxWritesAssumption DEF WriteTree, Write
  <2> QED BY <1>12, <2>1 DEF WriteTree, Write
<1> QED
  BY <1>0, <1>1, <1>2, <1>3, <1>4, <1>5, <1>6, <1>7, <1>8, <1>9, <1>10, <1>11, <1>12 DEF Next

\* The packet stays valid, and its patterns its own, until it is rewritten.
LEMMA PacketStep ==
  ASSUME IInv, [Next]_vars
  PROVE  PacketChecked'
<1> USE DEF Then, Fail, inputs, IInv, TypeOK, PacketChecked, AfterPacket, AfterSchema, AfterTarget, AfterScope, AfterSecrets
<1>0. CASE UNCHANGED vars
  BY <1>0 DEF vars
<1>1. CASE Start
  BY <1>1 DEF Start
<1>2. CASE TaskPacketCheck
  <2>1. "packet" \notin failures' => PacketFailures(opt) = {}
    BY <1>2 DEF TaskPacketCheck, PacketFailures
  <2> QED BY <1>2, <2>1 DEF TaskPacketCheck, PacketFailures
<1>3. CASE RuntimeSchemaCheck
  BY <1>3 DEF RuntimeSchemaCheck
<1>4. CASE IdentityAndGitTargetCheck
  BY <1>4 DEF IdentityAndGitTargetCheck
<1>5. CASE BaselineTrackingCheck
  BY <1>5 DEF BaselineTrackingCheck
<1>6. CASE FileScopeCheck
  BY <1>6 DEF FileScopeCheck
<1>7. CASE SecretScanCheck
  BY <1>7 DEF SecretScanCheck
<1>8. ASSUME NEW written \in BOOLEAN, EmitReceipt(written) PROVE PacketChecked'
  BY <1>8 DEF EmitReceipt
<1>9. CASE WritePacket
  BY <1>9 DEF WritePacket, Write
<1>10. CASE WriteState
  BY <1>10 DEF WriteState, Write
<1>11. CASE WriteGit
  BY <1>11 DEF WriteGit, Write
<1>12. CASE WriteTree
  BY <1>12 DEF WriteTree, Write
<1> QED
  BY <1>0, <1>1, <1>2, <1>3, <1>4, <1>5, <1>6, <1>7, <1>8, <1>9, <1>10, <1>11, <1>12 DEF Next

\* The audit stays passed.
LEMMA StateStep ==
  ASSUME IInv, [Next]_vars
  PROVE  StateChecked'
<1> USE DEF Then, Fail, inputs, IInv, TypeOK, StateChecked, AfterPacket, AfterSchema, AfterTarget, AfterScope, AfterSecrets
<1>0. CASE UNCHANGED vars
  BY <1>0 DEF vars
<1>1. CASE Start
  BY <1>1 DEF Start
<1>2. CASE TaskPacketCheck
  BY <1>2 DEF TaskPacketCheck
<1>3. CASE RuntimeSchemaCheck
  <2>1. "schema" \notin failures' => state.audit = "passed"
    BY <1>3 DEF RuntimeSchemaCheck, SchemaFailures
  <2> QED BY <1>3, <2>1 DEF RuntimeSchemaCheck
<1>4. CASE IdentityAndGitTargetCheck
  BY <1>4 DEF IdentityAndGitTargetCheck
<1>5. CASE BaselineTrackingCheck
  BY <1>5 DEF BaselineTrackingCheck
<1>6. CASE FileScopeCheck
  BY <1>6 DEF FileScopeCheck
<1>7. CASE SecretScanCheck
  BY <1>7 DEF SecretScanCheck
<1>8. ASSUME NEW written \in BOOLEAN, EmitReceipt(written) PROVE StateChecked'
  BY <1>8 DEF EmitReceipt
<1>9. CASE WritePacket
  BY <1>9 DEF WritePacket, Write
<1>10. CASE WriteState
  BY <1>10 DEF WriteState, Write
<1>11. CASE WriteGit
  BY <1>11 DEF WriteGit, Write
<1>12. CASE WriteTree
  BY <1>12 DEF WriteTree, Write
<1> QED
  BY <1>0, <1>1, <1>2, <1>3, <1>4, <1>5, <1>6, <1>7, <1>8, <1>9, <1>10, <1>11, <1>12 DEF Next

\* The repository stays the expected one.
LEMMA TargetStep ==
  ASSUME IInv, [Next]_vars
  PROVE  TargetChecked'
<1> USE DEF Then, Fail, inputs, IInv, TypeOK, TargetChecked, AfterPacket, AfterSchema, AfterTarget, AfterScope, AfterSecrets
<1>0. CASE UNCHANGED vars
  BY <1>0, BranchFrame DEF vars
<1>1. CASE Start
  BY <1>1, BranchFrame DEF Start
<1>2. CASE TaskPacketCheck
  BY <1>2, BranchFrame DEF TaskPacketCheck
<1>3. CASE RuntimeSchemaCheck
  BY <1>3, BranchFrame DEF RuntimeSchemaCheck
<1>4. CASE IdentityAndGitTargetCheck
  <2>1. {"identity", "target"} \cap failures' = {} => git.inside /\ git.branch = ExpectedBranch(opt)
    BY <1>4 DEF IdentityAndGitTargetCheck, TargetFailures
  <2> QED BY <1>4, <2>1, BranchFrame DEF IdentityAndGitTargetCheck
<1>5. CASE BaselineTrackingCheck
  BY <1>5, BranchFrame DEF BaselineTrackingCheck
<1>6. CASE FileScopeCheck
  BY <1>6, BranchFrame DEF FileScopeCheck
<1>7. CASE SecretScanCheck
  BY <1>7, BranchFrame DEF SecretScanCheck
<1>8. ASSUME NEW written \in BOOLEAN, EmitReceipt(written) PROVE TargetChecked'
  BY <1>8, BranchFrame DEF EmitReceipt
<1>9. CASE WritePacket
  BY <1>9, BranchFrame DEF WritePacket, Write
<1>10. CASE WriteState
  BY <1>10, BranchFrame DEF WriteState, Write
<1>11. CASE WriteGit
  BY <1>11, BranchFrame DEF WriteGit, Write
<1>12. CASE WriteTree
  BY <1>12, BranchFrame DEF WriteTree, Write
<1> QED
  BY <1>0, <1>1, <1>2, <1>3, <1>4, <1>5, <1>6, <1>7, <1>8, <1>9, <1>10, <1>11, <1>12 DEF Next

\* The changed files stay the changed ones, and in scope.
LEMMA ScopeStep ==
  ASSUME IInv, [Next]_vars
  PROVE  ScopeChecked'
<1> USE DEF Then, Fail, inputs, IInv, TypeOK, ScopeChecked, AfterPacket, AfterSchema, AfterTarget, AfterScope, AfterSecrets
<1>0. CASE UNCHANGED vars
  BY <1>0, TreeFrame, ScopeFrame DEF vars
<1>1. CASE Start
  BY <1>1 DEF Start
<1>2. CASE TaskPacketCheck
  BY <1>2 DEF TaskPacketCheck
<1>3. CASE RuntimeSchemaCheck
  BY <1>3 DEF RuntimeSchemaCheck
<1>4. CASE IdentityAndGitTargetCheck
  BY <1>4 DEF IdentityAndGitTargetCheck
<1>5. CASE BaselineTrackingCheck
  BY <1>5 DEF BaselineTrackingCheck
<1>6. CASE FileScopeCheck
  <2>1. changed' = Changed(opt.untracked) \/ ~git.inside
    BY <1>6 DEF FileScopeCheck
  <2>2. ASSUME "scope" \notin failures', NEW p \in changed' PROVE InScope(p)
    <3>1. ~OutOfScope(p, opt)
      BY <1>6, <2>2 DEF FileScopeCheck
    <3> QED BY <3>1 DEF OutOfScope, InScope
  <2> QED BY <1>6, <2>1, <2>2, TreeFrame, ScopeFrame DEF FileScopeCheck
<1>7. CASE SecretScanCheck
  BY <1>7, TreeFrame, ScopeFrame DEF SecretScanCheck
<1>8. ASSUME NEW written \in BOOLEAN, EmitReceipt(written) PROVE ScopeChecked'
  BY <1>8, TreeFrame, ScopeFrame DEF EmitReceipt
<1>9. CASE WritePacket
  BY <1>9, TreeFrame, ScopeFrame DEF WritePacket, Write
<1>10. CASE WriteState
  BY <1>10, TreeFrame, ScopeFrame DEF WriteState, Write
<1>11. CASE WriteGit
  BY <1>11, TreeFrame, ScopeFrame DEF WriteGit, Write
<1>12. CASE WriteTree
  BY <1>12, TreeFrame, ScopeFrame DEF WriteTree, Write
<1> QED
  BY <1>0, <1>1, <1>2, <1>3, <1>4, <1>5, <1>6, <1>7, <1>8, <1>9, <1>10, <1>11, <1>12 DEF Next

\* What was clean stays clean.
LEMMA SecretsStep ==
  ASSUME IInv, [Next]_vars
  PROVE  SecretsChecked'
<1> USE DEF Then, Fail, inputs, IInv, TypeOK, SecretsChecked, AfterPacket, AfterSchema, AfterTarget, AfterScope, AfterSecrets
<1>0. CASE UNCHANGED vars
  BY <1>0, TreeFrame DEF vars
<1>1. CASE Start
  BY <1>1 DEF Start
<1>2. CASE TaskPacketCheck
  BY <1>2 DEF TaskPacketCheck
<1>3. CASE RuntimeSchemaCheck
  BY <1>3 DEF RuntimeSchemaCheck
<1>4. CASE IdentityAndGitTargetCheck
  BY <1>4 DEF IdentityAndGitTargetCheck
<1>5. CASE BaselineTrackingCheck
  BY <1>5 DEF BaselineTrackingCheck
<1>6. CASE FileScopeCheck
  BY <1>6 DEF FileScopeCheck
<1>7. CASE SecretScanCheck
  <2>1. "secret" \notin failures' => \A p \in changed : ~Exposed(p)
    BY <1>7 DEF SecretScanCheck
  <2> QED BY <1>7, <2>1, TreeFrame DEF SecretScanCheck
<1>8. ASSUME NEW written \in BOOLEAN, EmitReceipt(written) PROVE SecretsChecked'
  BY <1>8, TreeFrame DEF EmitReceipt
<1>9. CASE WritePacket
  BY <1>9, TreeFrame DEF WritePacket, Write
<1>10. CASE WriteState
  BY <1>10, TreeFrame DEF WriteState, Write
<1>11. CASE WriteGit
  BY <1>11, TreeFrame DEF WriteGit, Write
<1>12. CASE WriteTree
  BY <1>12, TreeFrame DEF WriteTree, Write
<1> QED
  BY <1>0, <1>1, <1>2, <1>3, <1>4, <1>5, <1>6, <1>7, <1>8, <1>9, <1>10, <1>11, <1>12 DEF Next

\* The receipt follows from the failures.
LEMMA EndStep ==
  ASSUME IInv, [Next]_vars
  PROVE  Ended'
<1> USE DEF Then, Fail, inputs, IInv, TypeOK, Ended
<1>0. CASE UNCHANGED vars
  BY <1>0 DEF vars
<1>1. CASE Start
  BY <1>1 DEF Start
<1>2. CASE TaskPacketCheck
  BY <1>2 DEF TaskPacketCheck
<1>3. CASE RuntimeSchemaCheck
  BY <1>3 DEF RuntimeSchemaCheck
<1>4. CASE IdentityAndGitTargetCheck
  BY <1>4 DEF IdentityAndGitTargetCheck
<1>5. CASE BaselineTrackingCheck
  BY <1>5 DEF BaselineTrackingCheck
<1>6. CASE FileScopeCheck
  BY <1>6 DEF FileScopeCheck
<1>7. CASE SecretScanCheck
  BY <1>7 DEF SecretScanCheck
<1>8. ASSUME NEW written \in BOOLEAN, EmitReceipt(written) PROVE Ended'
  BY <1>8 DEF EmitReceipt
<1>9. CASE WritePacket
  BY <1>9 DEF WritePacket, Write
<1>10. CASE WriteState
  BY <1>10 DEF WriteState, Write
<1>11. CASE WriteGit
  BY <1>11 DEF WriteGit, Write
<1>12. CASE WriteTree
  BY <1>12 DEF WriteTree, Write
<1> QED
  BY <1>0, <1>1, <1>2, <1>3, <1>4, <1>5, <1>6, <1>7, <1>8, <1>9, <1>10, <1>11, <1>12 DEF Next

------------------------------------------------------------------------------
\* The invariant holds in every reachable state.
LEMMA Inductive == Spec => []IInv
<1>1. IInv /\ [Next]_vars => IInv'
  BY TypeStep, PacketStep, StateStep, TargetStep, ScopeStep, SecretsStep, EndStep DEF IInv
<1> QED BY <1>1, InitIInv, PTL DEF Spec

\* Inputs, failures and receipt have the types the model gives them.
THEOREM TypesAreKept == Spec => []TypeOK
<1>1. IInv => TypeOK
  BY DEF IInv
<1> QED BY <1>1, Inductive, PTL

\* What a run said last is true of every check.
LEMMA PassedMeansChecked ==
  ASSUME IInv, result = "passed"
  PROVE  pc = "done" /\ failures = {}
BY DEF IInv, Ended

\* After a pass, what a commit of the index adds is what the packet allows,
\* input is not part of it, and in the worktree nothing of it has a sensitive
\* name or a secret that the scan can see.
THEOREM PassedFilesAreBounded == Spec => []PassedFilesAreInBounds
<1>1. IInv => PassedFilesAreInBounds
  <2> SUFFICES ASSUME IInv, result = "passed", {"packet", "git", "tree"} \subseteq stable,
                      NEW p \in Paths, tree[p].index # tree[p].head, tree[p].index # "none"
               PROVE  /\ p \in packet.allowed \ packet.forbidden
                      /\ Kind[p] \notin {"TZ", "input"}
                      /\ p \in Sensitive => tree[p].work = "none"
                      /\ tree[p].work # "secret"
    BY DEF PassedFilesAreInBounds
  <2> USE DEF AfterPacket, AfterSchema, AfterTarget, AfterScope, AfterSecrets
  <2>1. pc = "done" /\ failures = {}
    BY PassedMeansChecked
  <2>2. patterns.allowed = packet.allowed /\ patterns.forbidden = packet.forbidden
    BY <2>1 DEF IInv, PacketChecked
  <2>3. p \in changed
    <3>1. git.inside
      BY <2>1 DEF IInv, TargetChecked
    <3>2. changed = Changed(opt.untracked)
      BY <2>1, <3>1 DEF IInv, ScopeChecked
    <3> QED BY <3>2 DEF Changed
  <2>4. InScope(p)
    BY <2>1, <2>3 DEF IInv, ScopeChecked
  <2>5. ~Exposed(p)
    BY <2>1, <2>3 DEF IInv, SecretsChecked
  <2>6. /\ p \in Sensitive => tree[p].work = "none"
        /\ tree[p].work # "secret"
    BY <2>5 DEF Exposed
  <2> QED BY <2>2, <2>4, <2>6 DEF InScope, Untracked
<1> QED BY <1>1, Inductive, PTL

\* A saved receipt that says eligible is about an audit that has passed and
\* about the expected branch.
THEOREM ReceiptsMatch == Spec => []EligibleReceiptMatchesState
<1>1. IInv => EligibleReceiptMatchesState
  <2> SUFFICES ASSUME IInv, saved # NONE, saved.eligible, {"state", "git"} \subseteq stable
               PROVE  saved.audit = "passed" /\ saved.branch = ExpectedBranch(opt)
    BY DEF EligibleReceiptMatchesState
  <2> USE DEF AfterPacket, AfterSchema, AfterTarget, AfterScope, AfterSecrets
  <2>1. /\ pc = "done" /\ failures = {}
        /\ saved.audit = state.audit /\ saved.branch = git.branch
    BY DEF IInv, Ended
  <2>2. state.audit = "passed"
    BY <2>1 DEF IInv, StateChecked
  <2>3. git.branch = ExpectedBranch(opt)
    BY <2>1 DEF IInv, TargetChecked
  <2> QED BY <2>1, <2>2, <2>3
<1> QED BY <1>1, Inductive, PTL

\* A saved receipt and the result never differ, and a printed one differs only
\* if it could not be saved where it was asked to.
THEOREM VerdictsAreTheResult == Spec => []SavedVerdictIsTheResult
<1>1. IInv => SavedVerdictIsTheResult
  BY DEF IInv, Ended, SavedVerdictIsTheResult
<1> QED BY <1>1, Inductive, PTL

\* A checkpoint asks no less of an active packet than its dispatch did.
THEOREM PassedPacketsAreDispatchable == Spec => []PassedPacketCouldBeDispatched
<1>1. IInv => PassedPacketCouldBeDispatched
  <2> SUFFICES ASSUME IInv, result = "passed", "packet" \in stable,
                      packet.document.packet, packet.document.status = "active"
               PROVE  Valid(packet.document, "dispatch", TRUE, TRUE)
    BY DEF PassedPacketCouldBeDispatched
  <2>1. Valid(packet.document, "checkpoint", TRUE, TRUE)
    BY PassedMeansChecked
    DEF IInv, PacketChecked, AfterPacket, AfterSchema, AfterTarget, AfterScope, AfterSecrets
  <2> QED BY <2>1 DEF Valid, ValidatePacket
<1> QED BY <1>1, Inductive, PTL
==============================================================================
