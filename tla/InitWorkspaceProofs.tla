------------------------- MODULE InitWorkspaceProofs -------------------------
(***************************************************************************)
(* What the initialisation script guarantees for every number of runs,     *)
(* every set of command lines and any number of changes of the repository. *)
(*                                                                         *)
(* The argument.  A run that found the repository in order still finds it  *)
(* so until it changes (StillInv).  As long as no copy is nested, only one *)
(* run has come past cp, and identity and lock are missing or as far as    *)
(* that run has got (OwnInv).  Whatever one run leaves that makes another  *)
(* refuse, somebody stands behind it (WitnessInv).                         *)
(***************************************************************************)
EXTENDS InitWorkspace, TLAPS

\* Where a run is that has started to copy, in the script's order.
WithLock     == {"write_lock", "succeeded"}
PastIdentity == {"recheck_lock", "open_lock"} \cup WithLock
PastPrune    == {"check_identity", "open_identity", "write_identity"} \cup PastIdentity
PastCopy     == {"prune"} \cup PastPrune
Past         == {"copying"} \cup PastCopy

\* Where it has compared the repository with what it expects.
Judged == {"check_lock", "mkdir", "check_copy", "copy"} \cup Past

\* The repository is the target's own and has the expected origin.
Expected(o) == Canonical(o, git.remote) = Canonical(o, o.remote)

SeenInv ==
  \A r \in Runs :
    /\ pc[r] \in {"remote", "branch"} => seen[r].top = "own"
    /\ pc[r] \in {"decide"} \cup Judged => seen[r].top # "ancestor"

StillInv ==
  \A r \in still :
    /\ pc[r] \in {"remote", "branch"} => git.top = "own"
    /\ pc[r] = "branch" => Expected(opt[r])
    /\ pc[r] \in {"decide"} \cup Judged =>
         /\ seen[r].top = git.top
         /\ git.top = "own" => Expected(opt[r]) /\ git.branch = opt[r].branch
    /\ pc[r] \in Judged => (opt[r].accept => git.top = "own")

LockInv ==
  lock \in Documents =>
    pc[lock.by] = "succeeded" /\ lock.accepted = opt[lock.by].accept

\* How far the run r has got that made agent-system.
Progress(r) ==
  /\ pc[r] \in Past \cup {"killed"}
  /\ pc[r] \in {"copying", "prune", "check_identity", "open_identity"} => identity = Missing
  /\ pc[r] \in Past \ WithLock => lock = Missing
  /\ pc[r] \in PastCopy => agent.top = "full"
  /\ pc[r] \in PastPrune => agent.git = {}
  /\ pc[r] \in PastIdentity => identity = Document(r)
  /\ pc[r] = "write_lock" => lock = Empty
  /\ pc[r] = "succeeded" => lock = Document(r)
  /\ pc[r] = "killed" => lock \notin Documents
  /\ identity \in Documents => identity.by = r

OwnInv ==
  ~Raced =>
    /\ \A r \in Runs : pc[r] \in Past => agent.by = r
    /\ \A r \in Runs : agent.by = r => Progress(r) /\ agent.top # "absent"
    /\ agent.by = NONE => identity = Missing /\ lock = Missing

\* Behind every leftover there is a run that got far enough to leave it.
WitnessInv ==
  /\ agent.top # "absent" =>
       \/ agent.by = NONE /\ agent.top = "full"
       \/ \E r \in Runs : pc[r] \in Past \cup {"killed"}
  /\ identity # Missing =>
       \E r \in Runs : pc[r] \in {"write_identity", "killed"} \cup PastIdentity
  /\ lock # Missing => \E r \in Runs : pc[r] \in {"killed"} \cup WithLock

\* In a repository that stands still, a run that should be welcome is only
\* refused because of what another one left.
RefusalInv ==
  changes = 0 =>
    \A r \in Runs :
      /\ pc[r] # "new" => r \in still
      /\ pc[r] = "refused" /\ Welcome(opt[r]) =>
           agent.top # "absent" \/ identity # Missing \/ lock # Missing

IInv ==
  /\ TypeOK /\ SeenInv /\ StillInv /\ LockInv
  /\ OwnInv /\ WitnessInv /\ RefusalInv

------------------------------------------------------------------------------
\* The states of a file are told apart.
LEMMA FileStates ==
  /\ Missing # Empty /\ Missing \notin Documents /\ Empty \notin Documents
  /\ NONE \notin Runs
BY NoneAssumption DEF Missing, Empty, Documents

\* What a run writes, once it has found no repository but the target's own.
LEMMA DocumentType ==
  ASSUME TypeOK, SeenInv, NEW r \in Runs, pc[r] \in Judged
  PROVE  /\ Document(r) \in Documents
         /\ Document(r).by = r
         /\ Document(r).accepted = opt[r].accept
<1>1. opt[r] \in CommandLines
  BY OptionsAssumption DEF TypeOK
<1>2. opt[r].accept \in BOOLEAN /\ (opt[r].accept /\ opt[r].push) \in BOOLEAN
  BY <1>1 DEF CommandLines
<1>3. seen[r].top \in {"none", "own"}
  BY DEF TypeOK, SeenInv
<1>4. seen[r].remote \in Remotes \cup {NONE} /\ seen[r].branch \in Branches \cup {NONE}
  BY DEF TypeOK
<1> QED BY <1>2, <1>3, <1>4 DEF Document, Documents

\* What git says of a worktree.
LEMMA GitType ==
  ASSUME NEW g \in Gits
  PROVE  /\ g.top \in {"none", "own", "ancestor"}
         /\ g.remote \in Remotes \cup {NONE} /\ g.branch \in Branches \cup {NONE}
         /\ g.top \notin {"own", "ancestor"} => g.remote = NONE /\ g.branch = NONE
BY DEF Gits

\* The first states satisfy the invariant.
LEMMA InitIInv == Init => IInv
<1> SUFFICES ASSUME Init PROVE IInv
  OBVIOUS
<1>1. TypeOK
  BY BoundAssumption DEF Init, TypeOK, Blank, Locations, Missing
<1>2. SeenInv /\ StillInv
  BY DEF Init, SeenInv, StillInv, Judged, Past, PastCopy, PastPrune, PastIdentity, WithLock
<1>3. LockInv
  BY FileStates DEF Init, LockInv
<1>4. OwnInv
  BY FileStates DEF Init, OwnInv, Past, PastCopy, PastPrune, PastIdentity, WithLock
<1>5. WitnessInv
  BY DEF Init, WitnessInv
<1>6. RefusalInv
  BY DEF Init, RefusalInv
<1> QED BY <1>1, <1>2, <1>3, <1>4, <1>5, <1>6 DEF IInv

\* Types are kept.
LEMMA TypeStep ==
  ASSUME IInv, [Next]_vars
  PROVE  TypeOK'
<1> USE DEF Go, Refuse, disk, environment, IInv, TypeOK, Locations, Ended
<1>0. CASE UNCHANGED vars
  BY <1>0 DEF vars
<1>1. ASSUME NEW r \in Runs, Start(r) PROVE TypeOK'
  BY <1>1 DEF Start
<1>2. ASSUME NEW r \in Runs, ReadToplevel(r) PROVE TypeOK'
  <2>1. /\ git.top \in {"none", "own", "ancestor"} /\ git.remote \in Remotes \cup {NONE}
        /\ git.branch \in Branches \cup {NONE}
    BY GitType
  <2>2. seen' \in [Runs -> [top : {"none", "own", "ancestor"},
                     remote : Remotes \cup {NONE}, branch : Branches \cup {NONE}]]
    BY <1>2, <2>1 DEF ReadToplevel
  <2> QED BY <1>2, <2>2 DEF ReadToplevel
<1>3. ASSUME NEW r \in Runs, ReadRemote(r) PROVE TypeOK'
  <2>1. /\ git.top \in {"none", "own", "ancestor"} /\ git.remote \in Remotes \cup {NONE}
        /\ git.branch \in Branches \cup {NONE}
    BY GitType
  <2>2. seen' \in [Runs -> [top : {"none", "own", "ancestor"},
                     remote : Remotes \cup {NONE}, branch : Branches \cup {NONE}]]
    BY <1>3, <2>1 DEF ReadRemote
  <2> QED BY <1>3, <2>2 DEF ReadRemote
<1>4. ASSUME NEW r \in Runs, ReadBranch(r) PROVE TypeOK'
  <2>1. /\ git.top \in {"none", "own", "ancestor"} /\ git.remote \in Remotes \cup {NONE}
        /\ git.branch \in Branches \cup {NONE}
    BY GitType
  <2>2. seen' \in [Runs -> [top : {"none", "own", "ancestor"},
                     remote : Remotes \cup {NONE}, branch : Branches \cup {NONE}]]
    BY <1>4, <2>1 DEF ReadBranch
  <2> QED BY <1>4, <2>2 DEF ReadBranch
<1>5. ASSUME NEW r \in Runs, Decide(r) PROVE TypeOK'
  BY <1>5 DEF Decide
<1>6. ASSUME NEW r \in Runs, CheckLock(r) PROVE TypeOK'
  BY <1>6 DEF CheckLock
<1>7. ASSUME NEW r \in Runs, MakeDirectories(r) PROVE TypeOK'
  BY <1>7 DEF MakeDirectories
<1>8. ASSUME NEW r \in Runs, CheckCopy(r) PROVE TypeOK'
  BY <1>8 DEF CheckCopy
<1>9. ASSUME NEW r \in Runs, StartCopy(r) PROVE TypeOK'
  BY <1>9 DEF StartCopy
<1>10. ASSUME NEW r \in Runs, FinishCopy(r) PROVE TypeOK'
  BY <1>10 DEF FinishCopy
<1>11. ASSUME NEW r \in Runs, PruneGit(r) PROVE TypeOK'
  BY <1>11 DEF PruneGit
<1>12. ASSUME NEW r \in Runs, CheckIdentity(r) PROVE TypeOK'
  BY <1>12 DEF CheckIdentity
<1>13. ASSUME NEW r \in Runs, OpenIdentity(r) PROVE TypeOK'
  BY <1>13 DEF OpenIdentity
<1>14. ASSUME NEW r \in Runs, WriteIdentity(r) PROVE TypeOK'
  <2>1. pc[r] \in Judged
    BY <1>14 DEF WriteIdentity, Judged, Past, PastCopy, PastPrune, PastIdentity, WithLock
  <2>2. Document(r) \in Documents
    BY <2>1, DocumentType
  <2> QED BY <1>14, <2>2 DEF WriteIdentity
<1>15. ASSUME NEW r \in Runs, RecheckLock(r) PROVE TypeOK'
  BY <1>15 DEF RecheckLock
<1>16. ASSUME NEW r \in Runs, OpenLock(r) PROVE TypeOK'
  BY <1>16 DEF OpenLock
<1>17. ASSUME NEW r \in Runs, WriteLock(r) PROVE TypeOK'
  <2>1. pc[r] \in Judged
    BY <1>17 DEF WriteLock, Judged, Past, PastCopy, PastPrune, PastIdentity, WithLock
  <2>2. Document(r) \in Documents
    BY <2>1, DocumentType
  <2> QED BY <1>17, <2>2 DEF WriteLock
<1>18. ASSUME NEW r \in Runs, Kill(r) PROVE TypeOK'
  BY <1>18 DEF Kill
<1>19. ASSUME NEW g \in Gits, ChangeGit(g) PROVE TypeOK'
  <2>1. changes + 1 \in 0 .. MaxChanges
    BY <1>19, BoundAssumption DEF ChangeGit
  <2> QED BY <1>19, <2>1 DEF ChangeGit
<1> QED
  BY <1>0, <1>1, <1>2, <1>3, <1>4, <1>5, <1>6, <1>7, <1>8, <1>9, <1>10, <1>11, <1>12, <1>13, <1>14, <1>15, <1>16, <1>17, <1>18, <1>19 DEF Next, Step

\* What a run has seen stays seen.
LEMMA SeenStep ==
  ASSUME IInv, [Next]_vars
  PROVE  SeenInv'
<1> USE DEF Go, Refuse, disk, environment, IInv, TypeOK, SeenInv, Judged, Past, PastCopy, PastPrune, PastIdentity, WithLock
<1>0. CASE UNCHANGED vars
  BY <1>0 DEF vars
<1>1. ASSUME NEW r \in Runs, Start(r) PROVE SeenInv'
  BY <1>1 DEF Start
<1>2. ASSUME NEW r \in Runs, ReadToplevel(r) PROVE SeenInv'
  <2>1. seen'[r].top = git.top /\ \A q \in Runs : q # r => seen'[q] = seen[q]
    BY <1>2 DEF ReadToplevel
  <2> QED BY <1>2, <2>1, GitType DEF ReadToplevel
<1>3. ASSUME NEW r \in Runs, ReadRemote(r) PROVE SeenInv'
  BY <1>3 DEF ReadRemote
<1>4. ASSUME NEW r \in Runs, ReadBranch(r) PROVE SeenInv'
  BY <1>4 DEF ReadBranch
<1>5. ASSUME NEW r \in Runs, Decide(r) PROVE SeenInv'
  BY <1>5 DEF Decide
<1>6. ASSUME NEW r \in Runs, CheckLock(r) PROVE SeenInv'
  BY <1>6 DEF CheckLock
<1>7. ASSUME NEW r \in Runs, MakeDirectories(r) PROVE SeenInv'
  BY <1>7 DEF MakeDirectories
<1>8. ASSUME NEW r \in Runs, CheckCopy(r) PROVE SeenInv'
  BY <1>8 DEF CheckCopy
<1>9. ASSUME NEW r \in Runs, StartCopy(r) PROVE SeenInv'
  BY <1>9 DEF StartCopy
<1>10. ASSUME NEW r \in Runs, FinishCopy(r) PROVE SeenInv'
  BY <1>10 DEF FinishCopy
<1>11. ASSUME NEW r \in Runs, PruneGit(r) PROVE SeenInv'
  BY <1>11 DEF PruneGit
<1>12. ASSUME NEW r \in Runs, CheckIdentity(r) PROVE SeenInv'
  BY <1>12 DEF CheckIdentity
<1>13. ASSUME NEW r \in Runs, OpenIdentity(r) PROVE SeenInv'
  BY <1>13 DEF OpenIdentity
<1>14. ASSUME NEW r \in Runs, WriteIdentity(r) PROVE SeenInv'
  BY <1>14 DEF WriteIdentity
<1>15. ASSUME NEW r \in Runs, RecheckLock(r) PROVE SeenInv'
  BY <1>15 DEF RecheckLock
<1>16. ASSUME NEW r \in Runs, OpenLock(r) PROVE SeenInv'
  BY <1>16 DEF OpenLock
<1>17. ASSUME NEW r \in Runs, WriteLock(r) PROVE SeenInv'
  BY <1>17 DEF WriteLock
<1>18. ASSUME NEW r \in Runs, Kill(r) PROVE SeenInv'
  BY <1>18 DEF Kill
<1>19. ASSUME NEW g \in Gits, ChangeGit(g) PROVE SeenInv'
  BY <1>19 DEF ChangeGit
<1> QED
  BY <1>0, <1>1, <1>2, <1>3, <1>4, <1>5, <1>6, <1>7, <1>8, <1>9, <1>10, <1>11, <1>12, <1>13, <1>14, <1>15, <1>16, <1>17, <1>18, <1>19 DEF Next, Step

\* What a run found in order stays in order until the repository changes.
LEMMA StillStep ==
  ASSUME IInv, [Next]_vars
  PROVE  StillInv'
<1> USE DEF Go, Refuse, disk, environment, IInv, TypeOK, StillInv, Expected, Judged, Past, PastCopy, PastPrune, PastIdentity, WithLock
<1>0. CASE UNCHANGED vars
  BY <1>0 DEF vars
<1>1. ASSUME NEW r \in Runs, Start(r) PROVE StillInv'
  BY <1>1 DEF Start
<1>2. ASSUME NEW r \in Runs, ReadToplevel(r) PROVE StillInv'
  <2>1. seen'[r].top = git.top /\ \A q \in Runs : q # r => seen'[q] = seen[q]
    BY <1>2 DEF ReadToplevel
  <2> QED BY <1>2, <2>1, GitType DEF ReadToplevel
<1>3. ASSUME NEW r \in Runs, ReadRemote(r) PROVE StillInv'
  BY <1>3 DEF ReadRemote
<1>4. ASSUME NEW r \in Runs, ReadBranch(r) PROVE StillInv'
  <2>1. seen'[r].top = seen[r].top /\ \A q \in Runs : q # r => seen'[q] = seen[q]
    BY <1>4 DEF ReadBranch
  <2> QED BY <1>4, <2>1 DEF ReadBranch, SeenInv
<1>5. ASSUME NEW r \in Runs, Decide(r) PROVE StillInv'
  BY <1>5 DEF Decide
<1>6. ASSUME NEW r \in Runs, CheckLock(r) PROVE StillInv'
  BY <1>6 DEF CheckLock
<1>7. ASSUME NEW r \in Runs, MakeDirectories(r) PROVE StillInv'
  BY <1>7 DEF MakeDirectories
<1>8. ASSUME NEW r \in Runs, CheckCopy(r) PROVE StillInv'
  BY <1>8 DEF CheckCopy
<1>9. ASSUME NEW r \in Runs, StartCopy(r) PROVE StillInv'
  BY <1>9 DEF StartCopy
<1>10. ASSUME NEW r \in Runs, FinishCopy(r) PROVE StillInv'
  BY <1>10 DEF FinishCopy
<1>11. ASSUME NEW r \in Runs, PruneGit(r) PROVE StillInv'
  BY <1>11 DEF PruneGit
<1>12. ASSUME NEW r \in Runs, CheckIdentity(r) PROVE StillInv'
  BY <1>12 DEF CheckIdentity
<1>13. ASSUME NEW r \in Runs, OpenIdentity(r) PROVE StillInv'
  BY <1>13 DEF OpenIdentity
<1>14. ASSUME NEW r \in Runs, WriteIdentity(r) PROVE StillInv'
  BY <1>14 DEF WriteIdentity
<1>15. ASSUME NEW r \in Runs, RecheckLock(r) PROVE StillInv'
  BY <1>15 DEF RecheckLock
<1>16. ASSUME NEW r \in Runs, OpenLock(r) PROVE StillInv'
  BY <1>16 DEF OpenLock
<1>17. ASSUME NEW r \in Runs, WriteLock(r) PROVE StillInv'
  BY <1>17 DEF WriteLock
<1>18. ASSUME NEW r \in Runs, Kill(r) PROVE StillInv'
  BY <1>18 DEF Kill
<1>19. ASSUME NEW g \in Gits, ChangeGit(g) PROVE StillInv'
  BY <1>19 DEF ChangeGit
<1> QED
  BY <1>0, <1>1, <1>2, <1>3, <1>4, <1>5, <1>6, <1>7, <1>8, <1>9, <1>10, <1>11, <1>12, <1>13, <1>14, <1>15, <1>16, <1>17, <1>18, <1>19 DEF Next, Step

\* A run on its way to success has not written the lock that is there.
LEMMA LockFrame ==
  ASSUME IInv, NEW r \in Runs, pc[r] # "succeeded", NEW place,
         pc' = [pc EXCEPT ![r] = place], UNCHANGED <<opt, lock>>
  PROVE  LockInv'
<1>1. lock \in Documents => lock.by \in Runs /\ lock.by # r
  BY DEF IInv, LockInv, Documents
<1> QED BY <1>1 DEF IInv, TypeOK, LockInv

\* A written lock is that of a run that has succeeded.
LEMMA LockStep ==
  ASSUME IInv, [Next]_vars
  PROVE  LockInv'
<1> USE DEF Go, Refuse, disk, environment, Ended
<1>0. CASE UNCHANGED vars
  BY <1>0 DEF vars, IInv, LockInv
<1>1. ASSUME NEW r \in Runs, Start(r) PROVE LockInv'
  <2>1. PICK place : pc' = [pc EXCEPT ![r] = place]
    BY <1>1 DEF Start
  <2> QED BY <1>1, <2>1, LockFrame DEF Start
<1>2. ASSUME NEW r \in Runs, ReadToplevel(r) PROVE LockInv'
  BY <1>2, LockFrame DEF ReadToplevel
<1>3. ASSUME NEW r \in Runs, ReadRemote(r) PROVE LockInv'
  <2>1. PICK place : pc' = [pc EXCEPT ![r] = place]
    BY <1>3 DEF ReadRemote
  <2> QED BY <1>3, <2>1, LockFrame DEF ReadRemote
<1>4. ASSUME NEW r \in Runs, ReadBranch(r) PROVE LockInv'
  <2>1. PICK place : pc' = [pc EXCEPT ![r] = place]
    BY <1>4 DEF ReadBranch
  <2> QED BY <1>4, <2>1, LockFrame DEF ReadBranch
<1>5. ASSUME NEW r \in Runs, Decide(r) PROVE LockInv'
  <2>1. PICK place : pc' = [pc EXCEPT ![r] = place]
    BY <1>5 DEF Decide
  <2> QED BY <1>5, <2>1, LockFrame DEF Decide
<1>6. ASSUME NEW r \in Runs, CheckLock(r) PROVE LockInv'
  <2>1. PICK place : pc' = [pc EXCEPT ![r] = place]
    BY <1>6 DEF CheckLock
  <2> QED BY <1>6, <2>1, LockFrame DEF CheckLock
<1>7. ASSUME NEW r \in Runs, MakeDirectories(r) PROVE LockInv'
  BY <1>7, LockFrame DEF MakeDirectories
<1>8. ASSUME NEW r \in Runs, CheckCopy(r) PROVE LockInv'
  <2>1. PICK place : pc' = [pc EXCEPT ![r] = place]
    BY <1>8 DEF CheckCopy
  <2> QED BY <1>8, <2>1, LockFrame DEF CheckCopy
<1>9. ASSUME NEW r \in Runs, StartCopy(r) PROVE LockInv'
  <2>1. PICK place \in {"copying", "refused"} : pc' = [pc EXCEPT ![r] = place]
    BY <1>9 DEF StartCopy
  <2> QED BY <1>9, <2>1, LockFrame DEF StartCopy
<1>10. ASSUME NEW r \in Runs, FinishCopy(r) PROVE LockInv'
  BY <1>10, LockFrame DEF FinishCopy
<1>11. ASSUME NEW r \in Runs, PruneGit(r) PROVE LockInv'
  BY <1>11, LockFrame DEF PruneGit
<1>12. ASSUME NEW r \in Runs, CheckIdentity(r) PROVE LockInv'
  <2>1. PICK place : pc' = [pc EXCEPT ![r] = place]
    BY <1>12 DEF CheckIdentity
  <2> QED BY <1>12, <2>1, LockFrame DEF CheckIdentity
<1>13. ASSUME NEW r \in Runs, OpenIdentity(r) PROVE LockInv'
  BY <1>13, LockFrame DEF OpenIdentity
<1>14. ASSUME NEW r \in Runs, WriteIdentity(r) PROVE LockInv'
  BY <1>14, LockFrame DEF WriteIdentity
<1>15. ASSUME NEW r \in Runs, RecheckLock(r) PROVE LockInv'
  <2>1. PICK place : pc' = [pc EXCEPT ![r] = place]
    BY <1>15 DEF RecheckLock
  <2> QED BY <1>15, <2>1, LockFrame DEF RecheckLock
<1>16. ASSUME NEW r \in Runs, OpenLock(r) PROVE LockInv'
  BY <1>16, FileStates DEF OpenLock, LockInv
<1>17. ASSUME NEW r \in Runs, WriteLock(r) PROVE LockInv'
  <2>1. lock' = Document(r) /\ pc'[r] = "succeeded" /\ opt' = opt
    BY <1>17 DEF WriteLock, IInv, TypeOK
  <2>2. lock'.by = r /\ lock'.accepted = opt'[r].accept
    BY <1>17, <2>1, DocumentType DEF WriteLock, IInv, Judged, Past, PastCopy, PastPrune, PastIdentity, WithLock
  <2> QED BY <2>1, <2>2 DEF LockInv
<1>18. ASSUME NEW r \in Runs, Kill(r) PROVE LockInv'
  BY <1>18, LockFrame DEF Kill
<1>19. ASSUME NEW g \in Gits, ChangeGit(g) PROVE LockInv'
  BY <1>19 DEF ChangeGit, IInv, LockInv
<1> QED
  BY <1>0, <1>1, <1>2, <1>3, <1>4, <1>5, <1>6, <1>7, <1>8, <1>9, <1>10, <1>11, <1>12, <1>13, <1>14, <1>15, <1>16, <1>17, <1>18, <1>19 DEF Next, Step

\* A document stays what it is once its run has read the repository.
LEMMA DocumentFrame ==
  ASSUME NEW q \in Runs, opt' = opt, seen'[q] = seen[q]
  PROVE  Document(q)' = Document(q)
BY DEF Document

\* Before the copy, a run neither is nor becomes the one past it.
LEMMA OwnFrame ==
  ASSUME IInv, NEW r \in Runs, pc[r] \notin Past \cup {"killed"},
         NEW place, place \notin Past, pc' = [pc EXCEPT ![r] = place],
         \A q \in Runs : q # r => seen'[q] = seen[q],
         UNCHANGED <<opt, agent, identity, lock>>
  PROVE  OwnInv'
<1> SUFFICES ASSUME ~Raced PROVE OwnInv'
  BY DEF OwnInv, Raced
<1>1. agent.by # r
  BY DEF IInv, OwnInv, Progress
<1>2. \A q \in Runs : q # r => pc'[q] = pc[q] /\ Document(q)' = Document(q)
  BY DocumentFrame DEF IInv, TypeOK
<1>3. \A q \in Runs : pc'[q] \in Past => q # r /\ pc[q] \in Past
  BY <1>2 DEF IInv, TypeOK
<1>4. ASSUME NEW q \in Runs, agent.by = q PROVE Progress(q)'
  BY <1>1, <1>2, <1>4 DEF IInv, OwnInv, Progress
<1> QED BY <1>3, <1>4 DEF IInv, OwnInv

\* Past the copy, the run r is the one whose progress is recorded.
LEMMA OwnProgress ==
  ASSUME IInv, NEW r \in Runs, pc[r] \in Past, ~Raced,
         NEW place, place \in Past \cup {"killed"}, pc' = [pc EXCEPT ![r] = place],
         agent'.by = agent.by, agent'.top # "absent", Progress(r)'
  PROVE  OwnInv'
<1>1. agent.by = r
  BY DEF IInv, OwnInv
<1>2. \A q \in Runs : q # r => pc'[q] = pc[q]
  BY DEF IInv, TypeOK
<1>3. \A q \in Runs : pc'[q] \in Past => q = r
  BY <1>1, <1>2 DEF IInv, OwnInv
<1> QED BY <1>1, <1>3, FileStates DEF OwnInv

\* One run is alone past the copy, or one copy lies in the other.
LEMMA OwnStep ==
  ASSUME IInv, [Next]_vars
  PROVE  OwnInv'
<1> DEFINE Before == {"new", "toplevel", "remote", "branch", "decide", "check_lock",
                      "mkdir", "check_copy", "copy", "refused"}
<1> USE DEF Go, Refuse, disk, environment
<1>0. CASE UNCHANGED vars
  <2>1. \A q \in Runs : Document(q)' = Document(q)
    BY <1>0, DocumentFrame DEF vars
  <2>2. \A q \in Runs : Progress(q) <=> Progress(q)'
    BY <1>0, <2>1 DEF vars, Progress
  <2> QED BY <1>0, <2>2 DEF vars, IInv, OwnInv, Raced
<1>1. ASSUME NEW r \in Runs, Start(r) PROVE OwnInv'
  <2>1. PICK place \in Before : pc' = [pc EXCEPT ![r] = place]
    BY <1>1 DEF Start
  <2>2. \A q \in Runs : q # r => seen'[q] = seen[q]
    BY <1>1 DEF Start, IInv, TypeOK
  <2>3. pc[r] \notin Past \cup {"killed"} /\ place \notin Past
    BY <1>1, <2>1 DEF Start, Past, PastCopy, PastPrune, PastIdentity, WithLock
  <2> QED BY <1>1, <2>1, <2>2, <2>3, OwnFrame DEF Start
<1>2. ASSUME NEW r \in Runs, ReadToplevel(r) PROVE OwnInv'
  <2>1. PICK place \in Before : pc' = [pc EXCEPT ![r] = place]
    BY <1>2, GitType DEF ReadToplevel, IInv, TypeOK
  <2>2. \A q \in Runs : q # r => seen'[q] = seen[q]
    BY <1>2 DEF ReadToplevel, IInv, TypeOK
  <2>3. pc[r] \notin Past \cup {"killed"} /\ place \notin Past
    BY <1>2, <2>1 DEF ReadToplevel, Past, PastCopy, PastPrune, PastIdentity, WithLock
  <2> QED BY <1>2, <2>1, <2>2, <2>3, OwnFrame DEF ReadToplevel
<1>3. ASSUME NEW r \in Runs, ReadRemote(r) PROVE OwnInv'
  <2>1. PICK place \in Before : pc' = [pc EXCEPT ![r] = place]
    BY <1>3 DEF ReadRemote
  <2>2. \A q \in Runs : q # r => seen'[q] = seen[q]
    BY <1>3 DEF ReadRemote, IInv, TypeOK
  <2>3. pc[r] \notin Past \cup {"killed"} /\ place \notin Past
    BY <1>3, <2>1 DEF ReadRemote, Past, PastCopy, PastPrune, PastIdentity, WithLock
  <2> QED BY <1>3, <2>1, <2>2, <2>3, OwnFrame DEF ReadRemote
<1>4. ASSUME NEW r \in Runs, ReadBranch(r) PROVE OwnInv'
  <2>1. PICK place \in Before : pc' = [pc EXCEPT ![r] = place]
    BY <1>4 DEF ReadBranch
  <2>2. \A q \in Runs : q # r => seen'[q] = seen[q]
    BY <1>4 DEF ReadBranch, IInv, TypeOK
  <2>3. pc[r] \notin Past \cup {"killed"} /\ place \notin Past
    BY <1>4, <2>1 DEF ReadBranch, Past, PastCopy, PastPrune, PastIdentity, WithLock
  <2> QED BY <1>4, <2>1, <2>2, <2>3, OwnFrame DEF ReadBranch
<1>5. ASSUME NEW r \in Runs, Decide(r) PROVE OwnInv'
  <2>1. PICK place \in Before : pc' = [pc EXCEPT ![r] = place]
    BY <1>5 DEF Decide
  <2>2. \A q \in Runs : q # r => seen'[q] = seen[q]
    BY <1>5 DEF Decide, IInv, TypeOK
  <2>3. pc[r] \notin Past \cup {"killed"} /\ place \notin Past
    BY <1>5, <2>1 DEF Decide, Past, PastCopy, PastPrune, PastIdentity, WithLock
  <2> QED BY <1>5, <2>1, <2>2, <2>3, OwnFrame DEF Decide
<1>6. ASSUME NEW r \in Runs, CheckLock(r) PROVE OwnInv'
  <2>1. PICK place \in Before : pc' = [pc EXCEPT ![r] = place]
    BY <1>6 DEF CheckLock
  <2>2. \A q \in Runs : q # r => seen'[q] = seen[q]
    BY <1>6 DEF CheckLock, IInv, TypeOK
  <2>3. pc[r] \notin Past \cup {"killed"} /\ place \notin Past
    BY <1>6, <2>1 DEF CheckLock, Past, PastCopy, PastPrune, PastIdentity, WithLock
  <2> QED BY <1>6, <2>1, <2>2, <2>3, OwnFrame DEF CheckLock
<1>7. ASSUME NEW r \in Runs, MakeDirectories(r) PROVE OwnInv'
  <2>1. PICK place \in Before : pc' = [pc EXCEPT ![r] = place]
    BY <1>7 DEF MakeDirectories
  <2>2. \A q \in Runs : q # r => seen'[q] = seen[q]
    BY <1>7 DEF MakeDirectories, IInv, TypeOK
  <2>3. pc[r] \notin Past \cup {"killed"} /\ place \notin Past
    BY <1>7, <2>1 DEF MakeDirectories, Past, PastCopy, PastPrune, PastIdentity, WithLock
  <2> QED BY <1>7, <2>1, <2>2, <2>3, OwnFrame DEF MakeDirectories
<1>8. ASSUME NEW r \in Runs, CheckCopy(r) PROVE OwnInv'
  <2>1. PICK place \in Before : pc' = [pc EXCEPT ![r] = place]
    BY <1>8 DEF CheckCopy
  <2>2. \A q \in Runs : q # r => seen'[q] = seen[q]
    BY <1>8 DEF CheckCopy, IInv, TypeOK
  <2>3. pc[r] \notin Past \cup {"killed"} /\ place \notin Past
    BY <1>8, <2>1 DEF CheckCopy, Past, PastCopy, PastPrune, PastIdentity, WithLock
  <2> QED BY <1>8, <2>1, <2>2, <2>3, OwnFrame DEF CheckCopy
<1>9. ASSUME NEW r \in Runs, StartCopy(r) PROVE OwnInv'
  <2>1. pc[r] \notin Past \cup {"killed"}
    BY <1>9 DEF StartCopy, Past, PastCopy, PastPrune, PastIdentity, WithLock
  <2>2. CASE agent.top = "absent"
    <3>1. ~Raced => agent.by = NONE
      BY <2>2 DEF IInv, OwnInv, TypeOK
    <3>2. pc' = [pc EXCEPT ![r] = "copying"] /\ agent' = [agent EXCEPT !.top = "partial", !.by = r]
      BY <1>9, <2>2 DEF StartCopy
    <3>3. SUFFICES ASSUME ~Raced PROVE OwnInv'
      BY <3>2 DEF OwnInv, Raced, IInv, TypeOK
    <3>4. \A q \in Runs : pc[q] \notin Past
      BY <3>1, <3>3, FileStates DEF IInv, OwnInv
    <3>5. \A q \in Runs : pc'[q] \in Past => q = r
      BY <3>2, <3>4 DEF IInv, TypeOK
    <3>6. identity = Missing /\ lock = Missing /\ agent'.by = r /\ agent'.top = "partial" /\ pc'[r] = "copying"
      BY <3>1, <3>2, <3>3 DEF IInv, OwnInv, TypeOK
    <3>7. Progress(r)'
      BY <1>9, <3>6, FileStates DEF StartCopy, Progress, Past, PastCopy, PastPrune, PastIdentity, WithLock
    <3> QED BY <3>5, <3>6, <3>7, FileStates DEF OwnInv
  <2>3. CASE agent' = [agent EXCEPT !.nested = "partial"]
    BY <2>3 DEF OwnInv, Raced, IInv, TypeOK
  <2>4. CASE agent' = agent /\ pc' = [pc EXCEPT ![r] = "refused"]
    <3>1. "refused" \notin Past
      BY DEF Past, PastCopy, PastPrune, PastIdentity, WithLock
    <3> QED BY <1>9, <2>1, <2>4, <3>1, OwnFrame DEF StartCopy
  <2> QED BY <1>9, <2>2, <2>3, <2>4 DEF StartCopy
<1>10. ASSUME NEW r \in Runs, FinishCopy(r) PROVE OwnInv'
  <2> SUFFICES ASSUME ~Raced PROVE OwnInv'
    BY <1>10 DEF FinishCopy, OwnInv, Raced, IInv, TypeOK
  <2>1. pc[r] \in Past
    BY <1>10 DEF FinishCopy, Past, PastCopy, PastPrune, PastIdentity, WithLock
  <2>2. agent.by = r /\ Progress(r) /\ agent.top # "absent"
    BY <2>1 DEF IInv, OwnInv
  <2>3. PICK place \in Past \cup {"killed"} : pc' = [pc EXCEPT ![r] = place]
    BY <1>10, <2>2 DEF FinishCopy, Progress, Past, PastCopy, PastPrune, PastIdentity, WithLock
  <2>4. Document(r)' = Document(r)
    BY <1>10, DocumentFrame DEF FinishCopy
  <2>5. Progress(r)' /\ agent'.by = agent.by /\ agent'.top # "absent"
    BY <1>10, <2>2, <2>3, <2>4, FileStates DEF FinishCopy, Progress, IInv, TypeOK,
       Past, PastCopy, PastPrune, PastIdentity, WithLock
  <2> QED BY <1>10, <2>1, <2>3, <2>5, OwnProgress DEF FinishCopy
<1>11. ASSUME NEW r \in Runs, PruneGit(r) PROVE OwnInv'
  <2> SUFFICES ASSUME ~Raced PROVE OwnInv'
    BY <1>11 DEF PruneGit, OwnInv, Raced, IInv, TypeOK
  <2>1. pc[r] \in Past
    BY <1>11 DEF PruneGit, Past, PastCopy, PastPrune, PastIdentity, WithLock
  <2>2. agent.by = r /\ Progress(r) /\ agent.top # "absent"
    BY <2>1 DEF IInv, OwnInv
  <2>3. PICK place \in Past \cup {"killed"} : pc' = [pc EXCEPT ![r] = place]
    BY <1>11, <2>2 DEF PruneGit, Progress, Past, PastCopy, PastPrune, PastIdentity, WithLock
  <2>4. Document(r)' = Document(r)
    BY <1>11, DocumentFrame DEF PruneGit
  <2>5. Progress(r)' /\ agent'.by = agent.by /\ agent'.top # "absent"
    BY <1>11, <2>2, <2>3, <2>4, FileStates DEF PruneGit, Progress, IInv, TypeOK,
       Past, PastCopy, PastPrune, PastIdentity, WithLock
  <2> QED BY <1>11, <2>1, <2>3, <2>5, OwnProgress DEF PruneGit
<1>12. ASSUME NEW r \in Runs, CheckIdentity(r) PROVE OwnInv'
  <2> SUFFICES ASSUME ~Raced PROVE OwnInv'
    BY <1>12 DEF CheckIdentity, OwnInv, Raced, IInv, TypeOK
  <2>1. pc[r] \in Past
    BY <1>12 DEF CheckIdentity, Past, PastCopy, PastPrune, PastIdentity, WithLock
  <2>2. agent.by = r /\ Progress(r) /\ agent.top # "absent"
    BY <2>1 DEF IInv, OwnInv
  <2>3. PICK place \in Past \cup {"killed"} : pc' = [pc EXCEPT ![r] = place]
    BY <1>12, <2>2 DEF CheckIdentity, Progress, Past, PastCopy, PastPrune, PastIdentity, WithLock
  <2>4. Document(r)' = Document(r)
    BY <1>12, DocumentFrame DEF CheckIdentity
  <2>5. Progress(r)' /\ agent'.by = agent.by /\ agent'.top # "absent"
    BY <1>12, <2>2, <2>3, <2>4, FileStates DEF CheckIdentity, Progress, IInv, TypeOK,
       Past, PastCopy, PastPrune, PastIdentity, WithLock
  <2> QED BY <1>12, <2>1, <2>3, <2>5, OwnProgress DEF CheckIdentity
<1>13. ASSUME NEW r \in Runs, OpenIdentity(r) PROVE OwnInv'
  <2> SUFFICES ASSUME ~Raced PROVE OwnInv'
    BY <1>13 DEF OpenIdentity, OwnInv, Raced, IInv, TypeOK
  <2>1. pc[r] \in Past
    BY <1>13 DEF OpenIdentity, Past, PastCopy, PastPrune, PastIdentity, WithLock
  <2>2. agent.by = r /\ Progress(r) /\ agent.top # "absent"
    BY <2>1 DEF IInv, OwnInv
  <2>3. PICK place \in Past \cup {"killed"} : pc' = [pc EXCEPT ![r] = place]
    BY <1>13, <2>2 DEF OpenIdentity, Progress, Past, PastCopy, PastPrune, PastIdentity, WithLock
  <2>4. Document(r)' = Document(r)
    BY <1>13, DocumentFrame DEF OpenIdentity
  <2>5. Progress(r)' /\ agent'.by = agent.by /\ agent'.top # "absent"
    BY <1>13, <2>2, <2>3, <2>4, FileStates DEF OpenIdentity, Progress, IInv, TypeOK,
       Past, PastCopy, PastPrune, PastIdentity, WithLock
  <2> QED BY <1>13, <2>1, <2>3, <2>5, OwnProgress DEF OpenIdentity
<1>14. ASSUME NEW r \in Runs, WriteIdentity(r) PROVE OwnInv'
  <2> SUFFICES ASSUME ~Raced PROVE OwnInv'
    BY <1>14 DEF WriteIdentity, OwnInv, Raced, IInv, TypeOK
  <2>1. pc[r] \in Past
    BY <1>14 DEF WriteIdentity, Past, PastCopy, PastPrune, PastIdentity, WithLock
  <2>2. agent.by = r /\ Progress(r) /\ agent.top # "absent"
    BY <2>1 DEF IInv, OwnInv
  <2>3. PICK place \in Past \cup {"killed"} : pc' = [pc EXCEPT ![r] = place]
    BY <1>14, <2>2 DEF WriteIdentity, Progress, Past, PastCopy, PastPrune, PastIdentity, WithLock
  <2>4. Document(r)' = Document(r)
    BY <1>14, DocumentFrame DEF WriteIdentity
  <2>6. Document(r) \in Documents /\ Document(r).by = r
    BY <2>1, DocumentType DEF IInv, Judged
  <2>5. Progress(r)' /\ agent'.by = agent.by /\ agent'.top # "absent"
    BY <1>14, <2>2, <2>3, <2>4, FileStates, <2>6 DEF WriteIdentity, Progress, IInv, TypeOK,
       Past, PastCopy, PastPrune, PastIdentity, WithLock
  <2> QED BY <1>14, <2>1, <2>3, <2>5, OwnProgress DEF WriteIdentity
<1>15. ASSUME NEW r \in Runs, RecheckLock(r) PROVE OwnInv'
  <2> SUFFICES ASSUME ~Raced PROVE OwnInv'
    BY <1>15 DEF RecheckLock, OwnInv, Raced, IInv, TypeOK
  <2>1. pc[r] \in Past
    BY <1>15 DEF RecheckLock, Past, PastCopy, PastPrune, PastIdentity, WithLock
  <2>2. agent.by = r /\ Progress(r) /\ agent.top # "absent"
    BY <2>1 DEF IInv, OwnInv
  <2>3. PICK place \in Past \cup {"killed"} : pc' = [pc EXCEPT ![r] = place]
    BY <1>15, <2>2 DEF RecheckLock, Progress, Past, PastCopy, PastPrune, PastIdentity, WithLock
  <2>4. Document(r)' = Document(r)
    BY <1>15, DocumentFrame DEF RecheckLock
  <2>5. Progress(r)' /\ agent'.by = agent.by /\ agent'.top # "absent"
    BY <1>15, <2>2, <2>3, <2>4, FileStates DEF RecheckLock, Progress, IInv, TypeOK,
       Past, PastCopy, PastPrune, PastIdentity, WithLock
  <2> QED BY <1>15, <2>1, <2>3, <2>5, OwnProgress DEF RecheckLock
<1>16. ASSUME NEW r \in Runs, OpenLock(r) PROVE OwnInv'
  <2> SUFFICES ASSUME ~Raced PROVE OwnInv'
    BY <1>16 DEF OpenLock, OwnInv, Raced, IInv, TypeOK
  <2>1. pc[r] \in Past
    BY <1>16 DEF OpenLock, Past, PastCopy, PastPrune, PastIdentity, WithLock
  <2>2. agent.by = r /\ Progress(r) /\ agent.top # "absent"
    BY <2>1 DEF IInv, OwnInv
  <2>3. PICK place \in Past \cup {"killed"} : pc' = [pc EXCEPT ![r] = place]
    BY <1>16, <2>2 DEF OpenLock, Progress, Past, PastCopy, PastPrune, PastIdentity, WithLock
  <2>4. Document(r)' = Document(r)
    BY <1>16, DocumentFrame DEF OpenLock
  <2>5. Progress(r)' /\ agent'.by = agent.by /\ agent'.top # "absent"
    BY <1>16, <2>2, <2>3, <2>4, FileStates DEF OpenLock, Progress, IInv, TypeOK,
       Past, PastCopy, PastPrune, PastIdentity, WithLock
  <2> QED BY <1>16, <2>1, <2>3, <2>5, OwnProgress DEF OpenLock
<1>17. ASSUME NEW r \in Runs, WriteLock(r) PROVE OwnInv'
  <2> SUFFICES ASSUME ~Raced PROVE OwnInv'
    BY <1>17 DEF WriteLock, OwnInv, Raced, IInv, TypeOK
  <2>1. pc[r] \in Past
    BY <1>17 DEF WriteLock, Past, PastCopy, PastPrune, PastIdentity, WithLock
  <2>2. agent.by = r /\ Progress(r) /\ agent.top # "absent"
    BY <2>1 DEF IInv, OwnInv
  <2>3. PICK place \in Past \cup {"killed"} : pc' = [pc EXCEPT ![r] = place]
    BY <1>17, <2>2 DEF WriteLock, Progress, Past, PastCopy, PastPrune, PastIdentity, WithLock
  <2>4. Document(r)' = Document(r)
    BY <1>17, DocumentFrame DEF WriteLock
  <2>6. Document(r) \in Documents /\ Document(r).by = r
    BY <2>1, DocumentType DEF IInv, Judged
  <2>5. Progress(r)' /\ agent'.by = agent.by /\ agent'.top # "absent"
    BY <1>17, <2>2, <2>3, <2>4, FileStates, <2>6 DEF WriteLock, Progress, IInv, TypeOK,
       Past, PastCopy, PastPrune, PastIdentity, WithLock
  <2> QED BY <1>17, <2>1, <2>3, <2>5, OwnProgress DEF WriteLock
<1>18. ASSUME NEW r \in Runs, Kill(r) PROVE OwnInv'
  <2>1. pc[r] \notin Ended \cup {"new"} /\ pc' = [pc EXCEPT ![r] = "killed"]
    BY <1>18 DEF Kill
  <2>2. CASE pc[r] \notin Past
    <3>1. pc[r] # "killed" /\ "killed" \notin Past
      BY <2>1 DEF Ended, Past, PastCopy, PastPrune, PastIdentity, WithLock
    <3> QED BY <1>18, <2>1, <2>2, <3>1, OwnFrame DEF Kill
  <2>3. CASE pc[r] \in Past
    <3> SUFFICES ASSUME ~Raced PROVE OwnInv'
      BY <1>18 DEF Kill, OwnInv, Raced, IInv, TypeOK
    <3>1. agent.by = r /\ Progress(r) /\ agent.top # "absent" /\ pc'[r] = "killed"
      BY <2>1, <2>3 DEF IInv, OwnInv, TypeOK
    <3>2. lock \notin Documents
      BY <2>1, <2>3, <3>1, FileStates DEF Progress, Ended, Past, PastCopy, PastPrune, PastIdentity, WithLock
    <3>3. Progress(r)'
      BY <1>18, <3>1, <3>2 DEF Kill, Progress, Past, PastCopy, PastPrune, PastIdentity, WithLock
    <3> QED BY <1>18, <2>1, <2>3, <3>1, <3>3, OwnProgress DEF Kill
  <2> QED BY <2>2, <2>3
<1>19. ASSUME NEW g \in Gits, ChangeGit(g) PROVE OwnInv'
  <2>1. \A q \in Runs : Document(q)' = Document(q)
    BY <1>19, DocumentFrame DEF ChangeGit
  <2>2. \A q \in Runs : Progress(q) <=> Progress(q)'
    BY <1>19, <2>1 DEF ChangeGit, Progress
  <2> QED BY <1>19, <2>2 DEF ChangeGit, IInv, OwnInv, Raced
<1> QED
  BY <1>0, <1>1, <1>2, <1>3, <1>4, <1>5, <1>6, <1>7, <1>8, <1>9, <1>10, <1>11, <1>12, <1>13, <1>14, <1>15, <1>16, <1>17, <1>18, <1>19 DEF Next, Step

\* Every leftover has its run.
LEMMA WitnessStep ==
  ASSUME IInv, [Next]_vars
  PROVE  WitnessInv'
<1> USE DEF Go, Refuse, disk, environment, IInv, TypeOK, WitnessInv, Ended, Judged, Past, PastCopy, PastPrune, PastIdentity, WithLock
<1>0. CASE UNCHANGED vars
  BY <1>0 DEF vars
<1>1. ASSUME NEW r \in Runs, Start(r) PROVE WitnessInv'
  BY <1>1 DEF Start
<1>2. ASSUME NEW r \in Runs, ReadToplevel(r) PROVE WitnessInv'
  BY <1>2 DEF ReadToplevel
<1>3. ASSUME NEW r \in Runs, ReadRemote(r) PROVE WitnessInv'
  BY <1>3 DEF ReadRemote
<1>4. ASSUME NEW r \in Runs, ReadBranch(r) PROVE WitnessInv'
  BY <1>4 DEF ReadBranch
<1>5. ASSUME NEW r \in Runs, Decide(r) PROVE WitnessInv'
  BY <1>5 DEF Decide
<1>6. ASSUME NEW r \in Runs, CheckLock(r) PROVE WitnessInv'
  BY <1>6 DEF CheckLock
<1>7. ASSUME NEW r \in Runs, MakeDirectories(r) PROVE WitnessInv'
  BY <1>7 DEF MakeDirectories
<1>8. ASSUME NEW r \in Runs, CheckCopy(r) PROVE WitnessInv'
  BY <1>8 DEF CheckCopy
<1>9. ASSUME NEW r \in Runs, StartCopy(r) PROVE WitnessInv'
  BY <1>9 DEF StartCopy
<1>10. ASSUME NEW r \in Runs, FinishCopy(r) PROVE WitnessInv'
  BY <1>10 DEF FinishCopy
<1>11. ASSUME NEW r \in Runs, PruneGit(r) PROVE WitnessInv'
  BY <1>11 DEF PruneGit
<1>12. ASSUME NEW r \in Runs, CheckIdentity(r) PROVE WitnessInv'
  BY <1>12 DEF CheckIdentity
<1>13. ASSUME NEW r \in Runs, OpenIdentity(r) PROVE WitnessInv'
  BY <1>13 DEF OpenIdentity
<1>14. ASSUME NEW r \in Runs, WriteIdentity(r) PROVE WitnessInv'
  BY <1>14 DEF WriteIdentity
<1>15. ASSUME NEW r \in Runs, RecheckLock(r) PROVE WitnessInv'
  BY <1>15 DEF RecheckLock
<1>16. ASSUME NEW r \in Runs, OpenLock(r) PROVE WitnessInv'
  BY <1>16 DEF OpenLock
<1>17. ASSUME NEW r \in Runs, WriteLock(r) PROVE WitnessInv'
  BY <1>17 DEF WriteLock
<1>18. ASSUME NEW r \in Runs, Kill(r) PROVE WitnessInv'
  BY <1>18 DEF Kill
<1>19. ASSUME NEW g \in Gits, ChangeGit(g) PROVE WitnessInv'
  BY <1>19 DEF ChangeGit
<1> QED
  BY <1>0, <1>1, <1>2, <1>3, <1>4, <1>5, <1>6, <1>7, <1>8, <1>9, <1>10, <1>11, <1>12, <1>13, <1>14, <1>15, <1>16, <1>17, <1>18, <1>19 DEF Next, Step

\* Welcome runs are refused because of leftovers.
LEMMA RefusalStep ==
  ASSUME IInv, [Next]_vars
  PROVE  RefusalInv'
<1> USE BoundAssumption DEF Go, Refuse, disk, environment, IInv, TypeOK, RefusalInv, Welcome, Judged, Past, PastCopy, PastPrune, PastIdentity, WithLock
<1>0. CASE UNCHANGED vars
  BY <1>0 DEF vars
<1>1. ASSUME NEW r \in Runs, Start(r) PROVE RefusalInv'
  BY <1>1 DEF Start
<1>2. ASSUME NEW r \in Runs, ReadToplevel(r) PROVE RefusalInv'
  <2> SUFFICES ASSUME changes = 0 PROVE RefusalInv'
    BY <1>2 DEF ReadToplevel
  <2>1. r \in still
    BY <1>2 DEF ReadToplevel
  <2>2. pc'[r] = "refused" => ~Welcome(opt[r])
    BY <1>2, <2>1, GitType DEF ReadToplevel, StillInv, Expected
  <2>3. \A q \in Runs : q # r => pc'[q] = pc[q]
    BY <1>2 DEF ReadToplevel
  <2> QED BY <1>2, <2>1, <2>2, <2>3 DEF ReadToplevel
<1>3. ASSUME NEW r \in Runs, ReadRemote(r) PROVE RefusalInv'
  <2> SUFFICES ASSUME changes = 0 PROVE RefusalInv'
    BY <1>3 DEF ReadRemote
  <2>1. r \in still
    BY <1>3 DEF ReadRemote
  <2>2. pc'[r] = "refused" => ~Welcome(opt[r])
    BY <1>3, <2>1 DEF ReadRemote, StillInv, Expected
  <2>3. \A q \in Runs : q # r => pc'[q] = pc[q]
    BY <1>3 DEF ReadRemote
  <2> QED BY <1>3, <2>1, <2>2, <2>3 DEF ReadRemote
<1>4. ASSUME NEW r \in Runs, ReadBranch(r) PROVE RefusalInv'
  <2> SUFFICES ASSUME changes = 0 PROVE RefusalInv'
    BY <1>4 DEF ReadBranch
  <2>1. r \in still
    BY <1>4 DEF ReadBranch
  <2>2. pc'[r] = "refused" => ~Welcome(opt[r])
    BY <1>4, <2>1 DEF ReadBranch, StillInv, Expected
  <2>3. \A q \in Runs : q # r => pc'[q] = pc[q]
    BY <1>4 DEF ReadBranch
  <2> QED BY <1>4, <2>1, <2>2, <2>3 DEF ReadBranch
<1>5. ASSUME NEW r \in Runs, Decide(r) PROVE RefusalInv'
  <2> SUFFICES ASSUME changes = 0 PROVE RefusalInv'
    BY <1>5 DEF Decide
  <2>1. r \in still
    BY <1>5 DEF Decide
  <2>2. pc'[r] = "refused" => ~Welcome(opt[r]) \/ identity # Missing
    BY <1>5, <2>1 DEF Decide, StillInv, Expected
  <2>3. \A q \in Runs : q # r => pc'[q] = pc[q]
    BY <1>5 DEF Decide
  <2> QED BY <1>5, <2>1, <2>2, <2>3 DEF Decide
<1>6. ASSUME NEW r \in Runs, CheckLock(r) PROVE RefusalInv'
  BY <1>6 DEF CheckLock
<1>7. ASSUME NEW r \in Runs, MakeDirectories(r) PROVE RefusalInv'
  BY <1>7 DEF MakeDirectories
<1>8. ASSUME NEW r \in Runs, CheckCopy(r) PROVE RefusalInv'
  BY <1>8 DEF CheckCopy
<1>9. ASSUME NEW r \in Runs, StartCopy(r) PROVE RefusalInv'
  BY <1>9 DEF StartCopy
<1>10. ASSUME NEW r \in Runs, FinishCopy(r) PROVE RefusalInv'
  BY <1>10 DEF FinishCopy
<1>11. ASSUME NEW r \in Runs, PruneGit(r) PROVE RefusalInv'
  BY <1>11 DEF PruneGit
<1>12. ASSUME NEW r \in Runs, CheckIdentity(r) PROVE RefusalInv'
  BY <1>12 DEF CheckIdentity
<1>13. ASSUME NEW r \in Runs, OpenIdentity(r) PROVE RefusalInv'
  BY <1>13, FileStates DEF OpenIdentity
<1>14. ASSUME NEW r \in Runs, WriteIdentity(r) PROVE RefusalInv'
  <2>1. Document(r) # Missing
    BY <1>14, DocumentType, FileStates DEF WriteIdentity
  <2> QED BY <1>14, <2>1 DEF WriteIdentity
<1>15. ASSUME NEW r \in Runs, RecheckLock(r) PROVE RefusalInv'
  BY <1>15 DEF RecheckLock
<1>16. ASSUME NEW r \in Runs, OpenLock(r) PROVE RefusalInv'
  BY <1>16, FileStates DEF OpenLock
<1>17. ASSUME NEW r \in Runs, WriteLock(r) PROVE RefusalInv'
  <2>1. Document(r) # Missing
    BY <1>17, DocumentType, FileStates DEF WriteLock
  <2> QED BY <1>17, <2>1 DEF WriteLock
<1>18. ASSUME NEW r \in Runs, Kill(r) PROVE RefusalInv'
  BY <1>18 DEF Kill
<1>19. ASSUME NEW g \in Gits, ChangeGit(g) PROVE RefusalInv'
  BY <1>19 DEF ChangeGit
<1> QED
  BY <1>0, <1>1, <1>2, <1>3, <1>4, <1>5, <1>6, <1>7, <1>8, <1>9, <1>10, <1>11, <1>12, <1>13, <1>14, <1>15, <1>16, <1>17, <1>18, <1>19 DEF Next, Step

------------------------------------------------------------------------------
\* The invariant holds in every reachable state.
LEMMA Inductive == Spec => []IInv
<1>1. IInv /\ [Next]_vars => IInv'
  BY TypeStep, SeenStep, StillStep, LockStep, OwnStep, WitnessStep, RefusalStep DEF IInv
<1> QED BY <1>1, InitIInv, PTL DEF Spec

\* Files, runs and directories have the contents the model gives them.
THEOREM TypesAreKept == Spec => []TypeOK
<1>1. IInv => TypeOK
  BY DEF IInv
<1> QED BY <1>1, Inductive, PTL

\* A written lock, which comes last, vouches for everything before it: unless
\* two copies met, the run that wrote it made the copy that is there, took
\* every .git out of it and wrote the identity, with the same facts.
THEOREM LocksVouch == Spec => []LockVouchesForWorkspace
<1>1. IInv => LockVouchesForWorkspace
  <2> SUFFICES ASSUME IInv, lock \in Documents, ~Raced
               PROVE  identity = lock /\ agent.top = "full" /\ agent.git = {}
                        /\ agent.by = lock.by
    BY DEF LockVouchesForWorkspace
  <2>1. lock.by \in Runs /\ pc[lock.by] = "succeeded"
    BY DEF IInv, LockInv, Documents
  <2>2. agent.by = lock.by
    BY <2>1 DEF IInv, OwnInv, Past, PastCopy, PastPrune, PastIdentity, WithLock
  <2>3. Progress(lock.by)
    BY <2>1, <2>2 DEF IInv, OwnInv
  <2> QED BY <2>1, <2>2, <2>3 DEF Progress, PastCopy, PastPrune, PastIdentity, WithLock
<1> QED BY <1>1, Inductive, PTL

\* What the script refuses it leaves as it was: agent-system, identity and
\* lock are never those of a run that ended in a refusal.
THEOREM RefusalsAreClean == Spec => []RefusalsLeaveNothing
<1>1. IInv => RefusalsLeaveNothing
  <2> SUFFICES ASSUME IInv, ~Raced, NEW r \in Runs, pc[r] = "refused"
               PROVE  /\ agent.by # r
                      /\ identity \in Documents => identity.by # r
                      /\ lock \in Documents => lock.by # r
    BY DEF RefusalsLeaveNothing
  <2>1. agent.by # r
    BY DEF IInv, OwnInv, Progress, Past, PastCopy, PastPrune, PastIdentity, WithLock
  <2>2. identity \in Documents => identity.by = agent.by
    <3>1. identity \in Documents => agent.by \in Runs
      BY FileStates DEF IInv, TypeOK, OwnInv
    <3> QED BY <3>1 DEF IInv, OwnInv, Progress
  <2>3. lock \in Documents => lock.by # r
    BY DEF IInv, LockInv
  <2> QED BY <2>1, <2>2, <2>3
<1> QED BY <1>1, Inductive, PTL

\* Push is only allowed under a lock that tells the truth about the
\* repository, as long as nobody changed it since the run began.
THEOREM LocksMatch == Spec => []AcceptedLockMatchesRepository
<1>1. IInv => AcceptedLockMatchesRepository
  <2> SUFFICES ASSUME IInv, lock \in Documents, lock.accepted, lock.by \in still
               PROVE  /\ git.top = "own" /\ Expected(opt[lock.by])
                      /\ git.branch = opt[lock.by].branch
    BY DEF AcceptedLockMatchesRepository, Expected
  <2>1. pc[lock.by] \in Judged /\ opt[lock.by].accept
    BY DEF IInv, LockInv, Judged, Past, PastCopy, PastPrune, PastIdentity, WithLock
  <2> QED BY <2>1 DEF IInv, StillInv
<1> QED BY <1>1, Inductive, PTL

\* Any number of runs at the same time: they do not all refuse because of
\* what the others left.
THEOREM RunsDoNotWedge == Spec => []SomeRunSucceeds
<1>1. IInv => SomeRunSucceeds
  <2> SUFFICES ASSUME IInv, \A r \in Runs : pc[r] \in {"succeeded", "refused"},
                      changes = 0, ~(agent.top = "full" /\ agent.by = NONE),
                      NEW r \in Runs, Welcome(opt[r]), pc[r] = "refused"
               PROVE  \E q \in Runs : pc[q] = "succeeded"
    BY DEF SomeRunSucceeds
  <2>1. agent.top # "absent" \/ identity # Missing \/ lock # Missing
    BY DEF IInv, RefusalInv
  <2>2. PICK q \in Runs : pc[q] \in {"killed"} \cup Past
    BY <2>1 DEF IInv, WitnessInv, Past, PastCopy, PastPrune, PastIdentity, WithLock
  <2> QED BY <2>2 DEF Past, PastCopy, PastPrune, PastIdentity, WithLock
<1> QED BY <1>1, Inductive, PTL
==============================================================================
