----------------------- MODULE ConfigPropagationProofs -----------------------
(***************************************************************************)
(* Proofs about ConfigPropagation, for any caches, parents, files, jobs,   *)
(* requests and faults, with and without a status cache and overlapping    *)
(* transactions.                                                           *)
(***************************************************************************)
EXTENDS ConfigPropagation, TLAPS

USE DEF Kinds, Flags, Runs

(* Reading the status of a server, cached or not, yields numbers.          *)
LEMMA StatusType ==
    ASSUME FlagsTypeOK
    PROVE  getServerUpdateStatus \in [update : [Flags -> Nat], apply : [Flags -> Nat]]
BY DEF FlagsTypeOK, getServerUpdateStatus, Current

LEMMA NoRunType == NoRun \in RunRecords
BY DEF NoRun, RunRecords

LEMMA FaultType ==
    ASSUME TypeOK, NEW kind, Fault(kind)
    PROVE  faults' \in Nat
BY DEF Fault, TypeOK

(* A process that is gone leaves well-typed runs and locks behind.         *)
LEMMA GoneType ==
    ASSUME TypeOK, NEW r \in Runs, Gone(r)
    PROVE  /\ run' \in [Runs -> RunRecords]
           /\ lock' \in [Servers -> Jobs \cup {None}]
BY NoRunType DEF TypeOK, Gone

LEMMA ExitType ==
    ASSUME TypeOK, NEW r \in Runs, GitCommitAndExit(r)
    PROVE  /\ run' \in [Runs -> RunRecords]
           /\ lock' \in [Servers -> Jobs \cup {None}]
           /\ metadata' \in [Servers -> BOOLEAN]
<1>1. Gone(r)  BY DEF GitCommitAndExit
<1>2. QED  BY <1>1, GoneType DEF GitCommitAndExit, TypeOK

(* A request of the operators keeps the types of all it touches.           *)
LEMMA AskType ==
    ASSUME TypeOK, content' \in [Files -> Nat],
           NEW S, NEW k, NEW now, Ask(S, k, now)
    PROVE  TypeOK'
<1>1. now \in Nat  BY DEF Ask, QueueUpdateForServers, Stamps, TypeOK, FlagsTypeOK
<1>2. FlagsTypeOK'  BY <1>1 DEF Ask, QueueUpdateForServers, TypeOK, FlagsTypeOK
<1>3. wanted' \in [Servers -> [Files -> Nat]]  BY DEF Ask, TypeOK
<1>4. overtaken' \in [Servers -> SUBSET Files]  BY DEF Ask, TypeOK, FilesUnder
<1>5. run' \in [Runs -> RunRecords]
  <2> SUFFICES ASSUME NEW q \in Runs
               PROVE  [run[q] EXCEPT !.late = @ \cup FilesUnder(k)] \in RunRecords
    BY DEF Ask, TypeOK
  <2>1. run[q] \in RunRecords  BY DEF TypeOK
  <2>2. QED  BY <2>1 DEF RunRecords, FilesUnder
<1>6. QED  BY <1>2, <1>3, <1>4, <1>5 DEF Ask, TypeOK, cacheVars

LEMMA ForgetType ==
    ASSUME TypeOK, FlagsTypeOK', NEW S, NEW k, Forget(S, k)
    PROVE  TypeOK'
<1>1. wanted' \in [Servers -> [Files -> Nat]]  BY DEF Forget, TypeOK
<1>2. QED  BY <1>1 DEF Forget, TypeOK, cacheVars

(* Replacing files keeps the disk well typed.                              *)
LEMMA DiskType ==
    ASSUME TypeOK, NEW r \in Runs, NEW done, replaceCfgFile(r, done)
    PROVE  disk' \in [Servers -> [Files -> Nat]]
<1>1. run[r].got \in [Files -> Nat]  BY DEF TypeOK, RunRecords
<1>2. QED  BY <1>1 DEF replaceCfgFile, TypeOK

LEMMA ProcessType ==
    ASSUME TypeOK, NEW r \in Runs,
           NEW failed, NEW unwritten \in SUBSET Files, NEW refused \in SUBSET Files,
           ProcessFiles(r, failed, unwritten, refused)
    PROVE  /\ disk' \in [Servers -> [Files -> Nat]]
           /\ run' \in [Runs -> RunRecords]
<1>1. run[r] \in RunRecords  BY DEF TypeOK
<1>2. Changes(r) \subseteq Files  BY DEF Changes, FilesOf, Files
<1>3. \A required : UpdateStatus(failed, required) \in {"NotNeeded", "Needed", "Failed"}
  BY DEF UpdateStatus
<1>4. run' \in [Runs -> RunRecords]
  BY <1>1, <1>2, <1>3 DEF ProcessFiles, TypeOK, RunRecords
<1>5. QED  BY <1>4, DiskType DEF ProcessFiles

(* Every step keeps every variable well typed.                             *)
LEMMA TypeStep ==
    ASSUME TypeOK, [Next]_vars
    PROVE  TypeOK'
<1>1. ASSUME NEW f \in Files, Change(f)  PROVE TypeOK'
  BY <1>1 DEF Change, ChangeData, TypeOK, FlagsTypeOK, flagVars, cacheVars, history
<1>2. ASSUME NEW S \in QueueSets, Queue(S)  PROVE TypeOK'
  <2>1. PICK now : Ask(S, "config", now)  BY <1>2 DEF Queue
  <2>2. content' \in [Files -> Nat]  BY <1>2 DEF Queue, TypeOK
  <2>3. QED  BY <2>1, <2>2, AskType
<1>3. ASSUME NEW S \in QueueSets, Invalidate(S)  PROVE TypeOK'
  <2>1. PICK now : Ask(S, FlagOf(RevalFile), now)  BY <1>3 DEF Invalidate
  <2>2. ChangeData(RevalFile) /\ RevalFile \in Files  BY <1>3 DEF Invalidate, Files
  <2>3. content' \in [Files -> Nat]  BY <2>2 DEF ChangeData, TypeOK
  <2>4. QED  BY <2>1, <2>3, AskType
<1>4. ASSUME NEW S \in QueueSets, Dequeue(S)  PROVE TypeOK'
  <2>1. FlagsTypeOK'
    BY <1>4 DEF Dequeue, DequeueUpdateForServers, TypeOK, FlagsTypeOK
  <2>2. QED  BY <1>4, <2>1, ForgetType DEF Dequeue
<1>5. ASSUME NEW s \in Servers, NEW k \in Kinds, Clear(s, k)  PROVE TypeOK'
  <2>1. PICK now \in Stamps : SetApplyUpdateForServer(s, k, now)  BY <1>5 DEF Clear
  <2>2. now \in Nat  BY DEF Stamps, TypeOK, FlagsTypeOK
  <2>3. FlagsTypeOK'
    BY <2>1, <2>2 DEF SetApplyUpdateForServer, TypeOK, FlagsTypeOK
  <2>4. QED  BY <1>5, <2>3, ForgetType DEF Clear
<1>6. CASE RefreshStatusCache
  BY <1>6 DEF RefreshStatusCache, refreshServerUpdateStatusCache, Current, TypeOK,
     FlagsTypeOK, cacheVars, history
<1>7. ASSUME NEW r \in Runs, Start(r) \/ Step(r)  PROVE TypeOK'
  <2> USE DEF flagVars, cacheVars, history, Unlocking, Continuing, FlagsTypeOK
  <2>0. run[r] \in RunRecords /\ r[1] \in Servers /\ r[2] \in Jobs  BY DEF TypeOK
  <2>1. ASSUME NEW pc \in {"checkReval", "recheck", "generate"}, Goto(r, pc)
        PROVE  run' \in [Runs -> RunRecords]
    BY <2>0, <2>1 DEF Goto, TypeOK, RunRecords
  <2>2. CASE Start(r)
    <3>1. run' \in [Runs -> RunRecords]
      BY <2>2, NoRunType DEF Start, TypeOK, RunRecords
    <3>2. lock' \in [Servers -> Jobs \cup {None}]  BY <2>0, <2>2 DEF Start, TypeOK
    <3>3. QED  BY <2>2, <3>1, <3>2 DEF Start, TypeOK
  <2>3. CASE CheckSyncDSState(r)
    <3>1. run' \in [Runs -> RunRecords]  BY <2>1, <2>3 DEF CheckSyncDSState
    <3>2. QED  BY <2>3, <3>1 DEF CheckSyncDSState, TypeOK
  <2>4. CASE RecheckParents(r)
    <3>1. CASE GitCommitAndExit(r) /\ UNCHANGED Unlocking  BY <3>1, ExitType DEF TypeOK
    <3>2. CASE Goto(r, "generate") /\ UNCHANGED Continuing  BY <2>1, <3>2 DEF TypeOK
    <3>3. QED  BY <2>4, <3>1, <3>2 DEF RecheckParents
  <2>5. CASE CheckRevalidateState(r)
    <3>1. CASE GitCommitAndExit(r) /\ UNCHANGED Unlocking  BY <3>1, ExitType DEF TypeOK
    <3>2. CASE /\ run' = [run EXCEPT ![r].pc = "generate", ![r].scope = "reval"]
               /\ UNCHANGED Continuing
      <4>1. run' \in [Runs -> RunRecords]  BY <2>0, <3>2 DEF TypeOK, RunRecords
      <4>2. QED  BY <3>2, <4>1 DEF TypeOK
    <3>3. QED  BY <2>5, <3>1, <3>2 DEF CheckRevalidateState
  <2>6. CASE PanicWithoutMetadata(r)
    BY <2>6, GoneType DEF PanicWithoutMetadata, TypeOK
  <2>7. CASE GetConfigFileList(r)
    <3>1. run' \in [Runs -> RunRecords]
      BY <2>0, <2>7 DEF GetConfigFileList, TypeOK, RunRecords
    <3>2. QED  BY <2>7, <3>1 DEF GetConfigFileList, TypeOK
  <2>8. CASE ProcessConfigFiles(r)
    <3>1. Changes(r) \subseteq Files /\ FilesOf(run[r].scope) \subseteq Files
      BY DEF Changes, FilesOf, Files
    <3>2. PICK failed \in SUBSET Files, unwritten \in SUBSET Files, refused \in SUBSET Files :
            ProcessFiles(r, failed, unwritten, refused)
      BY <2>8, <3>1 DEF ProcessConfigFiles
    <3>3. faults' = faults \/ \E kind : Fault(kind)  BY <2>8 DEF ProcessConfigFiles
    <3>4. faults' \in Nat  BY <3>3 DEF Fault, TypeOK
    <3>5. QED  BY <2>8, <3>2, <3>4, ProcessType DEF ProcessConfigFiles, TypeOK
  <2>9. CASE StartServices(r)
    <3>1. run' \in [Runs -> RunRecords]
      BY <2>0, <2>9 DEF StartServices, TypeOK, RunRecords
    <3>2. run[r].changed \subseteq Files  BY <2>0 DEF RunRecords
    <3>3. loaded' \in [Servers -> [Files -> Nat]]
      <4>1. CASE Reload(r[1])  BY <2>0, <4>1 DEF Reload, TypeOK
      <4>2. QED  BY <2>9, <4>1 DEF StartServices, TypeOK
    <3>4. unloaded' \in [Servers -> SUBSET Files]
      BY <2>0, <2>9, <3>2 DEF StartServices, KeptFromATS, TypeOK
    <3>5. QED  BY <2>9, <3>1, <3>3, <3>4 DEF StartServices, TypeOK
  <2>10. CASE StartServicesFails(r)
    <3>1. run[r].changed \subseteq Files  BY <2>0 DEF RunRecords
    <3>2. /\ GitCommitAndExit(r) /\ Fault("services") /\ KeptFromATS(r, run[r].changed)
          /\ UNCHANGED <<flagVars, content, disk, loaded, wanted, overtaken, skipped>>
      BY <2>10 DEF StartServicesFails
    <3>3. unloaded' \in [Servers -> SUBSET Files]
      BY <2>0, <3>1, <3>2 DEF KeptFromATS, TypeOK
    <3>4. /\ run' \in [Runs -> RunRecords]
          /\ lock' \in [Servers -> Jobs \cup {None}]
          /\ metadata' \in [Servers -> BOOLEAN]
      BY <3>2, ExitType
    <3>5. faults' \in Nat  BY <3>2, FaultType
    <3>6. QED  BY <3>2, <3>3, <3>4, <3>5 DEF TypeOK
  <2>11. CASE UpdateTrafficOps(r)
    <3>1. CASE GitCommitAndExit(r) /\ UNCHANGED Unlocking  BY <3>1, ExitType DEF TypeOK
    <3>2. CASE /\ run' = [run EXCEPT ![r].pc = "send",
                    ![r].seen = getServerUpdateStatus.update[<<r[1], AckKind(r)>>]]
               /\ UNCHANGED Continuing
      <4>1. AckKind(r) \in Kinds  BY DEF AckKind
      <4>2. getServerUpdateStatus.update[<<r[1], AckKind(r)>>] \in Nat
        BY <2>0, <4>1, StatusType DEF TypeOK
      <4>3. run' \in [Runs -> RunRecords]  BY <2>0, <3>2, <4>2 DEF TypeOK, RunRecords
      <4>4. QED  BY <3>2, <4>3 DEF TypeOK
    <3>3. QED  BY <2>11, <3>1, <3>2 DEF UpdateTrafficOps
  <2>12. ASSUME sendUpdate(r)
         PROVE  /\ FlagsTypeOK'
                /\ overtaken' \in [Servers -> SUBSET Files]
                /\ skipped' \in [Servers -> SUBSET Files]
    <3>1. AckKind(r) \in Kinds  BY DEF AckKind
    <3>2. run[r].seen \in Nat  BY <2>0 DEF RunRecords
    <3>3. FlagsTypeOK'
      BY <2>0, <2>12, <3>1, <3>2
      DEF sendUpdate, ReportApplied, SetApplyUpdateForServerWithTime, TypeOK
    <3>4. \A before \in SUBSET Files : \A new, k : Excused(before, new, k) \in SUBSET Files
      BY DEF Excused, FilesUnder
    <3>5. QED  BY <2>0, <2>12, <3>3, <3>4 DEF sendUpdate, TypeOK
  <2>13. CASE Send(r)
    BY <2>12, <2>13, ExitType DEF Send, sendUpdate, TypeOK
  <2>14. CASE SendAgain(r)
    BY <2>12, <2>14 DEF SendAgain, sendUpdate, Fault, TypeOK
  <2>15. CASE TrafficOpsFails(r)
    <3>1. GitCommitAndExit(r) /\ Fault("traffic_ops")  BY <2>15 DEF TrafficOpsFails
    <3>2. UNCHANGED <<flagVars, content, disk, loaded, history>>
      BY <2>15 DEF TrafficOpsFails
    <3>3. /\ run' \in [Runs -> RunRecords]
          /\ lock' \in [Servers -> Jobs \cup {None}]
          /\ metadata' \in [Servers -> BOOLEAN]
      BY <3>1, ExitType
    <3>4. faults' \in Nat  BY <3>1, FaultType
    <3>5. QED  BY <3>2, <3>3, <3>4 DEF TypeOK
  <2>16. CASE Crash(r)
    <3>1. disk' \in [Servers -> [Files -> Nat]]
      BY <2>16, DiskType DEF Crash, TypeOK
    <3>2. run[r].changed \subseteq Files /\ Changes(r) \subseteq Files
      BY <2>0 DEF RunRecords, Changes, FilesOf, Files
    <3>3. \E files \in SUBSET Files : KeptFromATS(r, files)  BY <2>16, <3>2 DEF Crash
    <3>4. unloaded' \in [Servers -> SUBSET Files]  BY <2>0, <3>3 DEF KeptFromATS, TypeOK
    <3>5. /\ Gone(r) /\ Fault("crash")
          /\ UNCHANGED <<flagVars, content, loaded, metadata, wanted, overtaken, skipped>>
      BY <2>16 DEF Crash
    <3>6. /\ run' \in [Runs -> RunRecords]
          /\ lock' \in [Servers -> Jobs \cup {None}]
          /\ faults' \in Nat
      BY <3>5, GoneType, FaultType
    <3>7. QED  BY <3>1, <3>4, <3>5, <3>6 DEF TypeOK
  <2>17. QED
    BY <1>7, <2>2, <2>3, <2>4, <2>5, <2>6, <2>7, <2>8, <2>9, <2>10, <2>11, <2>13,
       <2>14, <2>15, <2>16 DEF Step
<1>8. CASE UNCHANGED vars
  BY <1>8 DEF vars, flagVars, cacheVars, history, TypeOK, FlagsTypeOK
<1>9. QED
  BY <1>1, <1>2, <1>3, <1>4, <1>5, <1>6, <1>7, <1>8 DEF Next

LEMMA TypeInit == Init => TypeOK
BY NoRunType DEF Init, FlagsInit, TypeOK, FlagsTypeOK

(* Every variable keeps its type, whatever fails and whoever overlaps.     *)
THEOREM TypeCorrect == Spec => []TypeOK
<1>1. Init => TypeOK  BY TypeInit
<1>2. TypeOK /\ [Next]_vars => TypeOK'  BY TypeStep
<1>3. QED  BY <1>1, <1>2, PTL DEF Spec

(***************************************************************************)
(* The inductive invariant.  A revision on disk, fetched or asked for is   *)
(* one Traffic Ops has had.  A run holds its server's lock; past           *)
(* GetConfigFileList it carries every request it is not late for, up to    *)
(* the report; and past ProcessConfigFiles, if its audits succeeded, it    *)
(* has written what it carries or counts it as skipped.                    *)
(***************************************************************************)
RevisionsExist ==
    \A s \in Servers, f \in Files :
        disk[s][f] <= content[f] /\ wanted[s][f] <= content[f]

FetchedExists(r, f) ==
    /\ run[r].got[f] <= content[f]
    /\ run[r].pc = "process" => disk[r[1]][f] <= run[r].got[f]

Carried(r, f) == f \in run[r].late \/ run[r].got[f] >= wanted[r[1]][f]

RequestsCarried(r, f) ==
    /\ (/\ run[r].pc \in {"process", "services", "report"}
        /\ f \in FilesOf(run[r].scope))
       => Carried(r, f)
    /\ (run[r].pc = "send" /\ f \in FilesUnder(AckKind(r)))
       => (Carried(r, f) \/ update[<<r[1], AckKind(r)>>] > run[r].seen)

CarriedWritten(r, f) ==
    (/\ run[r].pc \in {"services", "report", "send"}
     /\ run[r].needs # "Failed"
     /\ f \in FilesOf(run[r].scope))
    => (f \in run[r].skipped \/ disk[r[1]][f] = run[r].got[f])

RunInv(r) ==
    /\ run[r].pc # "idle" => lock[r[1]] = r[2]
    /\ run[r].pc = "send" => run[r].needs # "Failed"
    /\ \A f \in Files : FetchedExists(r, f) /\ RequestsCarried(r, f) /\ CarriedWritten(r, f)

Inv ==
    /\ TypeOK
    /\ RevisionsExist
    /\ \A r \in Runs : RunInv(r)
    /\ AcknowledgedIsApplied

(* Two runs under way on one server are the same run.                      *)
LEMMA Alone ==
    ASSUME Inv, NEW r \in Runs, NEW q \in Runs, q # r, q[1] = r[1],
           run[r].pc # "idle" \/ lock[r[1]] = None
    PROVE  run[q].pc = "idle"
<1>1. q[2] # r[2] /\ q[2] \in Jobs  OBVIOUS
<1>2. None \notin Jobs  BY PropagationAssumption
<1>3. QED  BY <1>1, <1>2 DEF Inv, RunInv

(* A step of one run that changes neither data nor requests leaves what is *)
(* known of the other runs alone.                                          *)
LEMMA OtherRuns ==
    ASSUME Inv, NEW r \in Runs, NEW q \in Runs, q # r,
           run[r].pc # "idle" \/ lock[r[1]] = None,
           run'[q] = run[q],
           UNCHANGED <<content, update, wanted>>,
           \A s \in Servers : s # r[1] => disk'[s] = disk[s] /\ lock'[s] = lock[s]
    PROVE  RunInv(q)'
<1>1. RunInv(q)  BY DEF Inv
<1>2. CASE q[1] = r[1]
  <2>1. run[q].pc = "idle"  BY <1>2, Alone
  <2>2. QED
    BY <1>1, <2>1 DEF RunInv, FetchedExists, RequestsCarried, CarriedWritten
<1>3. CASE q[1] # r[1]
  <2>1. disk'[q[1]] = disk[q[1]] /\ lock'[q[1]] = lock[q[1]]  BY <1>3
  <2>2. AckKind(q)' = AckKind(q)  BY DEF AckKind
  <2>3. \A f \in Files : Carried(q, f)' <=> Carried(q, f)  BY DEF Carried
  <2>4. \A f \in Files :
          /\ FetchedExists(q, f) => FetchedExists(q, f)'
          /\ RequestsCarried(q, f) => RequestsCarried(q, f)'
          /\ CarriedWritten(q, f) => CarriedWritten(q, f)'
    BY <2>1, <2>2, <2>3 DEF FetchedExists, RequestsCarried, CarriedWritten
  <2>5. QED  BY <1>1, <2>1, <2>4 DEF RunInv
<1>4. QED  BY <1>2, <1>3

(* A run that is gone is bound by nothing.                                 *)
LEMMA GoneRun ==
    ASSUME Inv, NEW r \in Runs, Gone(r), UNCHANGED content
    PROVE  RunInv(r)'
<1>1. run'[r] = NoRun  BY DEF Inv, TypeOK, Gone
<1>2. \A f \in Files : NoRun.got[f] = 0 /\ content[f] \in Nat  BY DEF NoRun, Inv, TypeOK
<1>3. NoRun.pc = "idle"  BY DEF NoRun
<1>4. QED
  BY <1>1, <1>2, <1>3 DEF RunInv, FetchedExists, RequestsCarried, CarriedWritten

(* Files, requests and reports as they were: what the caches hold is       *)
(* judged as before.                                                       *)
LEMMA SameVerdict ==
    ASSUME Inv, UNCHANGED <<content, disk, update, apply, wanted, overtaken, skipped>>
    PROVE  RevisionsExist' /\ AcknowledgedIsApplied'
BY DEF Inv, RevisionsExist, AcknowledgedIsApplied, Pending, Current

LEMMA EndStep ==
    ASSUME Inv, TypeOK', NEW r \in Runs, run[r].pc # "idle", Gone(r),
           UNCHANGED <<flagVars, content, disk, wanted, overtaken, skipped>>
    PROVE  Inv'
<1> USE DEF flagVars, history
<1>1. \A q \in Runs : q # r => run'[q] = run[q]  BY DEF Gone, Inv, TypeOK
<1>2. \A s \in Servers : s # r[1] => lock'[s] = lock[s]  BY DEF Gone, Inv, TypeOK
<1>3. \A q \in Runs : q # r => RunInv(q)'  BY <1>1, <1>2, OtherRuns
<1>4. QED  BY <1>3, GoneRun, SameVerdict DEF Inv

(* A run that goes on without writing a file.                              *)
LEMMA GoOnStep ==
    ASSUME Inv, TypeOK', NEW r \in Runs, NEW new, run' = [run EXCEPT ![r] = new],
           run[r].pc # "idle" \/ lock[r[1]] = None, RunInv(r)',
           \A s \in Servers : s # r[1] => lock'[s] = lock[s],
           UNCHANGED <<flagVars, content, disk, wanted, overtaken, skipped>>
    PROVE  Inv'
<1> USE DEF flagVars, history
<1>1. \A q \in Runs : q # r => run'[q] = run[q]  BY DEF Inv, TypeOK
<1>2. \A q \in Runs : q # r => RunInv(q)'  BY <1>1, OtherRuns
<1>3. QED  BY <1>2, SameVerdict DEF Inv

(* Replacing files only brings newer revisions, of Traffic Ops.            *)
LEMMA ReplaceStep ==
    ASSUME Inv, NEW r \in Runs, NEW done, run[r].pc = "process", replaceCfgFile(r, done),
           UNCHANGED content
    PROVE  /\ \A s \in Servers, f \in Files : disk[s][f] <= disk'[s][f] /\ disk'[s][f] <= content[f]
           /\ \A s \in Servers : s # r[1] => disk'[s] = disk[s]
           /\ \A f \in Files :
                disk'[r[1]][f] = IF f \in done THEN run[r].got[f] ELSE disk[r[1]][f]
<1>1. r[1] \in Servers /\ disk \in [Servers -> [Files -> Nat]] /\ run[r].got \in [Files -> Nat]
  BY DEF Inv, TypeOK, RunRecords
<1>2. \A f \in Files : disk[r[1]][f] <= run[r].got[f] /\ run[r].got[f] <= content[f]
  BY DEF Inv, RunInv, FetchedExists
<1>3. \A s \in Servers : s # r[1] => disk'[s] = disk[s]  BY <1>1 DEF replaceCfgFile
<1>4. disk'[r[1]] = [f \in Files |-> IF f \in done THEN run[r].got[f] ELSE disk[r[1]][f]]
  BY <1>1 DEF replaceCfgFile
<1>5. \A s \in Servers, f \in Files : disk[s][f] <= content[f]  BY DEF Inv, RevisionsExist
<1>6. QED  BY <1>1, <1>2, <1>3, <1>4, <1>5

LEMMA NewerVerdict ==
    ASSUME Inv, TypeOK', UNCHANGED <<content, update, apply, wanted, overtaken, skipped>>,
           \A s \in Servers, f \in Files : disk[s][f] <= disk'[s][f] /\ disk'[s][f] <= content[f]
    PROVE  RevisionsExist' /\ AcknowledgedIsApplied'
<1>1. RevisionsExist'  BY DEF Inv, RevisionsExist
<1>2. ASSUME NEW s \in Servers, NEW f \in Files
      PROVE  disk[s][f] >= wanted[s][f] => disk'[s][f] >= wanted'[s][f]
  <2>1. disk[s][f] \in Nat /\ disk'[s][f] \in Nat /\ wanted[s][f] \in Nat  BY DEF Inv, TypeOK
  <2>2. QED  BY <2>1
<1>3. AcknowledgedIsApplied'
  BY <1>2 DEF Inv, AcknowledgedIsApplied, Pending, Current
<1>4. QED  BY <1>1, <1>3

LEMMA FilesReported == \A r : FilesUnder(AckKind(r)) \subseteq FilesOf(run[r].scope)
BY DEF FilesUnder, FlagOf, AckKind, FilesOf, Files

(* The report of a run.                                                    *)
LEMMA ReportVerdict ==
    ASSUME Inv, NEW r \in Runs, run[r].pc = "send", sendUpdate(r)
    PROVE  RevisionsExist' /\ AcknowledgedIsApplied'
<1>1. RevisionsExist'  BY DEF sendUpdate, Inv, RevisionsExist
<1>2. ASSUME NEW s \in Servers, NEW f \in Files,
             ~Pending(Current, s, FlagOf(f))', f \notin (overtaken[s] \cup skipped[s])'
      PROVE  disk[s][f] >= wanted[s][f]
  <2>0. r[1] \in Servers /\ AckKind(r) \in Kinds /\ FlagOf(f) \in Kinds  BY DEF AckKind, FlagOf
  <2>1. /\ apply' = [apply EXCEPT ![<<r[1], AckKind(r)>>] = run[r].seen]
        /\ update' = update
    BY DEF sendUpdate, ReportApplied, SetApplyUpdateForServerWithTime
  <2>2. CASE s = r[1] /\ FlagOf(f) = AckKind(r)
    <3>1. f \in FilesUnder(AckKind(r)) /\ f \in FilesOf(run[r].scope)
      BY <2>2, FilesReported DEF FilesUnder
    <3>2. overtaken'[s] = Excused(overtaken[s], run[r].late, AckKind(r))
      BY <2>2 DEF sendUpdate, Inv, TypeOK
    <3>3. skipped'[s] = Excused(skipped[s], run[r].skipped, AckKind(r))
      BY <2>2 DEF sendUpdate, Inv, TypeOK
    <3>4. f \notin run[r].late /\ f \notin run[r].skipped  BY <1>2, <3>1, <3>2, <3>3 DEF Excused
    <3>5. apply'[<<s, AckKind(r)>>] = run[r].seen
      BY <2>0, <2>1, <2>2 DEF Inv, TypeOK, FlagsTypeOK
    <3>6. ~(update[<<s, AckKind(r)>>] > run[r].seen)
      BY <1>2, <2>1, <2>2, <3>5 DEF Pending, Current
    <3>7. run[r].got[f] >= wanted[s][f]
      BY <2>2, <3>1, <3>4, <3>6 DEF Inv, RunInv, RequestsCarried, Carried
    <3>8. disk[s][f] = run[r].got[f]
      BY <2>2, <3>1, <3>4 DEF Inv, RunInv, CarriedWritten
    <3>9. QED  BY <3>7, <3>8
  <2>3. CASE ~(s = r[1] /\ FlagOf(f) = AckKind(r))
    <3>1. apply'[<<s, FlagOf(f)>>] = apply[<<s, FlagOf(f)>>]
      BY <2>0, <2>1, <2>3 DEF Inv, TypeOK, FlagsTypeOK
    <3>2. ~Pending(Current, s, FlagOf(f))  BY <1>2, <2>1, <3>1 DEF Pending, Current
    <3>3. s = r[1] => f \notin FilesUnder(AckKind(r))  BY <2>3 DEF FilesUnder
    <3>4. f \notin overtaken[s] \cup skipped[s]
      BY <1>2, <3>3 DEF sendUpdate, Inv, TypeOK, Excused
    <3>5. QED  BY <3>2, <3>4 DEF Inv, AcknowledgedIsApplied
  <2>4. QED  BY <2>2, <2>3
<1>3. AcknowledgedIsApplied'
  BY <1>2 DEF AcknowledgedIsApplied, sendUpdate
<1>4. QED  BY <1>1, <1>3

(* A request: whoever has fetched its files and may still report it        *)
(* applied is late for it.                                                 *)
LEMMA AskStep ==
    ASSUME Inv, TypeOK', NEW S, NEW k \in Kinds, NEW now, Ask(S, k, now),
           \A f \in Files : content[f] <= content'[f]
    PROVE  Inv'
<1>1. /\ disk' = disk /\ lock' = lock /\ apply' = apply /\ skipped' = skipped
      /\ update' = [p \in Flags |-> IF p \in Row(S, k) THEN now ELSE update[p]]
  BY DEF Ask, QueueUpdateForServers, cacheVars
<1>2. ASSUME NEW s \in Servers, NEW f \in Files
      PROVE  /\ content[f] \in Nat /\ content'[f] \in Nat /\ wanted[s][f] \in Nat /\ disk[s][f] \in Nat
             /\ wanted'[s][f] = IF s \in S /\ f \in FilesUnder(k) THEN content'[f] ELSE wanted[s][f]
  BY DEF Ask, Inv, TypeOK
<1>3. \A s \in Servers, j \in Kinds :
        update'[<<s, j>>] = IF s \in S /\ j = k THEN now ELSE update[<<s, j>>]
  BY <1>1 DEF Row
<1>4. RevisionsExist'
  BY <1>1, <1>2 DEF Inv, RevisionsExist
<1>5. ASSUME NEW q \in Runs  PROVE RunInv(q)'
  <2> DEFINE x == run[q]
             y == run'[q]
             hit == q[1] \in S /\ Overtakes(q, now)
  <2>0. x \in RunRecords /\ RunInv(q) /\ q[1] \in Servers  BY DEF Inv, TypeOK
  <2>1. y = IF hit THEN [x EXCEPT !.late = @ \cup FilesUnder(k)] ELSE x  BY DEF Ask
  <2>2. /\ y.pc = x.pc /\ y.scope = x.scope /\ y.got = x.got /\ y.needs = x.needs
        /\ y.seen = x.seen /\ y.skipped = x.skipped
        /\ y.late = IF hit THEN x.late \cup FilesUnder(k) ELSE x.late
    BY <2>0, <2>1 DEF RunRecords
  <2> HIDE DEF x, y
  <2>3. AckKind(q)' = AckKind(q) /\ AckKind(q) \in Kinds  BY <2>2 DEF AckKind, x, y
  <2>4. ASSUME NEW f \in Files  PROVE FetchedExists(q, f)' /\ CarriedWritten(q, f)'
    <3>1. x.got[f] \in Nat  BY <2>0 DEF RunRecords, x
    <3>2. FetchedExists(q, f) /\ CarriedWritten(q, f)  BY <2>0 DEF RunInv
    <3>3. FetchedExists(q, f)'  BY <1>1, <1>2, <2>0, <2>2, <3>1, <3>2 DEF FetchedExists, x, y
    <3>4. CarriedWritten(q, f)'  BY <1>1, <2>2, <3>2 DEF CarriedWritten, x, y
    <3>5. QED  BY <3>3, <3>4
  <2>5. ASSUME NEW f \in Files  PROVE RequestsCarried(q, f)'
    <3>1. RequestsCarried(q, f)  BY <2>0 DEF RunInv
    <3>2. (~(q[1] \in S /\ f \in FilesUnder(k)) \/ hit) => (Carried(q, f) => Carried(q, f)')
      BY <1>2, <2>0, <2>2 DEF Carried, x, y
    <3>3. (hit /\ f \in FilesUnder(k)) => Carried(q, f)'  BY <2>2 DEF Carried, y
    <3>4. CASE x.pc \in {"process", "services", "report"}
      <4>1. q[1] \in S => hit  BY <3>4 DEF Overtakes, x
      <4>2. QED  BY <2>2, <3>1, <3>2, <3>3, <3>4, <4>1 DEF RequestsCarried, x, y
    <3>5. CASE x.pc = "send" /\ f \in FilesUnder(AckKind(q))
      <4>1. f \in FilesUnder(k) => k = AckKind(q)  BY <3>5 DEF FilesUnder
      <4>2. x.seen \in Nat /\ now \in Nat
        BY <2>0 DEF RunRecords, x, Ask, QueueUpdateForServers, Stamps, Inv, TypeOK, FlagsTypeOK
      <4>3. CASE q[1] \in S /\ f \in FilesUnder(k)
        <5>1. hit \/ now > x.seen  BY <3>5, <4>2, <4>3 DEF Overtakes, x
        <5>2. update'[<<q[1], AckKind(q)>>] = now  BY <1>3, <2>0, <2>3, <4>1, <4>3
        <5>3. QED  BY <2>2, <2>3, <3>3, <3>5, <4>3, <5>1, <5>2 DEF RequestsCarried, x, y
      <4>4. CASE ~(q[1] \in S /\ f \in FilesUnder(k))
        <5>1. ~(q[1] \in S /\ AckKind(q) = k)  BY <3>5, <4>4
        <5>2. update'[<<q[1], AckKind(q)>>] = update[<<q[1], AckKind(q)>>]
          BY <1>3, <2>0, <2>3, <5>1
        <5>3. QED  BY <2>2, <2>3, <3>1, <3>2, <3>5, <4>4, <5>2 DEF RequestsCarried, x, y
      <4>5. QED  BY <4>3, <4>4
    <3>6. CASE ~(x.pc \in {"process", "services", "report"})
               /\ ~(x.pc = "send" /\ f \in FilesUnder(AckKind(q)))
      BY <2>2, <2>3, <3>6 DEF RequestsCarried, x, y
    <3>7. QED  BY <3>4, <3>5, <3>6
  <2>6. QED  BY <1>1, <2>0, <2>2, <2>4, <2>5 DEF RunInv, x, y
<1>6. ASSUME NEW s \in Servers, NEW f \in Files,
             ~Pending(Current, s, FlagOf(f))', f \notin (overtaken[s] \cup skipped[s])'
      PROVE  disk[s][f] >= wanted'[s][f]
  <2>0. FlagOf(f) \in Kinds  BY DEF FlagOf
  <2>1. overtaken'[s] = IF s \in S /\ now <= apply[<<s, k>>]
                        THEN overtaken[s] \cup FilesUnder(k) ELSE overtaken[s]
    BY DEF Ask
  <2>2. ~(update'[<<s, FlagOf(f)>>] > apply[<<s, FlagOf(f)>>])
    BY <1>1, <1>6 DEF Pending, Current
  <2>3. now \in Nat /\ apply[<<s, k>>] \in Nat
    BY DEF Ask, QueueUpdateForServers, Stamps, Inv, TypeOK, FlagsTypeOK
  <2>4. ~(s \in S /\ FlagOf(f) = k)
    <3> SUFFICES ASSUME s \in S, FlagOf(f) = k  PROVE FALSE  OBVIOUS
    <3>1. update'[<<s, k>>] = now  BY <1>3
    <3>2. now <= apply[<<s, k>>]  BY <2>2, <2>3, <3>1
    <3>3. f \in FilesUnder(k)  BY DEF FilesUnder
    <3>4. QED  BY <1>6, <2>1, <3>2, <3>3
  <2>5. wanted'[s][f] = wanted[s][f]  BY <1>2, <2>4 DEF FilesUnder
  <2>6. ~Pending(Current, s, FlagOf(f))  BY <1>3, <2>0, <2>2, <2>4 DEF Pending, Current
  <2>7. f \notin overtaken[s] \cup skipped[s]  BY <1>1, <1>6, <2>1
  <2>8. QED  BY <2>5, <2>6, <2>7 DEF Inv, AcknowledgedIsApplied
<1>7. AcknowledgedIsApplied'  BY <1>1, <1>6 DEF AcknowledgedIsApplied
<1>8. QED  BY <1>4, <1>5, <1>7 DEF Inv

(* A request taken back: nothing is wanted of the files under its flag.    *)
LEMMA ForgetStep ==
    ASSUME Inv, TypeOK', NEW S, NEW k \in Kinds, Forget(S, k),
           \A s \in Servers, j \in Kinds : ~(s \in S /\ j = k) =>
             update'[<<s, j>>] = update[<<s, j>>] /\ apply'[<<s, j>>] = apply[<<s, j>>]
    PROVE  Inv'
<1>1. /\ disk' = disk /\ lock' = lock /\ content' = content /\ run' = run
      /\ overtaken' = overtaken /\ skipped' = skipped
  BY DEF Forget, cacheVars
<1>2. ASSUME NEW s \in Servers, NEW f \in Files
      PROVE  /\ content[f] \in Nat /\ wanted[s][f] \in Nat /\ disk[s][f] \in Nat
             /\ wanted'[s][f] = IF s \in S /\ f \in FilesUnder(k) THEN 0 ELSE wanted[s][f]
  BY DEF Forget, Inv, TypeOK
<1>3. RevisionsExist'  BY <1>1, <1>2 DEF Inv, RevisionsExist
<1>4. ASSUME NEW q \in Runs  PROVE RunInv(q)'
  <2>0. run[q] \in RunRecords /\ RunInv(q) /\ q[1] \in Servers  BY DEF Inv, TypeOK
  <2>1. AckKind(q)' = AckKind(q) /\ AckKind(q) \in Kinds  BY <1>1 DEF AckKind
  <2>2. ASSUME NEW f \in Files
        PROVE  FetchedExists(q, f)' /\ CarriedWritten(q, f)' /\ RequestsCarried(q, f)'
    <3>1. run[q].got[f] \in Nat  BY <2>0 DEF RunRecords
    <3>2. FetchedExists(q, f) /\ CarriedWritten(q, f) /\ RequestsCarried(q, f)
      BY <2>0 DEF RunInv
    <3>3. FetchedExists(q, f)' /\ CarriedWritten(q, f)'
      BY <1>1, <3>2 DEF FetchedExists, CarriedWritten
    <3>4. Carried(q, f) => Carried(q, f)'  BY <1>1, <1>2, <2>0, <3>1 DEF Carried
    <3>5. (q[1] \in S /\ f \in FilesUnder(k)) => Carried(q, f)'
      BY <1>1, <1>2, <2>0, <3>1 DEF Carried
    <3>6. f \in FilesUnder(AckKind(q)) =>
            \/ q[1] \in S /\ f \in FilesUnder(k)
            \/ update'[<<q[1], AckKind(q)>>] = update[<<q[1], AckKind(q)>>]
      BY <2>0, <2>1 DEF FilesUnder
    <3>7. RequestsCarried(q, f)'
      BY <1>1, <2>1, <3>2, <3>4, <3>5, <3>6 DEF RequestsCarried
    <3>8. QED  BY <3>3, <3>7
  <2>3. QED  BY <1>1, <2>0, <2>2 DEF RunInv
<1>5. AcknowledgedIsApplied'
  <2> SUFFICES ASSUME NEW s \in Servers, NEW f \in Files,
                      ~Pending(Current, s, FlagOf(f))',
                      f \notin overtaken[s] \cup skipped[s]
               PROVE  disk[s][f] >= wanted'[s][f]
    BY <1>1 DEF AcknowledgedIsApplied
  <2>1. CASE s \in S /\ FlagOf(f) = k
    <3>1. wanted'[s][f] = 0  BY <1>2, <2>1 DEF FilesUnder
    <3>2. QED  BY <1>2, <3>1
  <2>2. CASE ~(s \in S /\ FlagOf(f) = k)
    <3>1. FlagOf(f) \in Kinds  BY DEF FlagOf
    <3>2. ~Pending(Current, s, FlagOf(f))  BY <2>2, <3>1 DEF Pending, Current
    <3>3. wanted'[s][f] = wanted[s][f]  BY <1>2, <2>2 DEF FilesUnder
    <3>4. QED  BY <3>2, <3>3 DEF Inv, AcknowledgedIsApplied
  <2>3. QED  BY <2>1, <2>2
<1>6. QED  BY <1>3, <1>4, <1>5 DEF Inv

(* Every step keeps the invariant.                                         *)
LEMMA InvStep ==
    ASSUME Inv, [Next]_vars
    PROVE  Inv'
<1>0. TypeOK /\ TypeOK'  BY TypeStep DEF Inv
<1>1. ASSUME NEW f \in Files, Change(f)  PROVE Inv'
  <2> USE DEF flagVars, cacheVars, history
  <2>1. \A g \in Files : content[g] \in Nat /\ content'[g] \in Nat /\ content[g] <= content'[g]
    BY <1>0, <1>1 DEF Change, ChangeData, TypeOK
  <2>2. UNCHANGED <<disk, lock, update, apply, wanted, overtaken, skipped, run>>
    BY <1>1 DEF Change
  <2>3. RevisionsExist'
    BY <1>0, <2>1, <2>2 DEF Inv, RevisionsExist, TypeOK
  <2>4. AcknowledgedIsApplied'
    BY <2>2 DEF Inv, AcknowledgedIsApplied, Pending, Current
  <2>5. ASSUME NEW q \in Runs  PROVE RunInv(q)'
    <3>1. RunInv(q) /\ AckKind(q)' = AckKind(q)  BY <2>2 DEF Inv, AckKind
    <3>2. \A g \in Files : run[q].got[g] \in Nat  BY <1>0 DEF TypeOK, RunRecords
    <3>3. \A g \in Files : FetchedExists(q, g)'
      BY <2>1, <2>2, <3>1, <3>2 DEF RunInv, FetchedExists
    <3>4. \A g \in Files : RequestsCarried(q, g)' /\ CarriedWritten(q, g)'
      BY <2>2, <3>1 DEF RunInv, RequestsCarried, Carried, CarriedWritten
    <3>5. QED  BY <2>2, <3>1, <3>3, <3>4 DEF RunInv
  <2>6. QED  BY <1>0, <2>3, <2>4, <2>5 DEF Inv
<1>2. ASSUME NEW S \in QueueSets, Queue(S)  PROVE Inv'
  <2>1. PICK now : Ask(S, "config", now)  BY <1>2 DEF Queue
  <2>2. \A f \in Files : content[f] <= content'[f]  BY <1>0, <1>2 DEF Queue, TypeOK
  <2>3. QED  BY <1>0, <2>1, <2>2, AskStep
<1>3. ASSUME NEW S \in QueueSets, Invalidate(S)  PROVE Inv'
  <2>1. PICK now : Ask(S, FlagOf(RevalFile), now)  BY <1>3 DEF Invalidate
  <2>2. ChangeData(RevalFile) /\ FlagOf(RevalFile) \in Kinds  BY <1>3 DEF Invalidate, FlagOf
  <2>3. \A f \in Files : content[f] <= content'[f]  BY <1>0, <2>2 DEF ChangeData, TypeOK
  <2>4. QED  BY <1>0, <2>1, <2>2, <2>3, AskStep
<1>4. ASSUME NEW S \in QueueSets, Dequeue(S)  PROVE Inv'
  <2>1. \A s \in Servers, j \in Kinds : ~(s \in S /\ j = "config") =>
          update'[<<s, j>>] = update[<<s, j>>] /\ apply'[<<s, j>>] = apply[<<s, j>>]
    BY <1>4 DEF Dequeue, DequeueUpdateForServers, Row
  <2>2. QED  BY <1>0, <1>4, <2>1, ForgetStep DEF Dequeue
<1>5. ASSUME NEW s \in Servers, NEW k \in Kinds, Clear(s, k)  PROVE Inv'
  <2>1. PICK now : SetApplyUpdateForServer(s, k, now)  BY <1>5 DEF Clear
  <2>2. \A t \in Servers, j \in Kinds : ~(t \in {s} /\ j = k) =>
          update'[<<t, j>>] = update[<<t, j>>] /\ apply'[<<t, j>>] = apply[<<t, j>>]
    BY <1>0, <2>1 DEF SetApplyUpdateForServer, TypeOK, FlagsTypeOK
  <2>3. QED  BY <1>0, <1>5, <2>2, ForgetStep DEF Clear
<1>6. ASSUME UNCHANGED <<update, apply, content, cacheVars, run, history>>  PROVE Inv'
  <2> USE DEF cacheVars, history
  <2>1. RevisionsExist' /\ AcknowledgedIsApplied'  BY <1>6, SameVerdict
  <2>2. \A q \in Runs : RunInv(q)'
    BY <1>6 DEF Inv, RunInv, FetchedExists, RequestsCarried, Carried, CarriedWritten, AckKind
  <2>3. QED  BY <1>0, <2>1, <2>2 DEF Inv
<1>7. ASSUME NEW r \in Runs, Start(r) \/ Step(r)  PROVE Inv'
  <2> USE DEF flagVars, history, Unlocking, Continuing
  <2>0. /\ run[r] \in RunRecords /\ r[1] \in Servers /\ r[2] \in Jobs /\ RunInv(r)
        /\ \A f \in Files : run[r].got[f] \in Nat /\ content[f] \in Nat
    BY <1>0 DEF TypeOK, RunRecords, Inv
  <2> DEFINE early == {"check", "recheck", "checkReval", "generate"}
  (* Before GetConfigFileList only the lock matters.                       *)
  <2>1. ASSUME NEW new \in RunRecords, run' = [run EXCEPT ![r] = new],
               new.pc \in early, \A f \in Files : new.got[f] <= content[f],
               run[r].pc # "idle" \/ lock[r[1]] = None, lock'[r[1]] = r[2],
               \A s \in Servers : s # r[1] => lock'[s] = lock[s],
               UNCHANGED <<flagVars, content, disk, wanted, overtaken, skipped>>
        PROVE  Inv'
    <3>1. run'[r] = new  BY <1>0, <2>1 DEF TypeOK
    <3>2. RunInv(r)'
      BY <2>1, <3>1 DEF RunInv, FetchedExists, RequestsCarried, CarriedWritten
    <3>3. QED  BY <1>0, <2>1, <3>2, GoOnStep
  <2>2. ASSUME NEW pc \in {"checkReval", "recheck", "generate"}, Goto(r, pc), run[r].pc \in early,
               UNCHANGED Continuing
        PROVE  Inv'
    <3> DEFINE new == [run[r] EXCEPT !.pc = pc]
    <3>1. new \in RunRecords /\ new.pc = pc /\ new.got = run[r].got  BY <2>0 DEF RunRecords
    <3>2. run' = [run EXCEPT ![r] = new]  BY <1>0, <2>2 DEF Goto, TypeOK
    <3>3. \A f \in Files : run[r].got[f] <= content[f]  BY <2>0 DEF RunInv, FetchedExists
    <3>4. lock[r[1]] = r[2]  BY <2>0, <2>2 DEF RunInv
    <3> HIDE DEF new
    <3>5. QED  BY <2>1, <2>2, <3>1, <3>2, <3>3, <3>4
  <2>3. CASE Start(r)
    <3> DEFINE new == IF r[2] = "syncds" THEN [NoRun EXCEPT !.pc = "check"]
                      ELSE [NoRun EXCEPT !.pc = "checkReval", !.scope = "reval"]
    <3>1. new \in RunRecords /\ new.pc \in early /\ new.got = NoRun.got
      BY NoRunType DEF RunRecords
    <3>2. \A f \in Files : NoRun.got[f] = 0  BY DEF NoRun
    <3>3. run' = [run EXCEPT ![r] = new]  BY <2>3 DEF Start
    <3>4. lock[r[1]] = None /\ lock' = [lock EXCEPT ![r[1]] = r[2]]
      BY <2>3 DEF Start, LockFree
    <3>5. UNCHANGED <<flagVars, content, disk, wanted, overtaken, skipped>>  BY <2>3 DEF Start
    <3> HIDE DEF new
    <3>6. lock'[r[1]] = r[2] /\ \A s \in Servers : s # r[1] => lock'[s] = lock[s]
      BY <1>0, <2>0, <3>4 DEF TypeOK
    <3>7. \A f \in Files : new.got[f] <= content[f]  BY <2>0, <3>1, <3>2
    <3>8. QED  BY <2>1, <3>1, <3>3, <3>4, <3>5, <3>6, <3>7
  <2>4. CASE CheckSyncDSState(r)  BY <2>2, <2>4 DEF CheckSyncDSState
  <2>5. CASE RecheckParents(r)
    <3>1. CASE GitCommitAndExit(r) /\ UNCHANGED Unlocking
      BY <1>0, <2>5, <3>1, EndStep DEF GitCommitAndExit, RecheckParents
    <3>2. CASE Goto(r, "generate") /\ UNCHANGED Continuing
      BY <2>2, <2>5, <3>2 DEF RecheckParents
    <3>3. QED  BY <2>5, <3>1, <3>2 DEF RecheckParents
  <2>6. CASE CheckRevalidateState(r)
    <3>1. CASE GitCommitAndExit(r) /\ UNCHANGED Unlocking
      BY <1>0, <2>6, <3>1, EndStep DEF GitCommitAndExit, CheckRevalidateState
    <3>2. CASE /\ run' = [run EXCEPT ![r].pc = "generate", ![r].scope = "reval"]
               /\ UNCHANGED Continuing
      <4> DEFINE new == [run[r] EXCEPT !.pc = "generate", !.scope = "reval"]
      <4>1. new \in RunRecords /\ new.pc = "generate" /\ new.got = run[r].got
        BY <2>0 DEF RunRecords
      <4>2. run' = [run EXCEPT ![r] = new]  BY <1>0, <3>2 DEF TypeOK
      <4>3. \A f \in Files : run[r].got[f] <= content[f]  BY <2>0 DEF RunInv, FetchedExists
      <4>4. lock[r[1]] = r[2] /\ run[r].pc # "idle"
        BY <2>0, <2>6 DEF RunInv, CheckRevalidateState
      <4> HIDE DEF new
      <4>5. QED  BY <2>1, <3>2, <4>1, <4>2, <4>3, <4>4
    <3>3. QED  BY <2>6, <3>1, <3>2 DEF CheckRevalidateState
  <2>7. CASE PanicWithoutMetadata(r)
    BY <1>0, <2>7, EndStep DEF PanicWithoutMetadata
  <2>8. CASE GetConfigFileList(r)
    <3>1. run[r].pc = "generate" /\ lock[r[1]] = r[2] /\ UNCHANGED Continuing
      BY <2>0, <2>8 DEF GetConfigFileList, RunInv
    <3> DEFINE new == [run[r] EXCEPT !.pc = "process", !.got = content]
    <3>2. run' = [run EXCEPT ![r] = new]  BY <1>0, <2>8 DEF GetConfigFileList, TypeOK
    <3>3. new.pc = "process" /\ new.got = content  BY <2>0 DEF RunRecords
    <3>4. run'[r] = new  BY <1>0, <3>2 DEF TypeOK
    <3> HIDE DEF new
    <3>5. \A f \in Files : disk[r[1]][f] <= content[f] /\ wanted[r[1]][f] <= content[f]
      BY <2>0 DEF Inv, RevisionsExist
    <3>6. \A f \in Files : wanted[r[1]][f] \in Nat  BY <1>0, <2>0 DEF TypeOK
    <3>7. RunInv(r)'
      BY <2>0, <3>1, <3>3, <3>4, <3>5, <3>6
      DEF RunInv, FetchedExists, RequestsCarried, Carried, CarriedWritten
    <3>8. QED  BY <1>0, <3>1, <3>2, <3>7, GoOnStep
  <2>9. CASE ProcessConfigFiles(r)
    <3>1. PICK failed, unwritten, refused : ProcessFiles(r, failed, unwritten, refused)
      BY <2>9 DEF ProcessConfigFiles
    <3>2. run[r].pc = "process" /\ UNCHANGED <<flagVars, content, loaded, lock, metadata, history>>
      BY <2>9 DEF ProcessConfigFiles
    <3> DEFINE done == Changes(r) \ (failed \cup unwritten \cup refused)
               need == UpdateStatus(failed, Changes(r) \ (failed \cup refused))
               x == run[r]
               y == run'[r]
    <3>3. replaceCfgFile(r, done)  BY <3>1 DEF ProcessFiles
    <3>4. /\ y.pc = "services" /\ y.skipped = unwritten \cup refused /\ y.needs = need
          /\ y.scope = x.scope /\ y.got = x.got /\ y.late = x.late
      BY <1>0, <2>0, <3>1 DEF ProcessFiles, TypeOK, RunRecords
    <3>5. \A q \in Runs : q # r => run'[q] = run[q]  BY <1>0, <3>1 DEF ProcessFiles, TypeOK
    <3>6. need # "Failed" => failed = {}  BY DEF UpdateStatus
    <3>7. \A f \in FilesOf(x.scope) : f \in Changes(r) \/ disk[r[1]][f] = x.got[f]
      BY DEF Changes
    <3> HIDE DEF done, need, x, y
    <3>8. /\ \A s \in Servers, f \in Files :
               disk[s][f] <= disk'[s][f] /\ disk'[s][f] <= content[f]
          /\ \A s \in Servers : s # r[1] => disk'[s] = disk[s]
          /\ \A f \in Files : disk'[r[1]][f] = IF f \in done THEN x.got[f] ELSE disk[r[1]][f]
      BY <3>2, <3>3, ReplaceStep DEF x
    <3>9. \A q \in Runs : q # r => RunInv(q)'  BY <3>2, <3>5, <3>8, OtherRuns
    <3>10. \A f \in Files : CarriedWritten(r, f)'
      BY <3>4, <3>6, <3>7, <3>8 DEF CarriedWritten, done, y
    <3>11. \A f \in Files : FetchedExists(r, f)' /\ RequestsCarried(r, f)'
      BY <2>0, <3>2, <3>4 DEF RunInv, FetchedExists, RequestsCarried, Carried, x, y
    <3>12. RunInv(r)'  BY <2>0, <3>2, <3>4, <3>10, <3>11 DEF RunInv, y
    <3>13. RevisionsExist' /\ AcknowledgedIsApplied'  BY <1>0, <3>2, <3>8, NewerVerdict
    <3>14. QED  BY <1>0, <3>9, <3>12, <3>13 DEF Inv
  <2>10. CASE StartServices(r)
    <3>1. /\ run[r].pc = "services" /\ lock[r[1]] = r[2]
          /\ UNCHANGED <<flagVars, content, disk, lock, wanted, overtaken, skipped>>
      BY <2>0, <2>10 DEF StartServices, RunInv
    <3> DEFINE x == run[r]
               new == [x EXCEPT !.pc = "report",
                                !.needs = IF @ = "Needed" THEN "Successful" ELSE @]
    <3>2. run' = [run EXCEPT ![r] = new]  BY <1>0, <2>10 DEF StartServices, TypeOK
    <3>3. /\ new.pc = "report" /\ new.scope = x.scope /\ new.got = x.got
          /\ new.late = x.late /\ new.skipped = x.skipped
          /\ new.needs # "Failed" => x.needs # "Failed"
      BY <2>0 DEF RunRecords
    <3>4. run'[r] = new  BY <1>0, <3>2 DEF TypeOK
    <3> HIDE DEF new
    <3>5. RunInv(r)'
      BY <2>0, <3>1, <3>3, <3>4
      DEF RunInv, FetchedExists, RequestsCarried, Carried, CarriedWritten
    <3>6. QED  BY <1>0, <3>1, <3>2, <3>5, GoOnStep
  <2>11. CASE StartServicesFails(r)
    BY <1>0, <2>11, EndStep DEF StartServicesFails, GitCommitAndExit
  <2>12. CASE UpdateTrafficOps(r)
    <3>1. CASE GitCommitAndExit(r) /\ UNCHANGED Unlocking
      BY <1>0, <2>12, <3>1, EndStep DEF GitCommitAndExit, UpdateTrafficOps
    <3>2. CASE /\ PerformUpdate(r, getServerUpdateStatus)
               /\ run' = [run EXCEPT ![r].pc = "send",
                    ![r].seen = getServerUpdateStatus.update[<<r[1], AckKind(r)>>]]
               /\ UNCHANGED Continuing
      <4> DEFINE x == run[r]
                 new == [x EXCEPT !.pc = "send",
                           !.seen = getServerUpdateStatus.update[<<r[1], AckKind(r)>>]]
      <4>1. x.pc = "report" /\ lock[r[1]] = r[2] /\ x.needs # "Failed"
        BY <2>0, <2>12, <3>2 DEF UpdateTrafficOps, RunInv, PerformUpdate
      <4>2. run' = [run EXCEPT ![r] = new]  BY <1>0, <3>2 DEF TypeOK
      <4>3. /\ new.pc = "send" /\ new.scope = x.scope /\ new.got = x.got
            /\ new.late = x.late /\ new.skipped = x.skipped /\ new.needs = x.needs
        BY <2>0 DEF RunRecords
      <4>4. run'[r] = new  BY <1>0, <4>2 DEF TypeOK
      <4> HIDE DEF new
      <4>5. AckKind(r)' = AckKind(r)  BY <4>3, <4>4 DEF AckKind
      <4>6. \A f \in Files : RequestsCarried(r, f)'
        BY <2>0, <3>2, <4>1, <4>3, <4>4, <4>5, FilesReported
        DEF RunInv, RequestsCarried, Carried
      <4>7. RunInv(r)'
        BY <2>0, <3>2, <4>1, <4>3, <4>4, <4>6 DEF RunInv, FetchedExists, CarriedWritten
      <4>8. QED  BY <1>0, <3>2, <4>1, <4>2, <4>7, GoOnStep
    <3>3. QED  BY <2>12, <3>1, <3>2 DEF UpdateTrafficOps
  <2>13. CASE Send(r)
    <3>1. /\ run[r].pc = "send" /\ sendUpdate(r) /\ Gone(r)
          /\ UNCHANGED <<content, disk, wanted, update>>
      BY <2>13 DEF Send, GitCommitAndExit, sendUpdate, ReportApplied,
         SetApplyUpdateForServerWithTime
    <3>2. \A q \in Runs : q # r => run'[q] = run[q]  BY <1>0, <3>1 DEF Gone, TypeOK
    <3>3. \A s \in Servers : s # r[1] => lock'[s] = lock[s]  BY <1>0, <3>1 DEF Gone, TypeOK
    <3>4. \A q \in Runs : q # r => RunInv(q)'  BY <3>1, <3>2, <3>3, OtherRuns
    <3>5. QED  BY <1>0, <3>1, <3>4, GoneRun, ReportVerdict DEF Inv
  <2>14. CASE SendAgain(r)
    <3>1. /\ run[r].pc = "send" /\ sendUpdate(r)
          /\ UNCHANGED <<content, disk, wanted, update, run, lock>>
      BY <2>14 DEF SendAgain, sendUpdate, ReportApplied, SetApplyUpdateForServerWithTime
    <3>2. \A q \in Runs : RunInv(q)'
      BY <3>1 DEF Inv, RunInv, FetchedExists, RequestsCarried, Carried, CarriedWritten, AckKind
    <3>3. QED  BY <1>0, <3>1, <3>2, ReportVerdict DEF Inv
  <2>15. CASE TrafficOpsFails(r)
    <3>1. run[r].pc # "idle" /\ GitCommitAndExit(r)
          /\ UNCHANGED <<flagVars, content, disk, loaded, history>>
      BY <2>15 DEF TrafficOpsFails
    <3>2. QED  BY <1>0, <3>1, EndStep DEF GitCommitAndExit
  <2>16. CASE Crash(r)
    <3>1. /\ run[r].pc # "idle" /\ Gone(r)
          /\ UNCHANGED <<flagVars, content, loaded, metadata, wanted, overtaken, skipped>>
      BY <2>16 DEF Crash
    <3>2. CASE run[r].pc # "process"
      BY <1>0, <2>16, <3>1, <3>2, EndStep DEF Crash
    <3>3. CASE run[r].pc = "process"
      <4>1. PICK done : replaceCfgFile(r, done)  BY <2>16, <3>3 DEF Crash
      <4>2. /\ \A s \in Servers, f \in Files :
                 disk[s][f] <= disk'[s][f] /\ disk'[s][f] <= content[f]
            /\ \A s \in Servers : s # r[1] => disk'[s] = disk[s]
        BY <3>1, <3>3, <4>1, ReplaceStep
      <4>3. RevisionsExist' /\ AcknowledgedIsApplied'  BY <1>0, <3>1, <4>2, NewerVerdict
      <4>4. \A q \in Runs : q # r => run'[q] = run[q]  BY <1>0, <3>1 DEF Gone, TypeOK
      <4>5. \A s \in Servers : s # r[1] => lock'[s] = lock[s]  BY <1>0, <3>1 DEF Gone, TypeOK
      <4>6. \A q \in Runs : q # r => RunInv(q)'  BY <3>1, <4>2, <4>4, <4>5, OtherRuns
      <4>7. QED  BY <1>0, <3>1, <4>3, <4>6, GoneRun DEF Inv
    <3>4. QED  BY <3>2, <3>3
  <2>17. QED
    BY <1>7, <2>3, <2>4, <2>5, <2>6, <2>7, <2>8, <2>9, <2>10, <2>11, <2>12, <2>13,
       <2>14, <2>15, <2>16 DEF Step
<1>8. CASE RefreshStatusCache
  BY <1>6, <1>8 DEF RefreshStatusCache, refreshServerUpdateStatusCache
<1>9. CASE UNCHANGED vars
  BY <1>6, <1>9 DEF vars, flagVars
<1>10. QED
  BY <1>1, <1>2, <1>3, <1>4, <1>5, <1>7, <1>8, <1>9 DEF Next

LEMMA InvInit == Init => Inv
<1> SUFFICES ASSUME Init  PROVE Inv  OBVIOUS
<1>1. TypeOK  BY TypeInit
<1>2. /\ \A s \in Servers, f \in Files : disk[s][f] = 0 /\ wanted[s][f] = 0
      /\ \A f \in Files : content[f] = 0
      /\ \A r \in Runs : run[r].pc = "idle" /\ \A f \in Files : run[r].got[f] = 0
  BY DEF Init, NoRun
<1>3. RevisionsExist /\ AcknowledgedIsApplied
  BY <1>2 DEF RevisionsExist, AcknowledgedIsApplied
<1>4. \A r \in Runs : RunInv(r)
  BY <1>2 DEF RunInv, FetchedExists, RequestsCarried, CarriedWritten
<1>5. QED  BY <1>1, <1>3, <1>4 DEF Inv

LEMMA InvHolds == Spec => []Inv
<1>1. Inv /\ [Next]_vars => Inv'  BY InvStep
<1>2. QED  BY InvInit, <1>1, PTL DEF Spec

(* What Traffic Ops shows as applied is on the cache's disk, up to the     *)
(* requests that came too late for the run that reported and the files it  *)
(* could not write.                                                        *)
THEOREM AppliedWhenAcknowledged == Spec => []AcknowledgedIsApplied
<1>1. Inv => AcknowledgedIsApplied  BY DEF Inv
<1>2. QED  BY InvHolds, <1>1, PTL

(***************************************************************************)
(* From the disk to ATS: a file that ATS has not read in its present       *)
(* revision is about to be loaded by the run that replaced it, or was kept *)
(* from it.                                                                *)
(***************************************************************************)
Loading(s, f) ==
    \E r \in Runs : r[1] = s /\ run[r].pc = "services" /\ f \in run[r].changed

LoadedKnown ==
    \A s \in Servers, f \in Files :
        f \in unloaded[s] \/ loaded[s][f] = disk[s][f] \/ Loading(s, f)

LoadInv == LoadedKnown /\ AcknowledgedIsLoaded

(* A step that neither replaces nor loads files.                           *)
LEMMA StillKnown ==
    ASSUME LoadedKnown, UNCHANGED <<disk, loaded, unloaded>>,
           \A q \in Runs : run[q].pc = "services" =>
             run'[q].pc = "services" /\ run'[q].changed = run[q].changed
    PROVE  LoadedKnown'
<1>1. \A s \in Servers, f \in Files : Loading(s, f) => Loading(s, f)'  BY DEF Loading
<1>2. QED  BY <1>1 DEF LoadedKnown

LEMMA StillLoaded ==
    ASSUME AcknowledgedIsLoaded,
           UNCHANGED <<update, apply, wanted, overtaken, skipped, loaded>>,
           \A s \in Servers : unloaded[s] \subseteq unloaded'[s]
    PROVE  AcknowledgedIsLoaded'
BY DEF AcknowledgedIsLoaded, Pending, Current

(* While one run of a server is at work no other is loading.               *)
LEMMA LoadsAlone ==
    ASSUME Inv, NEW r \in Runs, run[r].pc # "idle", NEW f \in Files, Loading(r[1], f)
    PROVE  run[r].pc = "services" /\ f \in run[r].changed
<1>1. PICK q \in Runs : q[1] = r[1] /\ run[q].pc = "services" /\ f \in run[q].changed
  BY DEF Loading
<1>2. q = r  BY <1>1, Alone
<1>3. QED  BY <1>1, <1>2

(* A step of a run that loads files, or leaves them to be accounted for.   *)
LEMMA KeptStep ==
    ASSUME Inv, Inv', LoadInv, NEW r \in Runs, NEW files, KeptFromATS(r, files),
           UNCHANGED <<update, apply, wanted, overtaken, skipped>>,
           \A q \in Runs : q # r => run'[q] = run[q],
           \A s \in Servers : s # r[1] => loaded'[s] = loaded[s] /\ disk'[s] = disk[s],
           \A f \in Files : loaded'[r[1]][f] \in {loaded[r[1]][f], disk'[r[1]][f]},
           \A f \in Files : \/ f \in unloaded[r[1]] \cup files
                             \/ loaded'[r[1]][f] = disk'[r[1]][f]
    PROVE  LoadInv'
<1>0. TypeOK /\ r[1] \in Servers  BY DEF Inv
<1>1. unloaded'[r[1]] = {f \in unloaded[r[1]] \cup files : loaded'[r[1]][f] # disk'[r[1]][f]}
  BY <1>0 DEF KeptFromATS, TypeOK
<1>2. \A s \in Servers : s # r[1] => unloaded'[s] = unloaded[s]
  BY <1>0 DEF KeptFromATS, TypeOK
<1>3. LoadedKnown'
  <2> SUFFICES ASSUME NEW s \in Servers, NEW f \in Files
               PROVE  f \in unloaded'[s] \/ loaded'[s][f] = disk'[s][f] \/ Loading(s, f)'
    BY DEF LoadedKnown
  <2>1. CASE s = r[1]  BY <1>1, <2>1
  <2>2. CASE s # r[1]
    <3>1. Loading(s, f) => Loading(s, f)'  BY <2>2 DEF Loading
    <3>2. QED  BY <1>2, <2>2, <3>1 DEF LoadInv, LoadedKnown
  <2>3. QED  BY <2>1, <2>2
<1>4. AcknowledgedIsLoaded'
  <2> SUFFICES ASSUME NEW s \in Servers, NEW f \in Files,
                      ~Pending(Current, s, FlagOf(f))',
                      f \notin (overtaken[s] \cup skipped[s] \cup unloaded[s])'
               PROVE  loaded'[s][f] >= wanted'[s][f]
    BY DEF AcknowledgedIsLoaded
  <2>1. CASE loaded'[s][f] = disk'[s][f]
    <3>1. disk'[s][f] >= wanted'[s][f]  BY DEF Inv, AcknowledgedIsApplied
    <3>2. QED  BY <2>1, <3>1
  <2>2. CASE loaded'[s][f] # disk'[s][f]
    <3>1. loaded'[s][f] = loaded[s][f] /\ f \notin unloaded[s]  BY <1>1, <1>2, <2>2
    <3>2. ~Pending(Current, s, FlagOf(f))  BY DEF Pending, Current
    <3>3. QED  BY <3>1, <3>2 DEF LoadInv, AcknowledgedIsLoaded
  <2>3. QED  BY <2>1, <2>2
<1>5. QED  BY <1>3, <1>4 DEF LoadInv

LEMMA LoadStep ==
    ASSUME Inv, LoadInv, [Next]_vars
    PROVE  LoadInv'
<1>0. TypeOK /\ TypeOK' /\ Inv'  BY InvStep DEF Inv
<1> USE DEF LoadInv
<1>1. ASSUME UNCHANGED <<disk, loaded, unloaded, update, apply, wanted, overtaken, skipped>>,
             \A q \in Runs : run[q].pc = "services" => run'[q] = run[q]
      PROVE  LoadInv'
  BY <1>1, StillKnown, StillLoaded
<1>2. ASSUME NEW S, NEW k \in Kinds, NEW now, Ask(S, k, now)  PROVE LoadInv'
  <2>1. UNCHANGED <<disk, loaded, unloaded, skipped, apply>>
    BY <1>2 DEF Ask, QueueUpdateForServers, cacheVars
  <2>2. \A q \in Runs : run'[q].pc = run[q].pc /\ run'[q].changed = run[q].changed
    <3> SUFFICES ASSUME NEW q \in Runs
                 PROVE  run'[q].pc = run[q].pc /\ run'[q].changed = run[q].changed
      OBVIOUS
    <3>1. run[q] \in RunRecords  BY <1>0 DEF TypeOK
    <3>2. run'[q] = run[q] \/ run'[q] = [run[q] EXCEPT !.late = @ \cup FilesUnder(k)]
      BY <1>2 DEF Ask
    <3>3. QED  BY <3>1, <3>2 DEF RunRecords
  <2>3. LoadedKnown'  BY <2>1, <2>2, StillKnown
  <2>4. ASSUME NEW s \in Servers, NEW f \in Files,
               ~Pending(Current, s, FlagOf(f))',
               f \notin (overtaken[s] \cup skipped[s] \cup unloaded[s])'
        PROVE  loaded[s][f] >= wanted'[s][f]
    <3>0. FlagOf(f) \in Kinds  BY DEF FlagOf
    <3>1. overtaken'[s] = IF s \in S /\ now <= apply[<<s, k>>]
                          THEN overtaken[s] \cup FilesUnder(k) ELSE overtaken[s]
      BY <1>2 DEF Ask
    <3>2. update'[<<s, FlagOf(f)>>] =
            IF s \in S /\ FlagOf(f) = k THEN now ELSE update[<<s, FlagOf(f)>>]
      BY <1>2, <3>0 DEF Ask, QueueUpdateForServers, Row
    <3>3. ~(update'[<<s, FlagOf(f)>>] > apply[<<s, FlagOf(f)>>])
      BY <2>1, <2>4 DEF Pending, Current
    <3>4. now \in Nat /\ apply[<<s, k>>] \in Nat
      BY <1>0, <1>2 DEF Ask, QueueUpdateForServers, Stamps, TypeOK, FlagsTypeOK
    <3>5. ~(s \in S /\ FlagOf(f) = k)
      <4> SUFFICES ASSUME s \in S, FlagOf(f) = k  PROVE FALSE  OBVIOUS
      <4>1. now <= apply[<<s, k>>]  BY <3>2, <3>3, <3>4
      <4>2. f \in FilesUnder(k)  BY DEF FilesUnder
      <4>3. QED  BY <2>4, <3>1, <4>1, <4>2
    <3>6. wanted'[s][f] = wanted[s][f]  BY <1>2, <3>5 DEF Ask, FilesUnder
    <3>7. ~Pending(Current, s, FlagOf(f))  BY <3>2, <3>3, <3>5 DEF Pending, Current
    <3>8. f \notin overtaken[s] \cup skipped[s] \cup unloaded[s]  BY <2>1, <2>4, <3>1
    <3>9. QED  BY <3>6, <3>7, <3>8 DEF AcknowledgedIsLoaded
  <2>5. AcknowledgedIsLoaded'  BY <2>1, <2>4 DEF AcknowledgedIsLoaded
  <2>6. QED  BY <2>3, <2>5
<1>3. ASSUME NEW S, NEW k \in Kinds, Forget(S, k),
             \A s \in Servers, j \in Kinds : ~(s \in S /\ j = k) =>
               update'[<<s, j>>] = update[<<s, j>>] /\ apply'[<<s, j>>] = apply[<<s, j>>]
      PROVE  LoadInv'
  <2>1. UNCHANGED <<disk, loaded, unloaded, run, overtaken, skipped>>
    BY <1>3 DEF Forget, cacheVars
  <2>2. LoadedKnown'  BY <2>1, StillKnown
  <2>3. ASSUME NEW s \in Servers, NEW f \in Files,
               ~Pending(Current, s, FlagOf(f))',
               f \notin overtaken[s] \cup skipped[s] \cup unloaded[s]
        PROVE  loaded[s][f] >= wanted'[s][f]
    <3>1. wanted'[s][f] = IF s \in S /\ f \in FilesUnder(k) THEN 0 ELSE wanted[s][f]
      BY <1>3 DEF Forget
    <3>2. CASE s \in S /\ FlagOf(f) = k
      <4>1. wanted'[s][f] = 0  BY <3>1, <3>2 DEF FilesUnder
      <4>2. loaded[s][f] \in Nat  BY <1>0 DEF TypeOK
      <4>3. QED  BY <4>1, <4>2
    <3>3. CASE ~(s \in S /\ FlagOf(f) = k)
      <4>1. FlagOf(f) \in Kinds  BY DEF FlagOf
      <4>2. ~Pending(Current, s, FlagOf(f))  BY <1>3, <2>3, <3>3, <4>1 DEF Pending, Current
      <4>3. wanted'[s][f] = wanted[s][f]  BY <3>1, <3>3 DEF FilesUnder
      <4>4. QED  BY <2>3, <4>2, <4>3 DEF AcknowledgedIsLoaded
    <3>4. QED  BY <3>2, <3>3
  <2>4. AcknowledgedIsLoaded'  BY <2>1, <2>3 DEF AcknowledgedIsLoaded
  <2>5. QED  BY <2>2, <2>4
<1>4. ASSUME NEW r \in Runs, Start(r) \/ Step(r)  PROVE LoadInv'
  <2> USE DEF flagVars, history, Unlocking, Continuing
  <2>0. run[r] \in RunRecords /\ r[1] \in Servers  BY <1>0 DEF TypeOK
  (* A run that is not at its reload, and replaces nothing.                *)
  <2>1. ASSUME UNCHANGED <<disk, loaded, unloaded, update, apply, wanted, overtaken, skipped>>,
               run[r].pc # "services", NEW new, run' = [run EXCEPT ![r] = new]
        PROVE  LoadInv'
    <3>1. \A q \in Runs : run[q].pc = "services" => run'[q] = run[q]
      BY <1>0, <2>1 DEF TypeOK
    <3>2. QED  BY <1>1, <2>1, <3>1
  <2>2. ASSUME GitCommitAndExit(r), UNCHANGED Unlocking, run[r].pc # "services"  PROVE LoadInv'
    BY <2>1, <2>2 DEF GitCommitAndExit, Gone
  <2>3. ASSUME NEW pc, Goto(r, pc), UNCHANGED Continuing, run[r].pc # "services"  PROVE LoadInv'
    <3>1. run' = [run EXCEPT ![r] = [run[r] EXCEPT !.pc = pc]]  BY <1>0, <2>3 DEF Goto, TypeOK
    <3>2. QED  BY <2>1, <2>3, <3>1
  <2>4. CASE Start(r)
    <3>1. /\ UNCHANGED <<disk, loaded, unloaded, update, apply, wanted, overtaken, skipped>>
          /\ run[r].pc = "idle" /\ \E new : run' = [run EXCEPT ![r] = new]
      BY <2>4 DEF Start
    <3>2. QED  BY <2>1, <3>1
  <2>5. CASE CheckSyncDSState(r)  BY <2>3, <2>5 DEF CheckSyncDSState
  <2>6. CASE RecheckParents(r)  BY <2>2, <2>3, <2>6 DEF RecheckParents
  <2>7. CASE CheckRevalidateState(r)
    <3>1. CASE GitCommitAndExit(r) /\ UNCHANGED Unlocking
      BY <2>2, <2>7, <3>1 DEF CheckRevalidateState
    <3>2. CASE /\ run' = [run EXCEPT ![r].pc = "generate", ![r].scope = "reval"]
               /\ UNCHANGED Continuing
      <4>1. run' = [run EXCEPT ![r] = [run[r] EXCEPT !.pc = "generate", !.scope = "reval"]]
        BY <1>0, <3>2 DEF TypeOK
      <4>2. QED  BY <2>1, <2>7, <3>2, <4>1 DEF CheckRevalidateState
    <3>3. QED  BY <2>7, <3>1, <3>2 DEF CheckRevalidateState
  <2>8. CASE PanicWithoutMetadata(r)
    BY <2>1, <2>8 DEF PanicWithoutMetadata, Gone
  <2>9. CASE GetConfigFileList(r)
    <3>1. run' = [run EXCEPT ![r] = [run[r] EXCEPT !.pc = "process", !.got = content]]
      BY <1>0, <2>9 DEF GetConfigFileList, TypeOK
    <3>2. QED  BY <2>1, <2>9, <3>1 DEF GetConfigFileList
  (* Replaced files: done of them on the run's own server.                 *)
  <2>10. ASSUME NEW done, run[r].pc = "process", replaceCfgFile(r, done), UNCHANGED loaded,
                NEW s \in Servers, NEW f \in Files, ~(s = r[1] /\ f \in done)
         PROVE  \/ f \in unloaded[s] \/ loaded'[s][f] = disk'[s][f]
                \/ s # r[1] /\ Loading(s, f)
    <3>1. disk'[s][f] = disk[s][f]  BY <1>0, <2>0, <2>10 DEF replaceCfgFile, TypeOK
    <3>2. s = r[1] => ~Loading(s, f)  BY <2>10, LoadsAlone
    <3>3. QED  BY <2>10, <3>1, <3>2 DEF LoadedKnown
  <2>11. ASSUME \A q \in Runs : q # r => run'[q] = run[q], NEW s \in Servers, s # r[1],
                NEW f \in Files, Loading(s, f)
         PROVE  Loading(s, f)'
    BY <2>11 DEF Loading
  <2>12. CASE ProcessConfigFiles(r)
    <3>1. PICK failed, unwritten, refused : ProcessFiles(r, failed, unwritten, refused)
      BY <2>12 DEF ProcessConfigFiles
    <3>2. run[r].pc = "process" /\ UNCHANGED <<flagVars, content, loaded, lock, metadata, history>>
      BY <2>12 DEF ProcessConfigFiles
    <3> DEFINE done == Changes(r) \ (failed \cup unwritten \cup refused)
    <3>3. replaceCfgFile(r, done)  BY <3>1 DEF ProcessFiles
    <3>4. run'[r].pc = "services" /\ run'[r].changed = done
      BY <1>0, <2>0, <3>1 DEF ProcessFiles, TypeOK, RunRecords
    <3>5. \A q \in Runs : q # r => run'[q] = run[q]  BY <1>0, <3>1 DEF ProcessFiles, TypeOK
    <3> HIDE DEF done
    <3>6. \A f \in done : Loading(r[1], f)'  BY <3>4 DEF Loading
    <3>7. LoadedKnown'  BY <2>10, <2>11, <3>2, <3>3, <3>5, <3>6 DEF LoadedKnown
    <3>8. QED  BY <3>2, <3>7, StillLoaded
  (* A file of the run's server is accounted for, or the run loads it.     *)
  <2>13. ASSUME run[r].pc # "idle", NEW f \in Files
         PROVE  \/ f \in unloaded[r[1]] \/ loaded[r[1]][f] = disk[r[1]][f]
                \/ run[r].pc = "services" /\ f \in run[r].changed
    BY <2>0, <2>13, LoadsAlone DEF LoadedKnown
  <2>14. CASE StartServices(r)
    <3> DEFINE kept == IF NeedsRestart(r) THEN run[r].changed ELSE {}
    <3>1. /\ run[r].pc = "services" /\ KeptFromATS(r, kept)
          /\ UNCHANGED <<flagVars, content, disk, lock, metadata, wanted, overtaken, skipped, faults>>
      BY <2>14 DEF StartServices
    <3>2. \A q \in Runs : q # r => run'[q] = run[q]  BY <1>0, <2>14 DEF StartServices, TypeOK
    <3>3. \A s \in Servers : s # r[1] => loaded'[s] = loaded[s]
      BY <1>0, <2>14 DEF StartServices, Reload, TypeOK
    <3>4. ASSUME NEW f \in Files
          PROVE  /\ loaded'[r[1]][f] \in {loaded[r[1]][f], disk[r[1]][f]}
                 /\ f \in unloaded[r[1]] \cup kept \/ loaded'[r[1]][f] = disk[r[1]][f]
      <4>1. CASE Reloads(r)
        <5>1. loaded'[r[1]][f] = IF f \in RestartFiles THEN loaded[r[1]][f] ELSE disk[r[1]][f]
          BY <1>0, <2>0, <2>14, <4>1 DEF StartServices, Reload, TypeOK
        <5>2. f \in RestartFiles => f \notin run[r].changed  BY <4>1 DEF Reloads, NeedsRestart
        <5>3. QED  BY <2>13, <3>1, <5>1, <5>2
      <4>2. CASE ~Reloads(r)
        <5>1. loaded' = loaded  BY <2>14, <4>2 DEF StartServices
        <5>2. f \in run[r].changed => f \in kept  BY <4>2 DEF Reloads
        <5>3. QED  BY <2>13, <3>1, <5>1, <5>2
      <4>3. QED  BY <4>1, <4>2
    <3> HIDE DEF kept
    <3>5. QED  BY <1>0, <3>1, <3>2, <3>3, <3>4, KeptStep
  <2>15. CASE StartServicesFails(r)
    <3>1. /\ run[r].pc = "services" /\ KeptFromATS(r, run[r].changed)
          /\ UNCHANGED <<flagVars, content, disk, loaded, wanted, overtaken, skipped>>
      BY <2>15 DEF StartServicesFails
    <3>2. \A q \in Runs : q # r => run'[q] = run[q]
      BY <1>0, <2>15 DEF StartServicesFails, GitCommitAndExit, Gone, TypeOK
    <3>3. QED  BY <1>0, <2>13, <3>1, <3>2, KeptStep
  <2>16. CASE UpdateTrafficOps(r)
    <3>1. CASE GitCommitAndExit(r) /\ UNCHANGED Unlocking
      BY <2>2, <2>16, <3>1 DEF UpdateTrafficOps
    <3>2. CASE /\ run' = [run EXCEPT ![r].pc = "send",
                    ![r].seen = getServerUpdateStatus.update[<<r[1], AckKind(r)>>]]
               /\ UNCHANGED Continuing
      <4>1. \E new : run' = [run EXCEPT ![r] = new]
        <5>1. run' = [run EXCEPT ![r] = [run[r] EXCEPT !.pc = "send",
                 !.seen = getServerUpdateStatus.update[<<r[1], AckKind(r)>>]]]
          BY <1>0, <3>2 DEF TypeOK
        <5>2. QED  BY <5>1
      <4>2. QED  BY <2>1, <2>16, <3>2, <4>1 DEF UpdateTrafficOps
    <3>3. QED  BY <2>16, <3>1, <3>2 DEF UpdateTrafficOps
  <2>17. ASSUME run[r].pc = "send", sendUpdate(r),
                \A q \in Runs : q # r => run'[q] = run[q]
         PROVE  LoadInv'
    <3>1. UNCHANGED <<disk, loaded, unloaded, wanted, update>>
      BY <2>17 DEF sendUpdate, ReportApplied, SetApplyUpdateForServerWithTime
    <3>2. LoadedKnown'  BY <2>17, <3>1, StillKnown
    <3>3. AcknowledgedIsLoaded'
      <4> SUFFICES ASSUME NEW s \in Servers, NEW f \in Files,
                          ~Pending(Current, s, FlagOf(f))',
                          f \notin (overtaken[s] \cup skipped[s] \cup unloaded[s])'
                   PROVE  loaded[s][f] >= wanted[s][f]
        BY <3>1 DEF AcknowledgedIsLoaded
      <4>1. CASE s = r[1]
        <5>1. disk[s][f] >= wanted[s][f]  BY <1>0, <3>1 DEF Inv, AcknowledgedIsApplied
        <5>2. ~Loading(s, f)  BY <2>17, <4>1, LoadsAlone
        <5>3. QED  BY <3>1, <5>1, <5>2 DEF LoadedKnown
      <4>2. CASE s # r[1]
        <5>1. apply'[<<s, FlagOf(f)>>] = apply[<<s, FlagOf(f)>>]
          BY <1>0, <2>17, <4>2 DEF sendUpdate, ReportApplied,
             SetApplyUpdateForServerWithTime, FlagOf, TypeOK, FlagsTypeOK
        <5>2. ~Pending(Current, s, FlagOf(f))  BY <3>1, <5>1 DEF Pending, Current
        <5>3. overtaken'[s] = overtaken[s] /\ skipped'[s] = skipped[s]
          BY <1>0, <2>17, <4>2 DEF sendUpdate, TypeOK
        <5>4. QED  BY <3>1, <5>2, <5>3 DEF AcknowledgedIsLoaded
      <4>3. QED  BY <4>1, <4>2
    <3>4. QED  BY <3>2, <3>3
  <2>18. CASE Send(r)
    <3>1. \A q \in Runs : q # r => run'[q] = run[q]
      BY <1>0, <2>18 DEF Send, GitCommitAndExit, Gone, TypeOK
    <3>2. QED  BY <2>17, <2>18, <3>1 DEF Send
  <2>19. CASE SendAgain(r)  BY <2>17, <2>19 DEF SendAgain
  <2>20. CASE TrafficOpsFails(r)
    <3>1. /\ GitCommitAndExit(r) /\ run[r].pc # "services"
          /\ UNCHANGED <<flagVars, content, disk, loaded, history>>
      BY <2>20 DEF TrafficOpsFails
    <3>2. QED  BY <2>1, <3>1 DEF GitCommitAndExit, Gone
  <2>21. CASE Crash(r)
    <3>1. /\ run[r].pc # "idle" /\ Gone(r)
          /\ UNCHANGED <<flagVars, content, loaded, metadata, wanted, overtaken, skipped>>
      BY <2>21 DEF Crash
    <3>2. \A q \in Runs : q # r => run'[q] = run[q]  BY <1>0, <3>1 DEF Gone, TypeOK
    <3>3. CASE run[r].pc = "process"
      <4>1. PICK done : replaceCfgFile(r, done) /\ KeptFromATS(r, done)
        BY <2>21, <3>3 DEF Crash
      <4>2. \A s \in Servers : s # r[1] => disk'[s] = disk[s]
        BY <1>0, <4>1 DEF replaceCfgFile, TypeOK
      <4>3. \A f \in Files : f \notin done => disk'[r[1]][f] = disk[r[1]][f]
        BY <1>0, <2>0, <4>1 DEF replaceCfgFile, TypeOK
      <4>4. QED  BY <1>0, <2>13, <3>1, <3>2, <3>3, <4>1, <4>2, <4>3, KeptStep
    <3>4. CASE run[r].pc # "process"
      <4> DEFINE kept == IF run[r].pc = "services" THEN run[r].changed ELSE {}
      <4>1. disk' = disk /\ KeptFromATS(r, kept)  BY <2>21, <3>4 DEF Crash
      <4>2. \A f \in Files : f \in unloaded[r[1]] \cup kept \/ loaded[r[1]][f] = disk[r[1]][f]
        BY <2>13, <3>1
      <4> HIDE DEF kept
      <4>3. QED  BY <1>0, <3>1, <3>2, <4>1, <4>2, KeptStep
    <3>5. QED  BY <3>3, <3>4
  <2>22. QED
    BY <1>4, <2>4, <2>5, <2>6, <2>7, <2>8, <2>9, <2>12, <2>14, <2>15, <2>16, <2>18,
       <2>19, <2>20, <2>21 DEF Step
<1>5. ASSUME NEW f \in Files, Change(f)  PROVE LoadInv'
  BY <1>1, <1>5 DEF Change, flagVars, cacheVars, history
<1>6. ASSUME NEW S \in QueueSets, Queue(S) \/ Invalidate(S)  PROVE LoadInv'
  <2>1. \E k \in Kinds : \E now : Ask(S, k, now)  BY <1>6 DEF Queue, Invalidate, FlagOf
  <2>2. QED  BY <1>2, <2>1
<1>7. ASSUME NEW S \in QueueSets, Dequeue(S)  PROVE LoadInv'
  <2>1. \A s \in Servers, j \in Kinds : ~(s \in S /\ j = "config") =>
          update'[<<s, j>>] = update[<<s, j>>] /\ apply'[<<s, j>>] = apply[<<s, j>>]
    BY <1>7 DEF Dequeue, DequeueUpdateForServers, Row
  <2>2. QED  BY <1>3, <1>7, <2>1 DEF Dequeue
<1>8. ASSUME NEW s \in Servers, NEW k \in Kinds, Clear(s, k)  PROVE LoadInv'
  <2>1. PICK now : SetApplyUpdateForServer(s, k, now)  BY <1>8 DEF Clear
  <2>2. \A t \in Servers, j \in Kinds : ~(t \in {s} /\ j = k) =>
          update'[<<t, j>>] = update[<<t, j>>] /\ apply'[<<t, j>>] = apply[<<t, j>>]
    BY <1>0, <2>1 DEF SetApplyUpdateForServer, TypeOK, FlagsTypeOK
  <2>3. QED  BY <1>3, <1>8, <2>2 DEF Clear
<1>9. CASE RefreshStatusCache
  BY <1>1, <1>9 DEF RefreshStatusCache, refreshServerUpdateStatusCache, cacheVars, history
<1>10. CASE UNCHANGED vars
  BY <1>1, <1>10 DEF vars, flagVars, cacheVars, history
<1>11. QED
  BY <1>4, <1>5, <1>6, <1>7, <1>8, <1>9, <1>10 DEF Next

(* What Traffic Ops shows as applied has also been read by ATS, up to the  *)
(* same exceptions and the files that a failed reload, a crash before the  *)
(* reload or a changed file that needs a restart kept from it: a run that  *)
(* replaces any other file reloads ATS before it reports.                  *)
THEOREM LoadedWhenAcknowledged == Spec => []AcknowledgedIsLoaded
<1>1. Init => LoadInv
  <2> SUFFICES ASSUME Init  PROVE LoadInv  OBVIOUS
  <2>1. \A s \in Servers, f \in Files : loaded[s][f] = disk[s][f] /\ disk[s][f] = wanted[s][f]
    BY DEF Init
  <2>2. \A s \in Servers, f \in Files : loaded[s][f] = 0 /\ wanted[s][f] = 0  BY DEF Init
  <2>3. QED  BY <2>1, <2>2 DEF LoadInv, LoadedKnown, AcknowledgedIsLoaded
<1>2. Inv /\ LoadInv /\ [Next]_vars => LoadInv'  BY LoadStep
<1>3. LoadInv => AcknowledgedIsLoaded  BY DEF LoadInv
<1>4. QED  BY InvHolds, <1>1, <1>2, <1>3, PTL DEF Spec

(* A step of a run either leaves the files of every cache alone or         *)
(* delivers newer ones to its own.                                         *)
LEMMA DeliveryStep ==
    ASSUME Inv, [Next]_vars
    PROVE  [Delivery!Next]_<<content, disk>>
<1>0. TypeOK /\ TypeOK'  BY TypeStep DEF Inv
<1>1. ASSUME NEW f \in Files, ChangeData(f), disk' = disk
      PROVE  Delivery!Publish(f)
  BY <1>1 DEF ChangeData, Delivery!Publish
<1>2. ASSUME NEW r \in Runs, NEW done, run[r].pc = "process", replaceCfgFile(r, done),
             content' = content
      PROVE  Delivery!Deliver(r[1])
  <2>1. r[1] \in Servers  OBVIOUS
  <2>2. disk'[r[1]] \in [Files -> Nat]  BY <1>0, <2>1 DEF TypeOK
  <2>3. \A f \in Files : disk[r[1]][f] <= disk'[r[1]][f] /\ disk'[r[1]][f] <= content[f]
    BY <1>2, <2>1, ReplaceStep
  <2>4. disk' = [disk EXCEPT ![r[1]] = disk'[r[1]]]
    BY <1>0, <1>2, <2>1 DEF replaceCfgFile, TypeOK
  <2>5. QED  BY <1>2, <2>2, <2>3, <2>4 DEF Delivery!Deliver
<1>3. ASSUME NEW f \in Files, Change(f)  PROVE ChangeData(f) /\ disk' = disk
  BY <1>3 DEF Change, cacheVars
<1>4. ASSUME NEW S \in QueueSets, Invalidate(S)
      PROVE  RevalFile \in Files /\ ChangeData(RevalFile) /\ disk' = disk
  BY <1>4 DEF Invalidate, Ask, cacheVars, Files
<1>5. ASSUME NEW S \in QueueSets, Queue(S) \/ Dequeue(S)  PROVE UNCHANGED <<content, disk>>
  BY <1>5 DEF Queue, Dequeue, Ask, Forget, cacheVars
<1>6. ASSUME NEW s \in Servers, NEW k \in Kinds, Clear(s, k)  PROVE UNCHANGED <<content, disk>>
  BY <1>6 DEF Clear, Forget, cacheVars
<1>7. CASE RefreshStatusCache  BY <1>7 DEF RefreshStatusCache, cacheVars
<1>8. ASSUME NEW r \in Runs, Start(r) \/ Step(r)
      PROVE  UNCHANGED <<content, disk>> \/ Delivery!Deliver(r[1])
  <2>1. CASE ProcessConfigFiles(r)
    <3>1. run[r].pc = "process" /\ content' = content  BY <2>1 DEF ProcessConfigFiles
    <3>2. PICK failed, unwritten, refused : ProcessFiles(r, failed, unwritten, refused)
      BY <2>1 DEF ProcessConfigFiles
    <3>3. \E done : replaceCfgFile(r, done)  BY <3>2 DEF ProcessFiles
    <3>4. QED  BY <1>2, <3>1, <3>3
  <2>2. CASE Crash(r)
    <3>1. content' = content  BY <2>2 DEF Crash
    <3>2. CASE run[r].pc = "process"
      <4>1. \E done : replaceCfgFile(r, done)  BY <2>2, <3>2 DEF Crash
      <4>2. QED  BY <1>2, <3>1, <3>2, <4>1
    <3>3. CASE run[r].pc # "process"  BY <2>2, <3>1, <3>3 DEF Crash
    <3>4. QED  BY <3>2, <3>3
  <2>3. CASE Start(r)  BY <2>3 DEF Start
  <2>4. CASE CheckSyncDSState(r)  BY <2>4 DEF CheckSyncDSState, Continuing, Unlocking
  <2>5. CASE RecheckParents(r)  BY <2>5 DEF RecheckParents, Continuing, Unlocking
  <2>6. CASE CheckRevalidateState(r)  BY <2>6 DEF CheckRevalidateState, Continuing, Unlocking
  <2>7. CASE PanicWithoutMetadata(r)  BY <2>7 DEF PanicWithoutMetadata, Unlocking
  <2>8. CASE GetConfigFileList(r)  BY <2>8 DEF GetConfigFileList, Continuing, Unlocking
  <2>9. CASE StartServices(r)  BY <2>9 DEF StartServices
  <2>10. CASE StartServicesFails(r)  BY <2>10 DEF StartServicesFails
  <2>11. CASE UpdateTrafficOps(r)  BY <2>11 DEF UpdateTrafficOps, Continuing, Unlocking
  <2>12. CASE Send(r)  BY <2>12 DEF Send, sendUpdate
  <2>13. CASE SendAgain(r)  BY <2>13 DEF SendAgain, sendUpdate
  <2>14. CASE TrafficOpsFails(r)  BY <2>14 DEF TrafficOpsFails
  <2>15. QED
    BY <1>8, <2>1, <2>2, <2>3, <2>4, <2>5, <2>6, <2>7, <2>8, <2>9, <2>10, <2>11, <2>12,
       <2>13, <2>14 DEF Step
<1>9. CASE UNCHANGED vars  BY <1>9 DEF vars, cacheVars
<1>10. \A r \in Runs : r[1] \in Servers  OBVIOUS
<1>11. CASE \E f \in Files : Change(f)
  BY <1>1, <1>3, <1>11 DEF Delivery!Next
<1>12. CASE \E S \in QueueSets : Queue(S) \/ Invalidate(S) \/ Dequeue(S)
  BY <1>1, <1>4, <1>5, <1>12 DEF Delivery!Next
<1>13. CASE \E s \in Servers, k \in Kinds : Clear(s, k)  BY <1>6, <1>13
<1>14. CASE \E r \in Runs : Start(r) \/ Step(r)
  BY <1>8, <1>10, <1>14 DEF Delivery!Next
<1>15. QED  BY <1>7, <1>9, <1>11, <1>12, <1>13, <1>14 DEF Next

(* The runs implement the abstract delivery: a cache never goes back to an *)
(* older revision of a file and never holds one Traffic Ops has not had.   *)
THEOREM DeliveryRefined == Spec => DeliverySpec
<1>1. Init => Delivery!Init  BY DEF Init, Delivery!Init
<1>2. Inv /\ [Next]_vars => [Delivery!Next]_<<content, disk>>  BY DeliveryStep
<1>3. QED  BY InvHolds, <1>1, <1>2, PTL DEF Spec, DeliverySpec, Delivery!Spec
=============================================================================
