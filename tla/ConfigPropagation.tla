-------------------------- MODULE ConfigPropagation --------------------------
(***************************************************************************)
(* How a change of configuration or an invalidation job reaches the        *)
(* caches.  Operators change data in Traffic Ops and queue updates; on     *)
(* every cache cron starts t3c-apply in "syncds" and in "revalidate" mode; *)
(* a run reads the server's update status, generates the files, replaces   *)
(* those that differ, reloads ATS and reports the update applied           *)
(* (cache-config/t3c-apply).  Every request to Traffic Ops, the audit and  *)
(* the replacement of a file and the reload can fail, and a run can crash  *)
(* anywhere.                                                               *)
(***************************************************************************)
EXTENDS UpdateFlags

CONSTANTS
    ConfigFiles,    \* the files generated besides RevalFile
    RevalFile,      \* regex_revalidate.config
    RestartFiles,   \* files ATS reads only at start, such as plugin.config
    Jobs,           \* the modes cron runs t3c-apply in
    WaitForParents, \* --wait-for-parents of the syncds job
    UseRevalPending,\* the use_reval_pending parameter
    QueueSets,      \* the sets of servers an operator queues updates on
    Requests,       \* the requests operators make besides changes
    Faults,         \* what can go wrong
    MaxRevision, MaxClock, MaxFaults,
    None

Files == ConfigFiles \cup {RevalFile}

FaultKinds ==
    {"traffic_ops", "response", "audit", "write", "certificate", "services", "crash"}

ASSUME PropagationAssumption ==
    /\ RevalFile \notin ConfigFiles
    /\ RestartFiles \subseteq Files
    /\ Jobs \subseteq {"syncds", "revalidate"} /\ None \notin Jobs
    /\ WaitForParents \in BOOLEAN /\ UseRevalPending \in BOOLEAN
    /\ QueueSets \subseteq SUBSET Servers
    /\ Requests \subseteq {"queue", "invalidate", "dequeue", "clear"}
    /\ Faults \subseteq FaultKinds
    /\ MaxRevision \in Nat /\ MaxClock \in Nat /\ MaxFaults \in Nat

VARIABLES
    content,        \* the revision of each file that Traffic Ops would generate
    disk,           \* the revision of each file in the cache's config directory
    loaded,         \* the revision of each file that ATS has read
    lock,           \* the job holding t3c-apply's lock file
    metadata,       \* t3c-apply-metadata.json exists
    run,            \* the runs of t3c-apply
    wanted,         \* history: the revisions the operators last asked for
    overtaken,      \* history: files whose request the last report overtook
    skipped,        \* history: files the run of the last report could not write
    unloaded,       \* history: files that a failure, or a file that needs a
                    \* restart, kept from ATS
    faults          \* faults so far

cacheVars == <<disk, loaded, lock, metadata>>
history   == <<wanted, overtaken, skipped, unloaded>>
vars      == <<flagVars, content, cacheVars, run, history, faults>>

Runs == Servers \X Jobs

(* No run of the job on that server: what a run starts with.               *)
NoRun ==
    [pc |-> "idle", scope |-> "all", got |-> [f \in Files |-> 0], changed |-> {},
     skipped |-> {}, late |-> {}, needs |-> "NotNeeded", seen |-> 0]

RunRecords ==
    [pc : {"idle", "check", "recheck", "checkReval", "generate", "process",
           "services", "report", "send"},
     scope : {"all", "reval"},      \* r.Cfg.Files
     got : [Files -> Nat],          \* r.configFiles
     changed : SUBSET Files,        \* r.changedFiles
     skipped : SUBSET Files,        \* changes needed that were not made
     late : SUBSET Files,           \* history: asked for since got was fetched
     needs : {"NotNeeded", "Needed", "Successful", "Failed"},
     seen : Nat]                    \* the update time UpdateTrafficOps read

(* The type invariant: every variable keeps its shape; in particular every *)
(* time and revision stays a natural number.                               *)
TypeOK ==
    /\ FlagsTypeOK
    /\ content \in [Files -> Nat]
    /\ disk \in [Servers -> [Files -> Nat]]
    /\ loaded \in [Servers -> [Files -> Nat]]
    /\ lock \in [Servers -> Jobs \cup {None}]
    /\ metadata \in [Servers -> BOOLEAN]
    /\ run \in [Runs -> RunRecords]
    /\ wanted \in [Servers -> [Files -> Nat]]
    /\ overtaken \in [Servers -> SUBSET Files]
    /\ skipped \in [Servers -> SUBSET Files]
    /\ unloaded \in [Servers -> SUBSET Files]
    /\ faults \in Nat

Init ==
    /\ FlagsInit
    /\ content = [f \in Files |-> 0]
    /\ disk = [s \in Servers |-> content]
    /\ loaded = disk
    /\ lock = [s \in Servers |-> None]
    /\ metadata = [s \in Servers |-> FALSE]
    /\ run = [r \in Runs |-> NoRun]
    /\ wanted = disk
    /\ overtaken = [s \in Servers |-> {}]
    /\ skipped = overtaken /\ unloaded = overtaken
    /\ faults = 0

Fault(kind) ==
    /\ kind \in Faults /\ faults < MaxFaults
    /\ faults' = faults + 1

(***************************************************************************)
(* Operators.                                                              *)
(***************************************************************************)

(* The flag that announces a change of f: setRevalFlags queues a           *)
(* revalidation, or an update where separate revalidation is off.          *)
FlagOf(f) == IF f = RevalFile /\ UseRevalPending THEN "reval" ELSE "config"

FilesUnder(k) == {f \in Files : FlagOf(f) = k}

ChangeData(f) ==
    /\ content[f] < MaxRevision
    /\ content' = [content EXCEPT ![f] = @ + 1]

(* History: a run of s that has fetched its files and will report time or  *)
(* later does not carry a request made now.                                *)
Overtakes(r, time) ==
    \/ run[r].pc \in {"process", "services", "report"}
    \/ run[r].pc = "send" /\ time <= run[r].seen

Ask(S, k, now) ==
    /\ QueueUpdateForServers(S, k, now)
    /\ wanted' = [s \in Servers |-> [f \in Files |->
            IF s \in S /\ f \in FilesUnder(k) THEN content'[f] ELSE wanted[s][f]]]
    /\ overtaken' = [s \in Servers |->
            IF s \in S /\ now <= apply[<<s, k>>]
            THEN overtaken[s] \cup FilesUnder(k) ELSE overtaken[s]]
    /\ run' = [r \in Runs |->
            IF r[1] \in S /\ Overtakes(r, now)
            THEN [run[r] EXCEPT !.late = @ \cup FilesUnder(k)] ELSE run[r]]
    /\ UNCHANGED <<cacheVars, skipped, unloaded, faults>>

(* A change that nobody has queued yet.                                    *)
Change(f) ==
    /\ f \in ConfigFiles
    /\ ChangeData(f)
    /\ UNCHANGED <<flagVars, cacheVars, run, history, faults>>

(* "queue" for a server, a cache group, a topology, a CDN, or the          *)
(* children of a server whose status changes.                              *)
Queue(S) ==
    /\ "queue" \in Requests
    /\ UNCHANGED content
    /\ \E now \in Stamps : now <= MaxClock /\ Ask(S, "config", now)

(* An invalidation job is created, changed or deleted: one transaction     *)
(* writes the job and setRevalFlags.                                       *)
Invalidate(S) ==
    /\ "invalidate" \in Requests
    /\ ChangeData(RevalFile)
    /\ \E now \in Stamps : now <= MaxClock /\ Ask(S, FlagOf(RevalFile), now)

(* What the operators took back is no longer wanted.                       *)
Forget(S, k) ==
    /\ wanted' = [s \in Servers |-> [f \in Files |->
            IF s \in S /\ f \in FilesUnder(k) THEN 0 ELSE wanted[s][f]]]
    /\ UNCHANGED <<content, cacheVars, run, overtaken, skipped, unloaded, faults>>

Dequeue(S) ==
    /\ "dequeue" \in Requests
    /\ DequeueUpdateForServers(S)
    /\ Forget(S, "config")

Clear(s, k) ==
    /\ "clear" \in Requests
    /\ \E now \in Stamps : now <= MaxClock /\ SetApplyUpdateForServer(s, k, now)
    /\ Forget({s}, k)

RefreshStatusCache ==
    /\ refreshServerUpdateStatusCache
    /\ UNCHANGED <<content, cacheVars, run, history, faults>>

(***************************************************************************)
(* t3c-apply.                                                              *)
(***************************************************************************)

(* Seeded fault: the lock file is not respected.                           *)
LockFree_Ignored(s) == TRUE

LockFree(s) == lock[s] = None

Start(r) ==
    /\ run[r].pc = "idle" /\ LockFree(r[1])
    /\ lock' = [lock EXCEPT ![r[1]] = r[2]]
    /\ run' = [run EXCEPT ![r] =
            IF r[2] = "syncds" THEN [NoRun EXCEPT !.pc = "check"]
            ELSE [NoRun EXCEPT !.pc = "checkReval", !.scope = "reval"]]
    /\ UNCHANGED <<flagVars, content, disk, loaded, metadata, history, faults>>

Goto(r, pc) == run' = [run EXCEPT ![r].pc = pc]

(* The process is gone; the lock file's lock goes with it.                 *)
Gone(r) ==
    /\ run' = [run EXCEPT ![r] = NoRun]
    /\ lock' = [lock EXCEPT ![r[1]] = None]

GitCommitAndExit(r) ==
    /\ Gone(r)
    /\ metadata' = [metadata EXCEPT ![r[1]] = TRUE]

Unlocking == <<flagVars, content, disk, loaded, history, faults>>

Continuing == <<Unlocking, lock, metadata>>

Waits(r) == r[2] = "revalidate" \/ WaitForParents

CheckSyncDSState(r) ==
    LET status == getServerUpdateStatus
        s == r[1]
    IN  /\ run[r].pc = "check"
        /\ IF ~Pending(status, s, "config") THEN Goto(r, "checkReval")
           ELSE IF getParentPending(status, s, "config") /\ Waits(r)
                THEN Goto(r, "recheck")
                ELSE Goto(r, "generate")
        /\ UNCHANGED Continuing

(* The second look at the parents.                                         *)
RecheckParents(r) ==
    LET status == getServerUpdateStatus
    IN  /\ run[r].pc = "recheck"
        /\ IF \E k \in Kinds : getParentPending(status, r[1], k)
           THEN GitCommitAndExit(r) /\ UNCHANGED Unlocking
           ELSE Goto(r, "generate") /\ UNCHANGED Continuing

(* Called by Main in revalidate mode and by RevalidateWhileSleeping when   *)
(* syncds has no update to apply, which then narrows the run to RevalFile. *)
CheckRevalidateState(r) ==
    LET status == getServerUpdateStatus
        s == r[1]
    IN  /\ run[r].pc = "checkReval"
        /\ IF /\ UseRevalPending
              /\ Pending(status, s, "reval")
              /\ ~(getParentPending(status, s, "reval") /\ Waits(r))
           THEN /\ run' = [run EXCEPT ![r].pc = "generate", ![r].scope = "reval"]
                /\ UNCHANGED Continuing
           ELSE GitCommitAndExit(r) /\ UNCHANGED Unlocking

(* Main copies InstalledPackages from the old metadata, which is nil when  *)
(* there is no metadata file yet.                                          *)
Panics(r) == r[2] = "revalidate" /\ ~metadata[r[1]]

PanicWithoutMetadata(r) ==
    /\ run[r].pc = "generate" /\ Panics(r)
    /\ Gone(r)
    /\ UNCHANGED <<Unlocking, metadata>>

GetConfigFileList(r) ==
    /\ run[r].pc = "generate" /\ ~Panics(r)
    /\ run' = [run EXCEPT ![r].pc = "process", ![r].got = content]
    /\ UNCHANGED Continuing

FilesOf(scope) == IF scope = "reval" THEN {RevalFile} ELSE Files

Changes(r) ==
    {f \in FilesOf(run[r].scope) : disk[r[1]][f] # run[r].got[f]}

replaceCfgFile(r, done) ==
    disk' = [disk EXCEPT ![r[1]] = [f \in Files |->
                IF f \in done THEN run[r].got[f] ELSE disk[r[1]][f]]]

UpdateStatus(failed, required) ==
    IF failed # {} THEN "Failed" ELSE IF required # {} THEN "Needed" ELSE "NotNeeded"

(* A file whose audit failed fails the update.  A file that could not be   *)
(* written counts as a change made; a certificate that does not parse is   *)
(* left alone and does not count at all.                                   *)
ProcessFiles(r, failed, unwritten, refused) ==
    LET done == Changes(r) \ (failed \cup unwritten \cup refused)
    IN  /\ replaceCfgFile(r, done)
        /\ run' = [run EXCEPT
                ![r].pc = "services",
                ![r].changed = done,
                ![r].skipped = unwritten \cup refused,
                ![r].needs = UpdateStatus(failed, Changes(r) \ (failed \cup refused))]

ProcessConfigFiles(r) ==
    /\ run[r].pc = "process"
    /\ \/ ProcessFiles(r, {}, {}, {}) /\ UNCHANGED faults
       \/ \E f \in FilesOf(run[r].scope) : Fault("audit") /\ ProcessFiles(r, {f}, {}, {})
       \/ \E f \in Changes(r) : Fault("write") /\ ProcessFiles(r, {}, {f}, {})
       \/ \E f \in Changes(r) : Fault("certificate") /\ ProcessFiles(r, {}, {}, {f})
    /\ UNCHANGED <<flagVars, content, loaded, lock, metadata, history>>

(* Does a changed file need a restart?  Then ATS is not reloaded.          *)
NeedsRestart(r) == run[r].changed \cap RestartFiles # {}

(* Seeded fault: a run that only revalidates does not reload ATS.          *)
Reloads_Config(r) == run[r].changed # {} /\ ~NeedsRestart(r) /\ run[r].scope = "all"

Reloads(r) == run[r].changed # {} /\ ~NeedsRestart(r)

(* "traffic_ctl config reload": ATS reads what it can without a restart.   *)
Reload(s) ==
    loaded' = [loaded EXCEPT ![s] =
        [f \in Files |-> IF f \in RestartFiles THEN @[f] ELSE disk[s][f]]]

(* History: these files are kept from ATS, until it has read what is on    *)
(* disk.  Whether the run reloads ATS has no part in it.                   *)
KeptFromATS(r, files) ==
    unloaded' = [unloaded EXCEPT ![r[1]] =
        {f \in @ \cup files : loaded'[r[1]][f] # disk'[r[1]][f]}]

StartServices(r) ==
    /\ run[r].pc = "services"
    /\ IF Reloads(r) THEN Reload(r[1]) ELSE UNCHANGED loaded
    /\ UNCHANGED <<flagVars, content, disk, lock, metadata, wanted, overtaken, skipped, faults>>
    /\ KeptFromATS(r, IF NeedsRestart(r) THEN run[r].changed ELSE {})
    /\ run' = [run EXCEPT
            ![r].pc = "report",
            ![r].needs = IF @ = "Needed" THEN "Successful" ELSE @]

StartServicesFails(r) ==
    /\ run[r].pc = "services"
    /\ Fault("services")
    /\ UNCHANGED <<flagVars, content, disk, loaded, wanted, overtaken, skipped>>
    /\ KeptFromATS(r, run[r].changed)
    /\ GitCommitAndExit(r)

AckKind(r) == IF run[r].scope = "reval" THEN "reval" ELSE "config"

PerformUpdate(r, status) ==
    \/ run[r].needs = "Successful"
    \/ run[r].needs = "NotNeeded" /\ \E k \in Kinds : Pending(status, r[1], k)

(* The status is read again, and the update time found now is the one      *)
(* that will be reported as applied.                                       *)
UpdateTrafficOps(r) ==
    LET status == getServerUpdateStatus
    IN  /\ run[r].pc = "report"
        /\ IF PerformUpdate(r, status)
           THEN /\ run' = [run EXCEPT ![r].pc = "send",
                        ![r].seen = status.update[<<r[1], AckKind(r)>>]]
                /\ UNCHANGED Continuing
           ELSE GitCommitAndExit(r) /\ UNCHANGED Unlocking

(* Seeded fault: the report says "no update pending" instead of a time.    *)
ReportApplied_Flag(r) == SetApplyUpdateForServerWithTime(r[1], AckKind(r), clock)

ReportApplied(r) == SetApplyUpdateForServerWithTime(r[1], AckKind(r), run[r].seen)

(* History: what the report leaves out, among the files it vouches for.    *)
Excused(before, new, k) == (before \ FilesUnder(k)) \cup (new \cap FilesUnder(k))

sendUpdate(r) ==
    /\ ReportApplied(r)
    /\ overtaken' = [overtaken EXCEPT ![r[1]] = Excused(@, run[r].late, AckKind(r))]
    /\ skipped' = [skipped EXCEPT ![r[1]] = Excused(@, run[r].skipped, AckKind(r))]
    /\ UNCHANGED <<content, disk, loaded, wanted, unloaded>>

Send(r) ==
    /\ run[r].pc = "send"
    /\ sendUpdate(r)
    /\ GitCommitAndExit(r)
    /\ UNCHANGED faults

(* Traffic Ops has done it but the answer is lost: GetRetry sends it again.*)
SendAgain(r) ==
    /\ run[r].pc = "send"
    /\ Fault("response")
    /\ sendUpdate(r)
    /\ UNCHANGED <<run, lock, metadata>>

(* A request to Traffic Ops fails for good: the run ends.                  *)
TrafficOpsFails(r) ==
    /\ run[r].pc \in {"check", "recheck", "checkReval", "generate", "report", "send"}
    /\ Fault("traffic_ops")
    /\ GitCommitAndExit(r)
    /\ UNCHANGED <<flagVars, content, disk, loaded, history>>

(* The host or the process dies, perhaps between the replacement of two    *)
(* files; each file is replaced by a rename, so it is whole.               *)
Crash(r) ==
    /\ run[r].pc # "idle"
    /\ Fault("crash")
    /\ UNCHANGED <<flagVars, content, loaded, metadata, wanted, overtaken, skipped>>
    /\ IF run[r].pc = "process"
       THEN \E done \in SUBSET Changes(r) : replaceCfgFile(r, done) /\ KeptFromATS(r, done)
       ELSE /\ UNCHANGED disk
            /\ KeptFromATS(r, IF run[r].pc = "services" THEN run[r].changed ELSE {})
    /\ Gone(r)

Step(r) ==
    \/ CheckSyncDSState(r) \/ RecheckParents(r) \/ CheckRevalidateState(r)
    \/ PanicWithoutMetadata(r) \/ GetConfigFileList(r) \/ ProcessConfigFiles(r)
    \/ StartServices(r) \/ StartServicesFails(r)
    \/ UpdateTrafficOps(r) \/ Send(r) \/ SendAgain(r)
    \/ TrafficOpsFails(r) \/ Crash(r)

Next ==
    \/ \E f \in Files : Change(f)
    \/ \E S \in QueueSets : Queue(S) \/ Invalidate(S) \/ Dequeue(S)
    \/ \E s \in Servers, k \in Kinds : Clear(s, k)
    \/ RefreshStatusCache
    \/ \E r \in Runs : Start(r) \/ Step(r)

Spec == Init /\ [][Next]_vars

(* A run that was started goes on.  Cron starts every job again and again, *)
(* and t3c-apply retries the lock file for a minute, so no job is kept     *)
(* from starting for ever.  The status cache is refreshed by a timer.      *)
Fairness ==
    /\ \A r \in Runs : WF_vars(Step(r)) /\ SF_vars(Start(r))
    /\ WF_vars(RefreshStatusCache)

FairSpec == Spec /\ Fairness

(***************************************************************************)
(* Properties.                                                             *)
(***************************************************************************)

(* When Traffic Ops shows no update pending for a server, the files on its *)
(* disk are at least as new as what the operators last asked for, except   *)
(* those whose request came between GetConfigFileList and UpdateTrafficOps *)
(* of the run that reported (overtaken), and those that run failed to      *)
(* write (skipped).  So failed audits, failed reloads, crashes, lost and   *)
(* repeated reports, a stale status cache and concurrent jobs lose nothing.*)
AcknowledgedIsApplied ==
    \A s \in Servers, f \in Files :
        \/ Pending(Current, s, FlagOf(f))
        \/ f \in overtaken[s] \cup skipped[s]
        \/ disk[s][f] >= wanted[s][f]

(* Then ATS has also read them, except those that were kept from it        *)
(* (unloaded): their run's reload failed (torequest.go:1225), it crashed   *)
(* before the reload, or it also changed a file that needs a restart.  So  *)
(* every other run that replaces a file, whichever mode it runs in and     *)
(* however many jobs there are, reloads ATS before it reports.             *)
AcknowledgedIsLoaded ==
    \A s \in Servers, f \in Files :
        \/ Pending(Current, s, FlagOf(f))
        \/ f \in overtaken[s] \cup skipped[s] \cup unloaded[s]
        \/ loaded[s][f] >= wanted[s][f]

(* The cache's files follow the abstract delivery: no run, whatever fails, *)
(* puts back an older revision than the one on disk.                       *)
Delivery == INSTANCE ConfigDelivery WITH published <- content, held <- disk

DeliverySpec == Delivery!Spec

(* Every queued update or revalidation is eventually reported applied (or  *)
(* taken back), although caches wait for their parents and both jobs share *)
(* a lock.                                                                 *)
QueuedIsCleared ==
    \A s \in Servers, k \in Kinds :
        Pending(Current, s, k) ~> ~Pending(Current, s, k)

(* The timestamps were introduced so that an update queued while another   *)
(* is applied is not lost: no update pending, nothing outstanding.         *)
AcknowledgedIsCurrent ==
    \A s \in Servers, f \in Files :
        Pending(Current, s, FlagOf(f)) \/ disk[s][f] >= wanted[s][f]
=============================================================================
