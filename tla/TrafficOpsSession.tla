-------------------------- MODULE TrafficOpsSession --------------------------
(***************************************************************************)
(* Where a monitor gets its configuration and the CDN snapshot (CRConfig)  *)
(* from: the login to Traffic Ops with its retries, the poller that asks   *)
(* for both through the up-to-date client, the legacy client or the backup *)
(* files, HTTP requests that fetch the snapshot on their own while there   *)
(* is none, and the ring buffer of what was fetched                        *)
(* (traffic_monitor/towrap, manager/opsconfig.go, poller/monitorconfig.go).*)
(* Traffic Ops comes and goes for either client, and the monitor crashes.  *)
(* A snapshot is its date; 0 stands for none.                              *)
(***************************************************************************)
EXTENDS Integers, Sequences

CONSTANTS
    Requests,       \* concurrent HTTP requests for the CRConfig
    Poller,         \* the MonitorConfigPoller
    ConfiguredCDN,  \* traffic_ops.cfg names the CDN
    DiskRetryMax,   \* traffic_ops_disk_retry_max
    HistoryLimit,   \* crconfig_history_count
    WordSize,       \* 2^64
    Broken,         \* the contents of a file whose writing was cut short
    Faults, MaxFaults, MaxDate

Clients == {"current", "legacy"}
Callers == Requests \cup {Poller}

ASSUME SessionAssumption ==
    /\ Poller \notin Requests
    /\ ConfiguredCDN \in BOOLEAN
    /\ DiskRetryMax \in Nat /\ MaxFaults \in Nat /\ MaxDate \in Nat \ {0}
    /\ HistoryLimit \in Nat \ {0} /\ WordSize \in Nat /\ WordSize >= HistoryLimit
    /\ Broken \notin Int
    /\ Faults \subseteq {"outage", "disk", "crash", "reload"}

VARIABLES
    up,             \* the clients that Traffic Ops answers
    snapshot,       \* the date of the CDN's snapshot
    backup,         \* CRConfigBackupFile and TMConfigBackupFile
    ops,            \* where the ops config manager is
    logins,         \* toLoginCount
    session,        \* Initialized()
    cdn,            \* the poller has a session and the name of its CDN
    call,           \* the calls of CRConfigRaw, and the poll around the poller's
    last,           \* lastCRConfig
    hist,           \* crConfigHist
    config,         \* what the poller last passed on to the config manager
    recent,         \* history: the latest additions that crConfigHist took, oldest
                    \* first, and the newest one it was given
    faults          \* faults so far

login == <<ops, logins, session, cdn>>
vars  == <<up, snapshot, backup, login, call, last, hist, config, recent, faults>>

Dates == Nat \ {0}

Entries == [addr : {"ops", "local"}, date : Nat]

NoCall == [pc |-> "idle", tm |-> 0, date |-> 0, ok |-> FALSE]

EmptyRing ==
    [slots |-> [i \in 0..(HistoryLimit - 1) |-> [addr |-> "ops", date |-> 0]],
     pos |-> 0, length |-> 0]

NothingAdded == [taken |-> <<>>, newest |-> [addr |-> "ops", date |-> 0]]

(* The type invariant; in particular the ring's position stays inside it.  *)
TypeOK ==
    /\ up \subseteq Clients
    /\ snapshot \in Dates
    /\ backup \in [{"cr", "tm"} -> Nat \cup {Broken}]
    /\ ops \in {"login", "cdn", "done"}
    /\ logins \in Nat
    /\ session \in BOOLEAN /\ cdn \in BOOLEAN
    /\ call \in [Callers ->
            [pc : {"idle", "writeTM", "fetch", "writeCR", "validate", "set", "add"},
             tm : Nat, date : Nat, ok : BOOLEAN]]
    /\ last \in Nat
    /\ hist \in [slots : [0..(HistoryLimit - 1) -> Entries],
                 pos : 0..(HistoryLimit - 1), length : 0..HistoryLimit]
    /\ config \in Nat
    /\ recent \in [taken : Seq(Entries), newest : Entries]
    /\ faults \in Nat

Init ==
    /\ up = Clients
    /\ snapshot = 1
    /\ backup = [f \in {"cr", "tm"} |-> 0]
    /\ ops = "login" /\ logins = 0
    /\ session = FALSE /\ cdn = FALSE
    /\ call = [c \in Callers |-> NoCall]
    /\ last = 0 /\ config = 0
    /\ hist = EmptyRing /\ recent = NothingAdded
    /\ faults = 0

Fault(kind) ==
    /\ kind \in Faults /\ faults < MaxFaults
    /\ faults' = faults + 1

(***************************************************************************)
(* Traffic Ops.                                                            *)
(***************************************************************************)
Outage ==
    /\ Fault("outage")
    /\ up' \in SUBSET up \ {up}
    /\ UNCHANGED <<snapshot, backup, login, call, last, hist, config, recent>>

Recovery ==
    /\ up # Clients
    /\ up' = Clients
    /\ UNCHANGED <<snapshot, backup, login, call, last, hist, config, recent, faults>>

TakeSnapshot ==
    /\ snapshot < MaxDate
    /\ snapshot' = snapshot + 1
    /\ UNCHANGED <<up, backup, login, call, last, hist, config, recent, faults>>

(***************************************************************************)
(* The ops config manager: onChange at start-up and on SIGHUP.             *)
(***************************************************************************)
BackupFileExists == \A f \in {"cr", "tm"} : backup[f] # 0

(* Update puts unauthenticated sessions in place before it logs in.  After *)
(* a failure onChange tries again, or goes on with the backup files.       *)
Update ==
    /\ ops = "login"
    /\ session' = TRUE
    /\ IF up # {} \/ (BackupFileExists /\ logins >= DiskRetryMax)
       THEN ops' = "cdn" /\ UNCHANGED logins
       ELSE logins' = (IF logins < DiskRetryMax THEN logins + 1 ELSE logins) /\ UNCHANGED ops
    /\ UNCHANGED <<up, snapshot, backup, cdn, call, last, hist, config, recent, faults>>

MonitorCDN ==
    /\ ops = "cdn"
    /\ ops' = "done"
    /\ cdn' = (up # {} \/ ConfiguredCDN)
    /\ UNCHANGED <<up, snapshot, backup, logins, session, call, last, hist, config,
                   recent, faults>>

Reload ==
    /\ ops = "done" /\ Fault("reload")
    /\ ops' = "login" /\ logins' = 0
    /\ UNCHANGED <<up, snapshot, backup, session, cdn, call, last, hist, config, recent>>

(***************************************************************************)
(* CRConfigHistoryThreadsafe.                                              *)
(***************************************************************************)

(* (pos-1)%limit on unsigned integers.                                     *)
Before(pos) == ((pos + WordSize - 1) % WordSize) % HistoryLimit

(* Seeded fault: the position is not wrapped around.                       *)
After_Unwrapped(pos) == pos + 1

After(pos) == (pos + 1) % HistoryLimit

(* Seeded fault: only the addresses are compared, not the dates.           *)
Repeats_Address(h, e) == h.length # 0 /\ h.slots[Before(h.pos)].addr = e.addr

(* Does e repeat the entry before the position?                            *)
Repeats(h, e) == h.length # 0 /\ h.slots[Before(h.pos)] = e

Add(h, e) ==
    IF Repeats(h, e) THEN h
    ELSE [slots |-> [h.slots EXCEPT ![h.pos] = e],
          pos |-> After(h.pos),
          length |-> IF h.length < HistoryLimit THEN h.length + 1 ELSE h.length]

Get(h) ==
    IF h.length < HistoryLimit
    THEN [i \in 1..h.length |-> h.slots[i - 1]]
    ELSE [i \in 1..HistoryLimit |->
            IF h.pos + i <= HistoryLimit THEN h.slots[h.pos + i - 1]
            ELSE h.slots[h.pos + i - 1 - HistoryLimit]]

(* History: e was added, and taken unless the ring took it for a repeat.   *)
Latest(s, e) == IF Len(s) < HistoryLimit THEN Append(s, e) ELSE Append(Tail(s), e)

Remember(e) ==
    recent' = [taken |-> IF Repeats(hist, e) THEN recent.taken ELSE Latest(recent.taken, e),
               newest |-> e]

(***************************************************************************)
(* The poller: TrafficMonitorConfigMap, then CRConfigRaw, then writeConfig.*)
(***************************************************************************)
Becomes(c, new) == call' = [call EXCEPT ![c] = new]

Goto(c, pc) == Becomes(c, [call[c] EXCEPT !.pc = pc])

Fetching == <<up, snapshot, login, last, hist, config, recent>>

(* A tick that finds neither Traffic Ops nor a usable backup does nothing. *)
TrafficMonitorConfigMap ==
    /\ call[Poller].pc = "idle" /\ session /\ cdn
    /\ \/ up # {} /\ Becomes(Poller, [NoCall EXCEPT !.pc = "writeTM", !.tm = snapshot])
       \/ /\ up = {} /\ BackupFileExists /\ backup["tm"] # Broken
          /\ Becomes(Poller, [NoCall EXCEPT !.pc = "fetch", !.tm = backup["tm"]])
    /\ UNCHANGED <<Fetching, backup, faults>>

(* ioutil.WriteFile; an error is only logged.                              *)
WriteBackup(f, date) ==
    \/ backup' = [backup EXCEPT ![f] = date] /\ UNCHANGED faults
    \/ backup' = [backup EXCEPT ![f] = Broken] /\ Fault("disk")

WriteTMBackup ==
    /\ call[Poller].pc = "writeTM"
    /\ WriteBackup("tm", call[Poller].tm)
    /\ Goto(Poller, "fetch")
    /\ UNCHANGED Fetching

(* srvTRConfig calls LastCRConfig, which fetches if there is nothing yet.  *)
Request(q) ==
    /\ call[q].pc = "idle"
    /\ session /\ (ConfiguredCDN \/ (ops = "done" /\ cdn))
    /\ last = 0
    /\ Becomes(q, [NoCall EXCEPT !.pc = "fetch"])
    /\ UNCHANGED <<Fetching, backup, faults>>

(* Seeded fault: a snapshot that was fetched before is fetched no more.    *)
Fetched_Once == IF last # 0 THEN last ELSE snapshot

Fetched == snapshot

(* The answer of the legacy client is dropped: its err shadows the one     *)
(* that is tested.  The backup file is read, and then unmarshalled into    *)
(* the nil pointer crConfig, which is an error.                            *)
FetchCRConfig(c) ==
    /\ call[c].pc = "fetch"
    /\ Becomes(c,
         IF "current" \in up THEN [call[c] EXCEPT !.pc = "writeCR", !.date = Fetched]
         ELSE IF BackupFileExists THEN [call[c] EXCEPT !.pc = "add"]
         ELSE NoCall)
    /\ UNCHANGED <<Fetching, backup, faults>>

WriteCRBackup(c) ==
    /\ call[c].pc = "writeCR"
    /\ WriteBackup("cr", call[c].date)
    /\ Goto(c, "validate")
    /\ UNCHANGED Fetching

(* Seeded fault: a snapshot has to be newer than the last one.             *)
CRConfigValid_Newer(date) == last < date

CRConfigValid(date) == last <= date

ValidateCRConfig(c) ==
    /\ call[c].pc = "validate"
    /\ Goto(c, IF CRConfigValid(call[c].date) THEN "set" ELSE "add")
    /\ UNCHANGED <<Fetching, backup, faults>>

SetCRConfig(c) ==
    /\ call[c].pc = "set"
    /\ last' = call[c].date
    /\ Becomes(c, [call[c] EXCEPT !.pc = "add", !.ok = TRUE])
    /\ UNCHANGED <<up, snapshot, backup, login, hist, config, recent, faults>>

Entry(c) ==
    [addr |-> IF call[c].date = 0 THEN "local" ELSE "ops", date |-> call[c].date]

(* The deferred crConfigHist.Add; the poller then passes a configuration   *)
(* on if both were fetched.                                                *)
ReturnCRConfig(c) ==
    /\ call[c].pc = "add"
    /\ hist' = Add(hist, Entry(c))
    /\ Remember(Entry(c))
    /\ config' = IF c = Poller /\ call[c].ok THEN call[c].tm ELSE config
    /\ Becomes(c, NoCall)
    /\ UNCHANGED <<up, snapshot, backup, login, last, faults>>

(***************************************************************************)
(* The monitor crashes and is started again; a file it was writing is cut  *)
(* short.                                                                  *)
(***************************************************************************)
Writing(f) ==
    \E c \in Callers : call[c].pc = IF f = "cr" THEN "writeCR" ELSE "writeTM"

Crash ==
    /\ Fault("crash")
    /\ \E cut \in SUBSET {f \in {"cr", "tm"} : Writing(f)} :
         backup' = [f \in {"cr", "tm"} |-> IF f \in cut THEN Broken ELSE backup[f]]
    /\ ops' = "login" /\ logins' = 0 /\ session' = FALSE /\ cdn' = FALSE
    /\ call' = [c \in Callers |-> NoCall]
    /\ last' = 0 /\ config' = 0
    /\ hist' = EmptyRing /\ recent' = NothingAdded
    /\ UNCHANGED <<up, snapshot>>

CRConfigRaw(c) ==
    \/ FetchCRConfig(c) \/ WriteCRBackup(c) \/ ValidateCRConfig(c) \/ SetCRConfig(c)
    \/ ReturnCRConfig(c)

Poll == TrafficMonitorConfigMap \/ WriteTMBackup

Next ==
    \/ Outage \/ Recovery \/ TakeSnapshot
    \/ Update \/ MonitorCDN \/ Reload
    \/ Poll
    \/ \E q \in Requests : Request(q)
    \/ \E c \in Callers : CRConfigRaw(c)
    \/ Crash

Spec == Init /\ [][Next]_vars

(* The manager's loop, the poller's ticker and every call go on.  Nothing  *)
(* is assumed of Traffic Ops or of who asks the monitor.                   *)
Fairness ==
    /\ WF_vars(Update) /\ WF_vars(MonitorCDN) /\ WF_vars(Poll)
    /\ \A c \in Callers : WF_vars(CRConfigRaw(c))

FairSpec == Spec /\ Fairness

(***************************************************************************)
(* Properties.                                                             *)
(***************************************************************************)

(* For every crconfig_history_count, and whoever adds: the ring lists the  *)
(* latest entries it took, in order; the newest addition is among them,    *)
(* taken or not; and no entry repeats the one before it, except the entry  *)
(* in the first slot.  Where the limit does not divide 2^64, as the        *)
(* default of 100, Add compares that one with some other entry             *)
(* (towrap.go:153, against :146-147).                                      *)
HistoryKeepsLatest ==
    /\ Get(hist) = recent.taken
    /\ hist.length # 0 => \E i \in 1..Len(recent.taken) : recent.taken[i] = recent.newest
    /\ \A j \in 1..(hist.length - 1) :
         j # hist.pos => hist.slots[j] # hist.slots[j - 1]

(* "poll the CRConfig so that it is synchronized with the TMConfig": a     *)
(* configuration is passed on only with a snapshot of the CDN that is at   *)
(* least as new, through outages, fallbacks and restarts.                  *)
Synchronised ==
    [][config' # config => config' <= call[Poller].date]_vars

(* Once Traffic Ops answers for good, the monitor ends up with the latest  *)
(* snapshot in memory, in its configuration and in both backup files,      *)
(* whatever was refused, overwritten or cut short before, and although an  *)
(* HTTP request may bring back an older one.                               *)
CatchesUp ==
    <>[]("current" \in up) =>
        <>[](last = snapshot /\ config = snapshot /\ \A f \in {"cr", "tm"} : backup[f] = snapshot)

(* "This allows the monitor to come up and continue serving even if        *)
(* Traffic Ops is down": with two whole backup files it gets a             *)
(* configuration.                                                          *)
ComesUpFromBackup ==
    <>[](up = {} /\ BackupFileExists /\ \A f \in {"cr", "tm"} : backup[f] # Broken) =>
        <>[](config # 0)
=============================================================================
