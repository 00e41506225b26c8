----------------------- MODULE TrafficOpsSessionProofs -----------------------
(***************************************************************************)
(* Proofs about TrafficOpsSession, for any number of concurrent requests,  *)
(* any history limit and word size, and any faults.                        *)
(***************************************************************************)
EXTENDS TrafficOpsSession, TLAPS

USE SessionAssumption DEF Callers

Calls ==
    [pc : {"idle", "writeTM", "fetch", "writeCR", "validate", "set", "add"},
     tm : Nat, date : Nat, ok : BOOLEAN]

Rings ==
    [slots : [0..(HistoryLimit - 1) -> Entries],
     pos : 0..(HistoryLimit - 1), length : 0..HistoryLimit]

LEMMA NoCallType == NoCall \in Calls
BY DEF NoCall, Calls

LEMMA EmptyRingType == EmptyRing \in Rings
BY DEF EmptyRing, Rings, Entries

LEMMA AfterType == \A pos \in 0..(HistoryLimit - 1) : After(pos) \in 0..(HistoryLimit - 1)
BY DEF After

(* An addition keeps the ring inside its bounds.                           *)
LEMMA AddType ==
    ASSUME NEW h \in Rings, NEW e \in Entries
    PROVE  Add(h, e) \in Rings
<1>1. CASE Add(h, e) = h  BY <1>1
<1>2. CASE Add(h, e) # h
  <2>1. h.slots \in [0..(HistoryLimit - 1) -> Entries] /\ h.pos \in 0..(HistoryLimit - 1)
        /\ h.length \in 0..HistoryLimit
    BY DEF Rings
  <2>2. Add(h, e) = [slots |-> [h.slots EXCEPT ![h.pos] = e], pos |-> After(h.pos),
                     length |-> IF h.length < HistoryLimit THEN h.length + 1 ELSE h.length]
    BY <1>2 DEF Add
  <2>3. After(h.pos) \in 0..(HistoryLimit - 1)  BY <2>1, AfterType
  <2>4. (IF h.length < HistoryLimit THEN h.length + 1 ELSE h.length) \in 0..HistoryLimit
    BY <2>1
  <2>5. [h.slots EXCEPT ![h.pos] = e] \in [0..(HistoryLimit - 1) -> Entries]  BY <2>1
  <2>6. QED  BY <2>2, <2>3, <2>4, <2>5 DEF Rings
<1>3. QED  BY <1>1, <1>2

LEMMA LatestType ==
    ASSUME NEW s \in Seq(Entries), NEW e \in Entries
    PROVE  Latest(s, e) \in Seq(Entries)
<1>1. CASE Len(s) < HistoryLimit  BY <1>1 DEF Latest
<1>2. CASE ~(Len(s) < HistoryLimit)
  <2>1. s # <<>>  BY <1>2
  <2>2. Tail(s) \in Seq(Entries)  BY <2>1
  <2>3. QED  BY <1>2, <2>2 DEF Latest
<1>3. QED  BY <1>1, <1>2

Added == [taken : Seq(Entries), newest : Entries]

LEMMA NothingAddedType == NothingAdded \in Added
<1>1. <<>> \in Seq(Entries) /\ [addr |-> "ops", date |-> 0] \in Entries  BY DEF Entries
<1>2. QED  BY <1>1 DEF NothingAdded, Added

(* A step of one caller leaves well-typed calls.                           *)
LEMMA BecomesType ==
    ASSUME TypeOK, NEW c \in Callers, NEW new \in Calls, Becomes(c, new)
    PROVE  call' \in [Callers -> Calls]
BY DEF TypeOK, Becomes, Calls

LEMMA GotoType ==
    ASSUME TypeOK, NEW c \in Callers, NEW pc \in {"fetch", "validate", "set", "add"},
           Goto(c, pc)
    PROVE  call' \in [Callers -> Calls]
<1>1. call[c] \in Calls  BY DEF TypeOK, Calls
<1>2. [call[c] EXCEPT !.pc = pc] \in Calls  BY <1>1 DEF Calls
<1>3. QED  BY <1>2, BecomesType DEF Goto

LEMMA BackupType ==
    ASSUME TypeOK, NEW f \in {"cr", "tm"}, NEW date \in Nat, WriteBackup(f, date)
    PROVE  /\ backup' \in [{"cr", "tm"} -> Nat \cup {Broken}]
           /\ faults' \in Nat
BY DEF TypeOK, WriteBackup, Fault

LEMMA TypeStep ==
    ASSUME TypeOK, [Next]_vars
    PROVE  TypeOK'
<1> USE DEF login, Fetching
<1>0. /\ call \in [Callers -> Calls] /\ hist \in Rings /\ Poller \in Callers
      /\ \A c \in Callers : call[c] \in Calls
  BY DEF TypeOK, Calls, Rings
<1>1. CASE Outage  BY <1>1 DEF Outage, Fault, TypeOK, Clients
<1>2. CASE Recovery  BY <1>2 DEF Recovery, TypeOK
<1>3. CASE TakeSnapshot  BY <1>3 DEF TakeSnapshot, TypeOK, Dates
<1>4. CASE Update  BY <1>4 DEF Update, TypeOK
<1>5. CASE MonitorCDN
  <2>1. cdn' \in BOOLEAN  BY <1>5 DEF MonitorCDN
  <2>2. QED  BY <1>5, <2>1 DEF MonitorCDN, TypeOK
<1>6. CASE Reload  BY <1>6 DEF Reload, Fault, TypeOK
<1>7. CASE TrafficMonitorConfigMap
  <2>1. \E new \in Calls : Becomes(Poller, new)
    <3>1. snapshot \in Nat  BY DEF TypeOK, Dates
    <3>2. [NoCall EXCEPT !.pc = "writeTM", !.tm = snapshot] \in Calls
      BY <3>1, NoCallType DEF Calls
    <3>3. backup["tm"] # Broken => [NoCall EXCEPT !.pc = "fetch", !.tm = backup["tm"]] \in Calls
      <4>1. backup["tm"] # Broken => backup["tm"] \in Nat  BY DEF TypeOK
      <4>2. QED  BY <4>1, NoCallType DEF Calls
    <3>4. QED  BY <1>7, <3>2, <3>3 DEF TrafficMonitorConfigMap
  <2>2. call' \in [Callers -> Calls]  BY <1>0, <2>1, BecomesType
  <2>3. QED  BY <1>7, <2>2 DEF TrafficMonitorConfigMap, TypeOK, Calls
<1>8. CASE WriteTMBackup
  <2>1. call[Poller].tm \in Nat  BY <1>0 DEF Calls
  <2>2. backup' \in [{"cr", "tm"} -> Nat \cup {Broken}] /\ faults' \in Nat
    BY <1>8, <2>1, BackupType DEF WriteTMBackup
  <2>3. call' \in [Callers -> Calls]  BY <1>0, <1>8, GotoType DEF WriteTMBackup
  <2>4. QED  BY <1>8, <2>2, <2>3 DEF WriteTMBackup, TypeOK, Calls
<1>9. ASSUME NEW q \in Requests, Request(q)  PROVE TypeOK'
  <2>1. [NoCall EXCEPT !.pc = "fetch"] \in Calls  BY NoCallType DEF Calls
  <2>2. call' \in [Callers -> Calls]  BY <1>9, <2>1, BecomesType DEF Request
  <2>3. QED  BY <1>9, <2>2 DEF Request, TypeOK, Calls
<1>10. ASSUME NEW c \in Callers, FetchCRConfig(c)  PROVE TypeOK'
  <2>1. snapshot \in Nat  BY DEF TypeOK, Dates
  <2>2. [call[c] EXCEPT !.pc = "writeCR", !.date = snapshot] \in Calls
    BY <1>0, <2>1 DEF Calls
  <2>3. [call[c] EXCEPT !.pc = "add"] \in Calls  BY <1>0 DEF Calls
  <2>4. \E new \in Calls : Becomes(c, new)
    BY <1>10, <2>2, <2>3, NoCallType DEF FetchCRConfig, Fetched
  <2>5. call' \in [Callers -> Calls]  BY <2>4, BecomesType
  <2>6. QED  BY <1>10, <2>5 DEF FetchCRConfig, TypeOK, Calls
<1>11. ASSUME NEW c \in Callers, WriteCRBackup(c)  PROVE TypeOK'
  <2>1. call[c].date \in Nat  BY <1>0 DEF Calls
  <2>2. backup' \in [{"cr", "tm"} -> Nat \cup {Broken}] /\ faults' \in Nat
    BY <1>11, <2>1, BackupType DEF WriteCRBackup
  <2>3. call' \in [Callers -> Calls]  BY <1>11, GotoType DEF WriteCRBackup
  <2>4. QED  BY <1>11, <2>2, <2>3 DEF WriteCRBackup, TypeOK, Calls
<1>12. ASSUME NEW c \in Callers, ValidateCRConfig(c)  PROVE TypeOK'
  <2>1. call' \in [Callers -> Calls]  BY <1>12, GotoType DEF ValidateCRConfig
  <2>2. QED  BY <1>12, <2>1 DEF ValidateCRConfig, TypeOK, Calls
<1>13. ASSUME NEW c \in Callers, SetCRConfig(c)  PROVE TypeOK'
  <2>1. call[c].date \in Nat  BY <1>0 DEF Calls
  <2>2. [call[c] EXCEPT !.pc = "add", !.ok = TRUE] \in Calls  BY <1>0 DEF Calls
  <2>3. call' \in [Callers -> Calls]  BY <1>13, <2>2, BecomesType DEF SetCRConfig
  <2>4. QED  BY <1>13, <2>1, <2>3 DEF SetCRConfig, TypeOK, Calls
<1>14. ASSUME NEW c \in Callers, ReturnCRConfig(c)  PROVE TypeOK'
  <2>1. call[c].date \in Nat /\ call[c].tm \in Nat  BY <1>0 DEF Calls
  <2>2. Entry(c) \in Entries  BY <2>1 DEF Entry, Entries
  <2>3. hist' \in Rings  BY <1>0, <1>14, <2>2, AddType DEF ReturnCRConfig
  <2>4. recent' \in Added
    <3>1. recent.taken \in Seq(Entries)  BY DEF TypeOK
    <3>2. Latest(recent.taken, Entry(c)) \in Seq(Entries)  BY <2>2, <3>1, LatestType
    <3>3. QED  BY <1>14, <2>2, <3>1, <3>2 DEF ReturnCRConfig, Remember, Added
  <2>5. call' \in [Callers -> Calls]  BY <1>14, NoCallType, BecomesType DEF ReturnCRConfig
  <2>6. config' \in Nat  BY <1>14, <2>1 DEF ReturnCRConfig, TypeOK
  <2>7. QED  BY <1>14, <2>3, <2>4, <2>5, <2>6 DEF ReturnCRConfig, TypeOK, Calls, Rings, Added
<1>15. CASE Crash
  <2>1. backup' \in [{"cr", "tm"} -> Nat \cup {Broken}]  BY <1>15 DEF Crash, TypeOK
  <2>2. call' \in [Callers -> Calls] /\ hist' \in Rings
    BY <1>15, NoCallType, EmptyRingType DEF Crash
  <2>3. faults' \in Nat  BY <1>15 DEF Crash, Fault, TypeOK
  <2>4. recent' \in Added  BY <1>15, NothingAddedType DEF Crash
  <2>5. QED  BY <1>15, <2>1, <2>2, <2>3, <2>4 DEF Crash, TypeOK, Calls, Rings, Added
<1>16. CASE UNCHANGED vars  BY <1>16 DEF vars, TypeOK
<1>17. QED
  BY <1>1, <1>2, <1>3, <1>4, <1>5, <1>6, <1>7, <1>8, <1>9, <1>10, <1>11, <1>12, <1>13,
     <1>14, <1>15, <1>16 DEF Next, Poll, CRConfigRaw

LEMMA TypeInit == Init => TypeOK
<1> SUFFICES ASSUME Init  PROVE TypeOK  OBVIOUS
<1>1. call \in [Callers -> Calls] /\ hist \in Rings
  BY NoCallType, EmptyRingType DEF Init
<1>2. recent \in Added  BY NothingAddedType DEF Init
<1>3. up \subseteq Clients /\ snapshot \in Dates  BY DEF Init, Dates
<1>4. backup \in [{"cr", "tm"} -> Nat \cup {Broken}]  BY DEF Init
<1>5. ops \in {"login", "cdn", "done"} /\ session \in BOOLEAN /\ cdn \in BOOLEAN  BY DEF Init
<1>6. logins \in Nat /\ last \in Nat /\ config \in Nat /\ faults \in Nat  BY DEF Init
<1>7. QED  BY <1>1, <1>2, <1>3, <1>4, <1>5, <1>6 DEF TypeOK, Calls, Rings, Added

(* Every variable keeps its type; the ring's position and length stay      *)
(* within its limit.                                                       *)
THEOREM TypeCorrect == Spec => []TypeOK
<1>1. TypeOK /\ [Next]_vars => TypeOK'  BY TypeStep
<1>2. QED  BY TypeInit, <1>1, PTL DEF Spec

(***************************************************************************)
(* The invariant behind Synchronised: no configuration the poller may      *)
(* read, or has read, is newer than the present snapshot, and none is      *)
(* newer than the snapshot the poller has fetched after it.                *)
(***************************************************************************)
Ordered ==
    /\ backup["tm"] \in Nat => backup["tm"] <= snapshot
    /\ call[Poller].tm <= snapshot
    /\ (call[Poller].pc \in {"writeCR", "validate", "set"} \/ call[Poller].ok)
       => call[Poller].tm <= call[Poller].date

LEMMA SameOrder ==
    ASSUME Ordered, UNCHANGED <<snapshot, backup>>, call'[Poller] = call[Poller]
    PROVE  Ordered'
BY DEF Ordered

LEMMA OrderedStep ==
    ASSUME TypeOK, Ordered, [Next]_vars
    PROVE  Ordered' /\ (config' # config => config' <= call[Poller].date)
<1> USE DEF login, Fetching
<1> DEFINE x == call[Poller]
<1>0. /\ TypeOK' /\ Poller \in Callers /\ x \in Calls /\ snapshot \in Nat
      /\ x.tm \in Nat /\ x.date \in Nat /\ x.ok \in BOOLEAN
      /\ \A c \in Callers : call[c] \in Calls
  BY TypeStep DEF TypeOK, Calls, Dates
<1>1. ASSUME NEW c \in Callers, NEW new, Becomes(c, new)
      PROVE  call'[c] = new /\ (c # Poller => call'[Poller] = x)
  BY <1>0, <1>1 DEF Becomes, TypeOK
<1>2. ASSUME NEW c \in Callers, c # Poller, NEW new, Becomes(c, new),
             UNCHANGED <<snapshot, config>>, backup'["tm"] = backup["tm"]
      PROVE  Ordered' /\ config' = config
  <2>1. call'[Poller] = x  BY <1>1, <1>2
  <2>2. QED  BY <1>2, <2>1 DEF Ordered
<1>3. CASE Outage \/ Recovery \/ Update \/ MonitorCDN \/ Reload
  BY <1>3, SameOrder DEF Outage, Recovery, Update, MonitorCDN, Reload
<1>4. CASE TakeSnapshot
  <2>1. snapshot' = snapshot + 1 /\ UNCHANGED <<backup, call, config>>
    BY <1>4 DEF TakeSnapshot
  <2>2. backup["tm"] \in Nat => backup["tm"] <= snapshot + 1  BY <1>0 DEF Ordered
  <2>3. QED  BY <1>0, <2>1, <2>2 DEF Ordered
<1>5. CASE TrafficMonitorConfigMap
  <2>1. UNCHANGED <<snapshot, backup, config>>  BY <1>5 DEF TrafficMonitorConfigMap
  <2>2. PICK new : /\ Becomes(Poller, new)
                   /\ \/ new = [NoCall EXCEPT !.pc = "writeTM", !.tm = snapshot]
                      \/ /\ backup["tm"] # Broken
                         /\ new = [NoCall EXCEPT !.pc = "fetch", !.tm = backup["tm"]]
    BY <1>5 DEF TrafficMonitorConfigMap
  <2>3. new.pc \in {"writeTM", "fetch"} /\ new.ok = FALSE /\ new.tm <= snapshot
    <3>1. backup["tm"] # Broken => backup["tm"] \in Nat  BY DEF TypeOK
    <3>2. CASE new = [NoCall EXCEPT !.pc = "writeTM", !.tm = snapshot]
      <4>1. new.pc = "writeTM" /\ new.tm = snapshot /\ new.ok = FALSE  BY <3>2 DEF NoCall
      <4>2. QED  BY <1>0, <4>1
    <3>3. CASE /\ backup["tm"] # Broken
               /\ new = [NoCall EXCEPT !.pc = "fetch", !.tm = backup["tm"]]
      <4>1. new.pc = "fetch" /\ new.tm = backup["tm"] /\ new.ok = FALSE  BY <3>3 DEF NoCall
      <4>2. backup["tm"] <= snapshot  BY <3>1, <3>3 DEF Ordered
      <4>3. QED  BY <4>1, <4>2
    <3>4. QED  BY <2>2, <3>2, <3>3
  <2>4. call'[Poller] = new  BY <1>0, <1>1, <2>2
  <2>5. QED  BY <2>1, <2>3, <2>4 DEF Ordered
<1>6. CASE WriteTMBackup
  <2>1. UNCHANGED <<snapshot, config>> /\ x.pc = "writeTM"
    BY <1>6 DEF WriteTMBackup
  <2>2. backup'["tm"] \in {x.tm, Broken}
    BY <1>6 DEF WriteTMBackup, WriteBackup, TypeOK
  <2>3. call'[Poller] = [x EXCEPT !.pc = "fetch"]
    BY <1>0, <1>1, <1>6 DEF WriteTMBackup, Goto
  <2>4. call'[Poller].pc = "fetch" /\ call'[Poller].tm = x.tm /\ call'[Poller].ok = x.ok
        /\ call'[Poller].date = x.date
    BY <1>0, <2>3 DEF Calls
  <2>5. backup'["tm"] \in Nat => backup'["tm"] = x.tm  BY <2>2
  <2>6. QED  BY <2>1, <2>4, <2>5 DEF Ordered
<1>7. ASSUME NEW q \in Requests, Request(q)  PROVE Ordered' /\ config' = config
  BY <1>2, <1>7 DEF Request
<1>8. ASSUME NEW c \in Callers, c # Poller, CRConfigRaw(c)
      PROVE  Ordered' /\ config' = config
  <2>1. CASE FetchCRConfig(c)  BY <1>2, <1>8, <2>1 DEF FetchCRConfig
  <2>2. CASE WriteCRBackup(c)
    <3>1. backup'["tm"] = backup["tm"]  BY <2>2 DEF WriteCRBackup, WriteBackup, TypeOK
    <3>2. QED  BY <1>2, <1>8, <2>2, <3>1 DEF WriteCRBackup, Goto
  <2>3. CASE ValidateCRConfig(c)  BY <1>2, <1>8, <2>3 DEF ValidateCRConfig, Goto
  <2>4. CASE SetCRConfig(c)  BY <1>2, <1>8, <2>4 DEF SetCRConfig
  <2>5. CASE ReturnCRConfig(c)  BY <1>2, <1>8, <2>5 DEF ReturnCRConfig
  <2>6. QED  BY <1>8, <2>1, <2>2, <2>3, <2>4, <2>5 DEF CRConfigRaw
<1>9. ASSUME FetchCRConfig(Poller)  PROVE Ordered' /\ config' = config
  <2>1. UNCHANGED <<snapshot, backup, config>> /\ x.pc = "fetch"  BY <1>9 DEF FetchCRConfig
  <2>2. call'[Poller] \in {[x EXCEPT !.pc = "writeCR", !.date = snapshot],
                           [x EXCEPT !.pc = "add"], NoCall}
    BY <1>0, <1>1, <1>9 DEF FetchCRConfig, Fetched
  <2>3. CASE call'[Poller] = [x EXCEPT !.pc = "writeCR", !.date = snapshot]
    <3>1. call'[Poller].tm = x.tm /\ call'[Poller].date = snapshot
      BY <1>0, <2>3 DEF Calls
    <3>2. QED  BY <2>1, <3>1 DEF Ordered
  <2>4. CASE call'[Poller] = [x EXCEPT !.pc = "add"]
    <3>1. /\ call'[Poller].tm = x.tm /\ call'[Poller].date = x.date
          /\ call'[Poller].pc = "add" /\ call'[Poller].ok = x.ok
      BY <1>0, <2>4 DEF Calls
    <3>2. QED  BY <2>1, <3>1 DEF Ordered
  <2>5. CASE call'[Poller] = NoCall
    BY <1>0, <2>1, <2>5 DEF Ordered, NoCall
  <2>6. QED  BY <2>2, <2>3, <2>4, <2>5
<1>10. ASSUME WriteCRBackup(Poller) \/ ValidateCRConfig(Poller) \/ SetCRConfig(Poller)
       PROVE  Ordered' /\ config' = config
  <2>1. UNCHANGED <<snapshot, config>> /\ x.pc \in {"writeCR", "validate", "set"}
    BY <1>10 DEF WriteCRBackup, ValidateCRConfig, SetCRConfig
  <2>2. backup'["tm"] = backup["tm"]
    BY <1>10 DEF WriteCRBackup, WriteBackup, ValidateCRConfig, SetCRConfig, TypeOK
  <2>3. \/ \E pc : call'[Poller] = [x EXCEPT !.pc = pc]
        \/ call'[Poller] = [x EXCEPT !.pc = "add", !.ok = TRUE]
    BY <1>0, <1>1, <1>10 DEF WriteCRBackup, ValidateCRConfig, SetCRConfig, Goto
  <2>4. call'[Poller].tm = x.tm /\ call'[Poller].date = x.date  BY <1>0, <2>3 DEF Calls
  <2>5. QED  BY <2>1, <2>2, <2>4 DEF Ordered
<1>11. ASSUME ReturnCRConfig(Poller)
       PROVE  Ordered' /\ (config' # config => config' <= x.date)
  <2>1. UNCHANGED <<snapshot, backup>> /\ config' = IF x.ok THEN x.tm ELSE config
    BY <1>11 DEF ReturnCRConfig
  <2>2. call'[Poller] = NoCall  BY <1>0, <1>1, <1>11 DEF ReturnCRConfig
  <2>3. Ordered'  BY <1>0, <2>1, <2>2 DEF Ordered, NoCall
  <2>4. config' # config => config' <= x.date  BY <2>1 DEF Ordered
  <2>5. QED  BY <2>3, <2>4
<1>12. CASE Crash
  <2>1. call'[Poller] = NoCall /\ config' = 0 /\ snapshot' = snapshot
    BY <1>0, <1>12 DEF Crash
  <2>2. backup'["tm"] \in {backup["tm"], Broken}  BY <1>12 DEF Crash
  <2>3. QED  BY <1>0, <2>1, <2>2 DEF Ordered, NoCall
<1>13. CASE UNCHANGED vars  BY <1>13, SameOrder DEF vars
<1>14. ASSUME NEW c \in Callers, CRConfigRaw(c)
       PROVE  Ordered' /\ (config' # config => config' <= x.date)
  <2>1. CASE c = Poller  BY <1>9, <1>10, <1>11, <1>14, <2>1 DEF CRConfigRaw
  <2>2. CASE c # Poller  BY <1>8, <1>14, <2>2
  <2>3. QED  BY <2>1, <2>2
<1>15. QED
  BY <1>3, <1>4, <1>5, <1>6, <1>7, <1>12, <1>13, <1>14 DEF Next, Poll

(* A configuration is passed on only with a snapshot that is at least as   *)
(* new, whatever fails, falls back or restarts.                            *)
THEOREM SynchronisedHolds == Spec => Synchronised
<1>1. Init => Ordered  BY DEF Init, Ordered, NoCall, Callers
<1>2. TypeOK /\ Ordered /\ [Next]_vars => Ordered'  BY OrderedStep
<1>3. TypeOK /\ Ordered /\ [Next]_vars =>
        [config' # config => config' <= call[Poller].date]_vars
  BY OrderedStep
<1>4. QED  BY TypeCorrect, <1>1, <1>2, <1>3, PTL DEF Spec, Synchronised

(***************************************************************************)
(* The ring buffer against what it is for.  A ring with room is filled     *)
(* from slot 0; a full one starts at its position.                         *)
(***************************************************************************)
LEMMA ModSmall == ASSUME NEW n \in Nat \ {0}, NEW x \in 0..(n - 1)  PROVE x % n = x
OBVIOUS

LEMMA ModWrap == ASSUME NEW n \in Nat \ {0}, NEW x \in 0..(n - 1)  PROVE (n + x) % n = x
OBVIOUS

LEMMA AfterValue ==
    ASSUME NEW pos \in 0..(HistoryLimit - 1)
    PROVE  After(pos) = IF pos = HistoryLimit - 1 THEN 0 ELSE pos + 1
<1>1. CASE pos = HistoryLimit - 1
  <2>1. (HistoryLimit + 0) % HistoryLimit = 0  BY ModWrap
  <2>2. QED  BY <1>1, <2>1 DEF After
<1>2. CASE pos # HistoryLimit - 1
  <2>1. pos + 1 \in 0..(HistoryLimit - 1)  BY <1>2
  <2>2. QED  BY <1>2, <2>1, ModSmall DEF After
<1>3. QED  BY <1>1, <1>2

LEMMA BeforeValue ==
    ASSUME NEW pos \in 1..(HistoryLimit - 1)
    PROVE  Before(pos) = pos - 1
<1>1. pos - 1 \in 0..(WordSize - 1) /\ pos - 1 \in 0..(HistoryLimit - 1)  OBVIOUS
<1>2. (WordSize + (pos - 1)) % WordSize = pos - 1
  <2>1. WordSize \in Nat \ {0}  BY <1>1
  <2>2. QED  BY <1>1, <2>1, ModWrap
<1>3. pos + WordSize - 1 = WordSize + (pos - 1)  OBVIOUS
<1>4. (pos - 1) % HistoryLimit = pos - 1  BY <1>1, ModSmall
<1>5. QED  BY <1>2, <1>3, <1>4 DEF Before

Slot(h, i) ==
    IF h.length < HistoryLimit THEN h.slots[i - 1]
    ELSE IF h.pos + i <= HistoryLimit THEN h.slots[h.pos + i - 1]
    ELSE h.slots[h.pos + i - 1 - HistoryLimit]

Matches(h, s) ==
    /\ h.length = Len(s)
    /\ h.length < HistoryLimit => h.pos = h.length
    /\ \A i \in 1..Len(s) : s[i] = Slot(h, i)

LEMMA MatchesGet ==
    ASSUME NEW h \in Rings, NEW s \in Seq(Entries), Matches(h, s)
    PROVE  Get(h) = s
<1>1. h.length \in 0..HistoryLimit /\ h.length = Len(s)  BY DEF Rings, Matches
<1>2. s = [i \in 1..Len(s) |-> s[i]]  OBVIOUS
<1>3. s = [i \in 1..Len(s) |-> Slot(h, i)]  BY <1>2 DEF Matches
<1>4. CASE h.length < HistoryLimit  BY <1>1, <1>3, <1>4 DEF Get, Slot
<1>5. CASE ~(h.length < HistoryLimit)
  <2>1. Len(s) = HistoryLimit  BY <1>1, <1>5
  <2>2. QED  BY <1>3, <1>5, <2>1 DEF Get, Slot
<1>6. QED  BY <1>4, <1>5

(* A slot in use is listed, and Before is a slot in use.                   *)
LEMMA SlotListed ==
    ASSUME NEW h \in Rings, NEW s \in Seq(Entries), Matches(h, s), NEW j \in 0..(h.length - 1)
    PROVE  \E i \in 1..Len(s) : s[i] = h.slots[j]
<1>1. /\ h.length \in 0..HistoryLimit /\ h.pos \in 0..(HistoryLimit - 1)
      /\ Len(s) = h.length
  BY DEF Rings, Matches
<1>2. CASE h.length < HistoryLimit
  <2>1. j + 1 \in 1..Len(s) /\ (j + 1) - 1 = j  BY <1>1
  <2>2. s[j + 1] = h.slots[j]  BY <1>2, <2>1 DEF Matches, Slot
  <2>3. QED  BY <2>1, <2>2
<1>3. CASE h.length = HistoryLimit /\ h.pos <= j
  <2> DEFINE i == j - h.pos + 1
  <2>1. i \in 1..Len(s) /\ h.pos + i <= HistoryLimit /\ h.pos + i - 1 = j  BY <1>1, <1>3
  <2>2. s[i] = h.slots[j]  BY <1>3, <2>1 DEF Matches, Slot
  <2>3. QED  BY <2>1, <2>2
<1>4. CASE h.length = HistoryLimit /\ ~(h.pos <= j)
  <2> DEFINE i == j - h.pos + 1 + HistoryLimit
  <2>1. /\ i \in 1..Len(s) /\ ~(h.pos + i <= HistoryLimit)
        /\ h.pos + i - 1 - HistoryLimit = j
    BY <1>1, <1>4
  <2>2. s[i] = h.slots[j]  BY <1>4, <2>1 DEF Matches, Slot
  <2>3. QED  BY <2>1, <2>2
<1>5. QED  BY <1>1, <1>2, <1>3, <1>4

LEMMA BeforeInUse ==
    ASSUME NEW h \in Rings, NEW s \in Seq(Entries), Matches(h, s), h.length # 0
    PROVE  Before(h.pos) \in 0..(h.length - 1)
<1>1. h.length \in 0..HistoryLimit /\ h.pos \in 0..(HistoryLimit - 1)  BY DEF Rings
<1>2. CASE h.pos = 0
  <2>1. h.length = HistoryLimit  BY <1>1, <1>2 DEF Matches
  <2>2. (0 + WordSize - 1) % WordSize \in Nat  OBVIOUS
  <2>3. Before(0) \in 0..(HistoryLimit - 1)  BY <2>2 DEF Before
  <2>4. QED  BY <1>2, <2>1, <2>3
<1>3. CASE h.pos # 0
  <2>1. Before(h.pos) = h.pos - 1  BY <1>1, <1>3, BeforeValue
  <2>2. h.length < HistoryLimit => h.pos = h.length  BY DEF Matches
  <2>3. QED  BY <1>1, <1>3, <2>1, <2>2
<1>4. QED  BY <1>2, <1>3

(* What an addition that is taken makes of the ring.                       *)
LEMMA Taken ==
    ASSUME NEW h \in Rings, NEW e \in Entries, ~Repeats(h, e)
    PROVE  /\ Add(h, e).slots = [h.slots EXCEPT ![h.pos] = e]
           /\ Add(h, e).pos = IF h.pos = HistoryLimit - 1 THEN 0 ELSE h.pos + 1
           /\ Add(h, e).length = IF h.length < HistoryLimit THEN h.length + 1 ELSE h.length
<1>1. h.pos \in 0..(HistoryLimit - 1)  BY DEF Rings
<1>2. QED  BY <1>1, AfterValue DEF Add

LEMMA AddMatches ==
    ASSUME NEW h \in Rings, NEW s \in Seq(Entries), NEW e \in Entries, Matches(h, s),
           ~Repeats(h, e)
    PROVE  Matches(Add(h, e), Latest(s, e))
<1> DEFINE n == Add(h, e)
<1>1. /\ h.length \in 0..HistoryLimit /\ h.pos \in 0..(HistoryLimit - 1)
      /\ Len(s) \in 0..HistoryLimit /\ h.length = Len(s)
      /\ h.slots \in [0..(HistoryLimit - 1) -> Entries]
  BY DEF Rings, Matches
<1>2. Matches(n, Latest(s, e))
  <2>3. /\ n.slots = [h.slots EXCEPT ![h.pos] = e]
        /\ n.pos = IF h.pos = HistoryLimit - 1 THEN 0 ELSE h.pos + 1
        /\ n.length = IF h.length < HistoryLimit THEN h.length + 1 ELSE h.length
    BY Taken
  <2> HIDE DEF n
  <2>4. CASE h.length < HistoryLimit
    <3>1. Latest(s, e) = Append(s, e)  BY <1>1, <2>4 DEF Latest
    <3>2. h.pos = h.length /\ n.length = h.length + 1  BY <2>3, <2>4 DEF Matches
    <3>3. Len(Append(s, e)) = Len(s) + 1  OBVIOUS
    <3>4. n.length < HistoryLimit => n.pos = n.length  BY <1>1, <2>3, <3>2
    <3>5. ASSUME NEW i \in 1..(Len(s) + 1)  PROVE Append(s, e)[i] = n.slots[i - 1]
      <4>1. CASE i = Len(s) + 1  BY <1>1, <2>3, <3>2, <4>1
      <4>2. CASE i # Len(s) + 1
        <5>1. i \in 1..Len(s)  BY <1>1, <4>2
        <5>2. Append(s, e)[i] = s[i] /\ s[i] = h.slots[i - 1]
          BY <1>1, <2>4, <5>1 DEF Matches, Slot
        <5>3. i - 1 \in 0..(HistoryLimit - 1) /\ i - 1 # h.pos  BY <1>1, <3>2, <5>1
        <5>4. QED  BY <1>1, <2>3, <5>2, <5>3
      <4>3. QED  BY <4>1, <4>2
    <3>6. ASSUME NEW i \in 1..(Len(s) + 1)  PROVE Slot(n, i) = n.slots[i - 1]
      <4>1. CASE n.length < HistoryLimit  BY <4>1 DEF Slot
      <4>2. CASE ~(n.length < HistoryLimit)
        <5>1. h.pos = HistoryLimit - 1 /\ n.pos = 0 /\ Len(s) + 1 = HistoryLimit
          BY <1>1, <2>3, <3>2, <4>2
        <5>2. n.pos + i <= HistoryLimit /\ n.pos + i - 1 = i - 1  BY <5>1
        <5>3. QED  BY <4>2, <5>2 DEF Slot
      <4>3. QED  BY <4>1, <4>2
    <3>7. QED  BY <1>1, <3>1, <3>2, <3>3, <3>4, <3>5, <3>6 DEF Matches
  <2>5. CASE ~(h.length < HistoryLimit)
    <3>1. Len(s) = HistoryLimit /\ h.length = HistoryLimit /\ s # <<>>  BY <1>1, <2>5
    <3>2. Latest(s, e) = Append(Tail(s), e)  BY <3>1 DEF Latest
    <3>3. Tail(s) \in Seq(Entries) /\ Len(Tail(s)) = HistoryLimit - 1
          /\ \A i \in 1..(HistoryLimit - 1) : Tail(s)[i] = s[i + 1]
      BY <3>1
    <3>4. Len(Append(Tail(s), e)) = HistoryLimit  BY <3>3
    <3>5. ASSUME NEW i \in 1..HistoryLimit  PROVE Append(Tail(s), e)[i] = Slot(n, i)
      <4>1. n.length = HistoryLimit  BY <2>3, <3>1
      <4>2. CASE i = HistoryLimit
        <5>1. Append(Tail(s), e)[i] = e  BY <3>3, <4>2
        <5>2. Slot(n, i) = n.slots[h.pos]
          <6>1. CASE h.pos = HistoryLimit - 1
            <7>1. n.pos + i <= HistoryLimit /\ n.pos + i - 1 = h.pos  BY <2>3, <4>2, <6>1
            <7>2. QED  BY <4>1, <7>1 DEF Slot
          <6>2. CASE h.pos # HistoryLimit - 1
            <7>1. ~(n.pos + i <= HistoryLimit) /\ n.pos + i - 1 - HistoryLimit = h.pos
              BY <1>1, <2>3, <4>2, <6>2
            <7>2. QED  BY <4>1, <7>1 DEF Slot
          <6>3. QED  BY <6>1, <6>2
        <5>3. QED  BY <1>1, <2>3, <5>1, <5>2
      <4>3. CASE i # HistoryLimit
        <5>1. i \in 1..(HistoryLimit - 1) /\ i + 1 \in 1..Len(s)  BY <3>1, <4>3
        <5>2. Append(Tail(s), e)[i] = s[i + 1]  BY <3>3, <5>1
        <5>3. s[i + 1] = Slot(h, i + 1)  BY <5>1 DEF Matches
        <5>4. CASE h.pos = HistoryLimit - 1
          <6>1. ~(h.pos + (i + 1) <= HistoryLimit) /\ h.pos + (i + 1) - 1 - HistoryLimit = i - 1
            BY <1>1, <5>1, <5>4
          <6>2. Slot(h, i + 1) = h.slots[i - 1]  BY <3>1, <6>1 DEF Slot
          <6>3. n.pos + i <= HistoryLimit /\ n.pos + i - 1 = i - 1  BY <2>3, <5>1, <5>4
          <6>4. Slot(n, i) = n.slots[i - 1]  BY <4>1, <6>3 DEF Slot
          <6>5. i - 1 \in 0..(HistoryLimit - 1) /\ i - 1 # h.pos  BY <5>1, <5>4
          <6>6. QED  BY <1>1, <2>3, <5>2, <5>3, <6>2, <6>4, <6>5
        <5>5. CASE h.pos # HistoryLimit - 1 /\ h.pos + i + 1 <= HistoryLimit
          <6>1. Slot(h, i + 1) = h.slots[h.pos + i]
            <7>1. h.pos + (i + 1) <= HistoryLimit /\ h.pos + (i + 1) - 1 = h.pos + i
              BY <1>1, <5>5
            <7>2. QED  BY <3>1, <7>1 DEF Slot
          <6>2. Slot(n, i) = n.slots[h.pos + i]
            <7>1. n.pos = h.pos + 1  BY <2>3, <5>5
            <7>2. h.pos \in Int /\ i \in Int  BY <1>1
            <7>3. (h.pos + 1) + i <= HistoryLimit /\ (h.pos + 1) + i - 1 = h.pos + i
              BY <5>5, <7>2
            <7>4. n.pos + i <= HistoryLimit /\ n.pos + i - 1 = h.pos + i
              BY <7>1, <7>3
            <7>5. QED  BY <4>1, <7>4 DEF Slot
          <6>3. h.pos + i \in 0..(HistoryLimit - 1) /\ h.pos + i # h.pos  BY <1>1, <5>1, <5>5
          <6>4. QED  BY <1>1, <2>3, <5>2, <5>3, <6>1, <6>2, <6>3
        <5>6. CASE h.pos # HistoryLimit - 1 /\ ~(h.pos + i + 1 <= HistoryLimit)
          <6> DEFINE j == h.pos + i - HistoryLimit
          <6>1. Slot(h, i + 1) = h.slots[j]
            <7>1. ~(h.pos + (i + 1) <= HistoryLimit) /\ h.pos + (i + 1) - 1 - HistoryLimit = j
              BY <1>1, <5>6
            <7>2. QED  BY <3>1, <7>1 DEF Slot
          <6>2. Slot(n, i) = n.slots[j]
            <7>1. ~(n.pos + i <= HistoryLimit) /\ n.pos + i - 1 - HistoryLimit = j
              BY <1>1, <2>3, <5>6
            <7>2. QED  BY <4>1, <7>1 DEF Slot
          <6>3. j \in 0..(HistoryLimit - 1) /\ j # h.pos  BY <1>1, <5>1, <5>6
          <6>4. QED  BY <1>1, <2>3, <5>2, <5>3, <6>1, <6>2, <6>3
        <5>7. QED  BY <5>4, <5>5, <5>6
      <4>4. QED  BY <4>2, <4>3
    <3>6. n.length = HistoryLimit  BY <2>3, <3>1
    <3>7. ~(n.length < HistoryLimit)  BY <3>6
    <3>8. Matches(n, Append(Tail(s), e))  BY <3>4, <3>5, <3>6, <3>7 DEF Matches
    <3>9. QED  BY <3>2, <3>8
  <2>6. QED  BY <2>4, <2>5
<1>3. QED  BY <1>2

(* Only the first slot can repeat what was added before it.                *)
NoRepeats(h) ==
    \A j \in 1..(h.length - 1) : j # h.pos => h.slots[j] # h.slots[j - 1]

LEMMA AddNoRepeats ==
    ASSUME NEW h \in Rings, NEW s \in Seq(Entries), NEW e \in Entries, Matches(h, s),
           NoRepeats(h), ~Repeats(h, e)
    PROVE  NoRepeats(Add(h, e))
<1> DEFINE n == Add(h, e)
<1>1. /\ h.length \in 0..HistoryLimit /\ h.pos \in 0..(HistoryLimit - 1)
      /\ h.slots \in [0..(HistoryLimit - 1) -> Entries]
      /\ h.length < HistoryLimit => h.pos = h.length
  BY DEF Rings, Matches
<1>2. /\ n.slots = [h.slots EXCEPT ![h.pos] = e]
      /\ n.pos = IF h.pos = HistoryLimit - 1 THEN 0 ELSE h.pos + 1
      /\ n.length = IF h.length < HistoryLimit THEN h.length + 1 ELSE h.length
  BY Taken
<1> HIDE DEF n
<1> SUFFICES ASSUME NEW j \in 1..(n.length - 1), j # n.pos
             PROVE  n.slots[j] # n.slots[j - 1]
  BY DEF NoRepeats, n
<1>3. j \in 1..(HistoryLimit - 1) /\ j - 1 \in 0..(HistoryLimit - 1)  BY <1>1, <1>2
<1>4. CASE j = h.pos
  <2>1. Before(h.pos) = h.pos - 1  BY <1>3, <1>4, BeforeValue
  <2>2. h.length # 0  BY <1>1, <1>3, <1>4
  <2>3. h.slots[j - 1] # e  BY <1>4, <2>1, <2>2 DEF Repeats
  <2>4. n.slots[j] = e /\ n.slots[j - 1] = h.slots[j - 1]  BY <1>1, <1>2, <1>3, <1>4
  <2>5. QED  BY <2>3, <2>4
<1>5. CASE j # h.pos
  <2>1. j - 1 # h.pos  BY <1>1, <1>2, <1>3
  <2>2. n.slots[j] = h.slots[j] /\ n.slots[j - 1] = h.slots[j - 1]
    BY <1>1, <1>2, <1>3, <1>5, <2>1
  <2>3. j \in 1..(h.length - 1)  BY <1>1, <1>2, <1>5
  <2>4. QED  BY <1>5, <2>2, <2>3 DEF NoRepeats
<1>6. QED  BY <1>4, <1>5

(***************************************************************************)
(* The invariant behind HistoryKeepsLatest: slot by slot the ring is the   *)
(* list of what it took, the newest addition is in that list, and no slot  *)
(* but the first repeats the one before it.                                *)
(***************************************************************************)
RingInv ==
    /\ Matches(hist, recent.taken)
    /\ hist.length # 0 => \E i \in 1..Len(recent.taken) : recent.taken[i] = recent.newest
    /\ NoRepeats(hist)

LEMMA RingStep ==
    ASSUME TypeOK, RingInv, [Next]_vars
    PROVE  RingInv'
<1>1. hist \in Rings /\ recent \in Added /\ recent.taken \in Seq(Entries)
  BY DEF TypeOK, Rings, Added
<1>2. ASSUME NEW c \in Callers, ReturnCRConfig(c)  PROVE RingInv'
  <2> DEFINE e == Entry(c)
  <2>1. call[c].date \in Nat  BY DEF TypeOK
  <2>2. e \in Entries  BY <2>1 DEF Entry, Entries
  <2>3. hist' = Add(hist, e) /\ Remember(e)  BY <1>2 DEF ReturnCRConfig
  <2> HIDE DEF e
  <2>4. CASE Repeats(hist, e)
    <3>1. hist' = hist /\ recent'.taken = recent.taken /\ recent'.newest = e
      BY <2>3, <2>4 DEF Add, Remember
    <3>2. hist.length # 0 /\ hist.slots[Before(hist.pos)] = e  BY <2>4 DEF Repeats
    <3>3. Before(hist.pos) \in 0..(hist.length - 1)  BY <1>1, <3>2, BeforeInUse DEF RingInv
    <3>4. \E i \in 1..Len(recent.taken) : recent.taken[i] = hist.slots[Before(hist.pos)]
      BY <1>1, <3>3, SlotListed DEF RingInv
    <3>5. \E i \in 1..Len(recent.taken) : recent.taken[i] = e  BY <3>2, <3>4
    <3>6. QED  BY <3>1, <3>5 DEF RingInv, Matches, Slot, NoRepeats
  <2>5. CASE ~Repeats(hist, e)
    <3>1. recent'.taken = Latest(recent.taken, e) /\ recent'.newest = e
      BY <2>3, <2>5 DEF Remember
    <3>2. Matches(hist', recent'.taken) /\ NoRepeats(hist')
      BY <1>1, <2>2, <2>3, <2>5, <3>1, AddMatches, AddNoRepeats DEF RingInv
    <3>3. LET t == recent'.taken IN Len(t) \in 1..Len(t) /\ t[Len(t)] = e
      <4>1. CASE Len(recent.taken) < HistoryLimit
        BY <1>1, <2>2, <3>1, <4>1 DEF Latest
      <4>2. CASE ~(Len(recent.taken) < HistoryLimit)
        <5>1. recent.taken # <<>>  BY <1>1, <4>2
        <5>2. Tail(recent.taken) \in Seq(Entries)  BY <1>1, <5>1
        <5>3. QED  BY <2>2, <3>1, <4>2, <5>2 DEF Latest
      <4>3. QED  BY <4>1, <4>2
    <3>4. QED  BY <3>1, <3>2, <3>3 DEF RingInv, Matches, Slot, NoRepeats
  <2>6. QED  BY <2>4, <2>5
<1>3. CASE Crash
  <2>1. hist' = EmptyRing /\ recent' = NothingAdded  BY <1>3 DEF Crash
  <2>2. QED  BY <2>1 DEF RingInv, Matches, NoRepeats, EmptyRing, NothingAdded
<1>4. CASE UNCHANGED <<hist, recent>>  BY <1>4 DEF RingInv, Matches, Slot, NoRepeats
<1>5. QED
  BY <1>2, <1>3, <1>4 DEF Next, vars, Poll, CRConfigRaw, Fetching, Outage, Recovery,
     TakeSnapshot, Update, MonitorCDN, Reload, TrafficMonitorConfigMap, WriteTMBackup,
     Request, FetchCRConfig, WriteCRBackup, ValidateCRConfig, SetCRConfig

(* For every limit, number of callers and interleaving of their additions, *)
(* the ring of crConfigHist lists the latest entries it took in order, the *)
(* newest addition is among them, and only the first slot can hold a       *)
(* repeat of the entry before it.                                          *)
THEOREM HistoryCorrect == Spec => []HistoryKeepsLatest
<1>1. Init => RingInv
  BY DEF Init, RingInv, Matches, NoRepeats, EmptyRing, NothingAdded
<1>2. TypeOK /\ RingInv /\ [Next]_vars => RingInv'  BY RingStep
<1>3. TypeOK /\ RingInv => HistoryKeepsLatest
  BY MatchesGet DEF TypeOK, Rings, RingInv, NoRepeats, HistoryKeepsLatest
<1>4. QED  BY TypeCorrect, <1>1, <1>2, <1>3, PTL DEF Spec
=============================================================================
