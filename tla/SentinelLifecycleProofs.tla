----------------------- MODULE SentinelLifecycleProofs -----------------------
(***************************************************************************)
(* Theorems about SentinelLifecycle for every number of handlers, daemons  *)
(* and pollers.  Each names what it excludes of crashes, disconnects, disk *)
(* faults and concurrent requests, and nothing it need not exclude.        *)
(***************************************************************************)
EXTENDS SentinelLifecycle, TLAPS

\* What the steps rely on besides their types: a process that is down serves
\* nobody, a handler that drains or writes after its daemon changed holds the
\* mutex, and a daemon that can still be told to run sits in the slot.
LockDiscipline ==
    /\ ~up => slot = None /\ \A h \in Handlers : pc[h] = "idle"
    /\ DrainUnderLock
    /\ \A h \in Handlers :
         pc[h] \in {"truncate", "write"} /\ op[h] # "alerts" => lock = h

Inv == TypeOK /\ LockDiscipline /\ NoOrphanDaemon

\* The configs the handlers build are configs.
LEMMA ConfigBlank == Blank \in Config
BY LifecycleAssumption DEF LifecycleAssumption, Blank, Config

LEMMA ConfigBuild ==
    ASSUME NEW c \in Config, NEW i \in InstLists, NEW a \in Alerts
    PROVE  /\ c.inst \in InstLists /\ c.alerting \in Alerts
           /\ [autostart |-> TRUE, inst |-> i, alerting |-> a] \in Config
           /\ [c EXCEPT !.inst = i] \in Config
           /\ [c EXCEPT !.alerting = a] \in Config
           /\ [c EXCEPT !.autostart = FALSE] \in Config
BY DEF Config

\* read_persisted yields a config whatever is on disk.
LEMMA ReadConfig == TypeOK => ReadPersisted \in Config
BY ConfigBlank DEF TypeOK, FileState, ReadPersisted

\* A daemon that is launched has the tasks and the config it was given.
LEMMA LaunchTypes ==
    ASSUME TypeOK, NEW d \in Daemons, NEW c \in Config, Launch(d, c)
    PROVE  /\ slot' \in Daemons \cup {None}
           /\ cancelled' \in [Daemons -> BOOLEAN]
           /\ poller' \in [Daemons -> [Pollers -> {"idle", "polling", "exited"}]]
           /\ runs' \in [Daemons -> Config]
<1>1. [p \in Pollers |-> "idle"] \in [Pollers -> {"idle", "polling", "exited"}]
  OBVIOUS
<1>. QED BY <1>1 DEF TypeOK, Launch

\* The initial state, before the first boot, has the right types.
LEMMA TypeCorrectInit == Init => TypeOK
<1> SUFFICES ASSUME Init PROVE TypeOK
  OBVIOUS
<1>1. file \in FileState /\ file.cfg = Blank
  BY ConfigBlank DEF Init, FileState
<1>2. edit \in Alerts
  BY LifecycleAssumption DEF LifecycleAssumption, Init
<1>3. runs \in [Daemons -> Config] /\ todo \in [Handlers -> Config]
  BY ConfigBlank DEF Init
<1>4. poller \in [Daemons -> [Pollers -> {"idle", "polling", "exited"}]]
  BY DEF Init
<1>. QED BY <1>1, <1>2, <1>3, <1>4 DEF Init, TypeOK

\* TypeOK is an invariant: every handler's step keeps the mutex, the slot, the
\* file and the poller table in their types.
THEOREM TypeCorrect == Spec => []TypeOK
<1>1. TypeOK /\ [Next]_vars => TypeOK'
  <2> SUFFICES ASSUME TypeOK, [Next]_vars PROVE TypeOK'
    OBVIOUS
  <2> USE LifecycleAssumption, ConfigBlank, ReadConfig
      DEF LifecycleAssumption, TypeOK, FileState
  <2>1. ASSUME NEW h \in Handlers, Arrive(h) PROVE TypeOK'
    <3>1. PICK i \in InstLists :
            todo' = [todo EXCEPT ![h] = [Blank EXCEPT !.inst = i]]
      BY <2>1 DEF Arrive
    <3>2. todo' \in [Handlers -> Config]
      BY <3>1, ConfigBuild
    <3>3. op' \in [Handlers -> {"start", "stop", "alerts", "status"}]
      BY <2>1 DEF Arrive
    <3>. QED BY <2>1, <3>2, <3>3 DEF Arrive, Goto, daemonVars, history
  <2>2. ASSUME NEW h \in Handlers, AlertsRead(h) PROVE TypeOK'
    <3>1. PICK a \in Alerts :
            todo' = [todo EXCEPT ![h] = [ReadPersisted EXCEPT !.alerting = a]]
      BY <2>2 DEF AlertsRead
    <3>2. todo' \in [Handlers -> Config]
      BY <3>1, ConfigBuild
    <3>. QED BY <2>2, <3>2 DEF AlertsRead, Goto, daemonVars, history
  <2>3. ASSUME NEW h \in Handlers, Disconnect(h) PROVE TypeOK'
    BY <2>3 DEF Disconnect, Reply, Goto, daemonVars, history
  <2>4. ASSUME NEW h \in Handlers, Locks(h) PROVE TypeOK'
    <3>1. CASE StartAlreadyRunning(h)
      BY <3>1 DEF StartAlreadyRunning, Reply, Goto, daemonVars, history
    <3>2. CASE StartLaunches(h)
      <4> DEFINE cfg == [autostart |-> TRUE, inst |-> todo[h].inst,
                         alerting |-> ReadPersisted.alerting]
      <4>1. cfg \in Config
        BY ConfigBuild
      <4>2. PICK d \in Daemons : Launch(d, cfg)
        BY <3>2 DEF StartLaunches
      <4>3. todo' = [todo EXCEPT ![h] = cfg]
        BY <3>2 DEF StartLaunches
      <4> HIDE DEF cfg
      <4>4. todo' \in [Handlers -> Config]
        BY <4>1, <4>3
      <4>. QED BY <3>2, <4>1, <4>2, <4>4, LaunchTypes DEF StartLaunches, Goto
    <3>3. CASE StartFails(h)
      BY <3>3 DEF StartFails, Reply, Goto, daemonVars, history
    <3>4. CASE StopTakes(h)
      BY <3>4 DEF StopTakes, TakeAndCancel, Goto
    <3>5. CASE AlertsNoDaemon(h)
      BY <3>5 DEF AlertsNoDaemon, Reply, Goto, daemonVars, history
    <3>6. CASE AlertsTakes(h)
      BY <3>6 DEF AlertsTakes, TakeAndCancel, Goto, history
    <3>7. CASE Status(h)
      BY <3>7 DEF Status, Reply, Goto, daemonVars, history
    <3>8. CASE StopReadsConfig(h)
      BY <3>8, ConfigBuild DEF StopReadsConfig, Goto, daemonVars
    <3>. QED BY <2>4, <3>1, <3>2, <3>3, <3>4, <3>5, <3>6, <3>7, <3>8 DEF Locks
  <2>5. ASSUME NEW h \in Handlers, Proceeds(h) PROVE TypeOK'
    <3>1. CASE StopReadsConfig(h)
      BY <3>1, ConfigBuild DEF StopReadsConfig, Goto, daemonVars
    <3>2. CASE AlertsRestarts(h)
      BY <3>2, LaunchTypes DEF AlertsRestarts, Reply, Goto, history
    <3>3. CASE AlertsRestartFails(h)
      BY <3>3 DEF AlertsRestartFails, Reply, Goto, daemonVars, history
    <3>4. CASE Truncate(h)
      BY <3>4 DEF Truncate, Goto, daemonVars, history
    <3>5. CASE WriteBody(h)
      <4>1. file' \in FileState /\ (file'.st # "ok" => file'.cfg = Blank)
        BY <3>5 DEF WriteBody
      <4>2. /\ pc' \in [Handlers -> {"idle", "lock", "drain", "truncate", "write"}]
            /\ lock' \in Handlers \cup {None}
            /\ victim' \in [Handlers -> Daemons \cup {None}]
            /\ todo' \in [Handlers -> Config]
            /\ acked' \in {"pending", "on", "off"}
        BY <3>5 DEF WriteBody, AfterWrite, Reply, Goto
      <4>3. edit' \in Alerts
        BY <3>5, ConfigBuild DEF WriteBody
      <4>. QED BY <3>5, <4>1, <4>2, <4>3 DEF WriteBody, daemonVars
    <3>6. CASE WriteFails(h)
      <4>1. CASE op[h] = "alerts"
        BY <3>6, <4>1 DEF WriteFails, AfterWrite, Goto, daemonVars
      <4>2. CASE op[h] # "alerts"
        BY <3>6, <4>2 DEF WriteFails, AfterWrite, Reply, Goto, daemonVars
      <4>. QED BY <4>1, <4>2
    <3>. QED BY <2>5, <3>1, <3>2, <3>3, <3>4, <3>5, <3>6 DEF Proceeds
  <2>6. ASSUME NEW d \in Daemons, NEW p \in Pollers,
               Tick(d, p) \/ PollDone(d, p) \/ PollerExit(d, p)
        PROVE  TypeOK'
    <3>1. PICK s \in {"idle", "polling", "exited"} :
            poller' = [poller EXCEPT ![d][p] = s]
      BY <2>6 DEF Tick, PollDone, PollerExit
    <3>2. poller' \in [Daemons -> [Pollers -> {"idle", "polling", "exited"}]]
      BY <3>1
    <3>. QED BY <2>6, <3>2 DEF Tick, PollDone, PollerExit, handlerVars, history
  <2>7. CASE Crash
    BY <2>7 DEF Crash, history
  <2>8. CASE BootResumes
    BY <2>8, LaunchTypes DEF BootResumes, handlerVars, history
  <2>9. CASE BootIdle
    BY <2>9 DEF BootIdle, daemonVars, handlerVars, history
  <2>10. CASE UNCHANGED vars
    BY <2>10 DEF vars, daemonVars, handlerVars, history
  <2>. QED
    BY <2>1, <2>2, <2>3, <2>4, <2>5, <2>6, <2>7, <2>8, <2>9, <2>10
    DEF Next, HandlerStep
<1>. QED BY TypeCorrectInit, <1>1, PTL DEF Spec

-----------------------------------------------------------------------------
(* Who may change the slot.                                                *)

\* With a daemon newly in the slot and none running before it that was not
\* cancelled, the slot's daemon is again the only one that was not cancelled.
LEMMA LaunchKeepsSlot ==
    ASSUME TypeOK, NoOrphanDaemon, slot = None,
           NEW d \in Daemons, NEW c, Launch(d, c)
    PROVE  NoOrphanDaemon'
<1> SUFFICES ASSUME NEW e \in Daemons, Alive(e)', ~cancelled'[e]
             PROVE  e = slot'
  BY DEF NoOrphanDaemon
<1>1. CASE e = d
  BY <1>1 DEF Launch
<1>2. CASE e # d
  <2>1. poller'[e] = poller[e] /\ cancelled'[e] = cancelled[e]
    BY <1>2 DEF Launch, TypeOK
  <2>2. e = None
    BY <2>1 DEF NoOrphanDaemon, Alive
  <2>. QED BY <2>2, LifecycleAssumption DEF LifecycleAssumption
<1>. QED BY <1>1, <1>2

\* The inductive invariant, one step per handler action.
LEMMA InvHolds == Spec => []Inv
<1>1. Init => Inv
  <2> SUFFICES ASSUME Init PROVE LockDiscipline /\ NoOrphanDaemon
    BY TypeCorrectInit DEF Inv
  <2>1. LockDiscipline
    BY DEF Init, LockDiscipline, DrainUnderLock
  <2>2. NoOrphanDaemon
    BY DEF Init, NoOrphanDaemon, Alive
  <2>. QED BY <2>1, <2>2
<1>2. Inv /\ TypeOK' /\ [Next]_vars => Inv'
  <2> SUFFICES ASSUME Inv, TypeOK', [Next]_vars
               PROVE  LockDiscipline' /\ NoOrphanDaemon'
    BY DEF Inv
  <2> USE LifecycleAssumption DEF LifecycleAssumption, Inv
  <2>1. ASSUME NEW h \in Handlers,
               Arrive(h) \/ AlertsRead(h) \/ StartAlreadyRunning(h) \/ StartFails(h)
               \/ AlertsNoDaemon(h) \/ Status(h) \/ StopReadsConfig(h)
               \/ AlertsRestartFails(h) \/ Truncate(h) \/ WriteBody(h)
               \/ WriteFails(h) \/ Disconnect(h)
        PROVE  LockDiscipline' /\ NoOrphanDaemon'
    <3>1. UNCHANGED <<up, slot, cancelled, poller>>
      BY <2>1 DEF Arrive, AlertsRead, StartAlreadyRunning, StartFails, AlertsNoDaemon,
         Status, StopReadsConfig, AlertsRestartFails, Truncate, WriteBody, WriteFails,
         Disconnect, daemonVars
    <3>2. NoOrphanDaemon'
      BY <3>1 DEF NoOrphanDaemon, Alive
    <3>3. pc[h] = "idle" => up /\ ~StopReadsConfig(h)
      BY <2>1 DEF Arrive, AlertsRead, StartAlreadyRunning, StartFails, AlertsNoDaemon,
         Status, StopReadsConfig, AlertsRestartFails, Truncate, WriteBody, WriteFails,
         Disconnect, CanLock
    <3>4. LockDiscipline'
      <4> USE <3>1 DEF LockDiscipline, DrainUnderLock, TypeOK
      <4>1. CASE Arrive(h)
        BY <4>1 DEF Arrive, Goto
      <4>2. CASE AlertsRead(h)
        BY <4>2 DEF AlertsRead, Goto
      <4>3. CASE StartAlreadyRunning(h) \/ StartFails(h) \/ AlertsNoDaemon(h) \/ Status(h)
        BY <4>3 DEF StartAlreadyRunning, StartFails, AlertsNoDaemon, Status, CanLock,
           Reply, Goto
      <4>4. CASE StopReadsConfig(h)
        BY <4>4 DEF StopReadsConfig, CanLock, Goto
      <4>5. CASE AlertsRestartFails(h)
        BY <4>5 DEF AlertsRestartFails, Reply, Goto
      <4>6. CASE Truncate(h)
        BY <4>6 DEF Truncate, Goto
      <4>7. CASE WriteBody(h)
        BY <4>7 DEF WriteBody, AfterWrite, Reply, Goto
      <4>8. CASE WriteFails(h)
        BY <4>8 DEF WriteFails, AfterWrite, Reply, Goto
      <4>9. CASE Disconnect(h)
        BY <4>9 DEF Disconnect, Reply, Goto
      <4>. QED BY <2>1, <4>1, <4>2, <4>3, <4>4, <4>5, <4>6, <4>7, <4>8, <4>9
    <3>. QED BY <3>2, <3>4
  <2>2. ASSUME NEW h \in Handlers, StartLaunches(h)
        PROVE  LockDiscipline' /\ NoOrphanDaemon'
    <3>1. NoOrphanDaemon'
      BY <2>2, LaunchKeepsSlot DEF StartLaunches
    <3>2. LockDiscipline'
      BY <2>2 DEF StartLaunches, CanLock, Goto, LockDiscipline, DrainUnderLock, TypeOK
    <3>. QED BY <3>1, <3>2
  <2>3. ASSUME NEW h \in Handlers, StopTakes(h) \/ AlertsTakes(h)
        PROVE  LockDiscipline' /\ NoOrphanDaemon'
    <3>1. NoOrphanDaemon'
      BY <2>3 DEF StopTakes, AlertsTakes, TakeAndCancel, NoOrphanDaemon, Alive, TypeOK
    <3>2. LockDiscipline'
      BY <2>3 DEF StopTakes, AlertsTakes, TakeAndCancel, CanLock, Goto,
         LockDiscipline, DrainUnderLock, TypeOK
    <3>. QED BY <3>1, <3>2
  <2>4. ASSUME NEW h \in Handlers, AlertsRestarts(h)
        PROVE  LockDiscipline' /\ NoOrphanDaemon'
    <3>1. slot = None /\ lock = h
      BY <2>4 DEF AlertsRestarts, LockDiscipline, DrainUnderLock
    <3>2. NoOrphanDaemon'
      BY <2>4, <3>1, LaunchKeepsSlot DEF AlertsRestarts
    <3>3. LockDiscipline'
      BY <2>4, <3>1 DEF AlertsRestarts, Reply, Goto, LockDiscipline, DrainUnderLock, TypeOK
    <3>. QED BY <3>2, <3>3
  <2>5. ASSUME NEW d \in Daemons, NEW p \in Pollers,
               Tick(d, p) \/ PollDone(d, p) \/ PollerExit(d, p)
        PROVE  LockDiscipline' /\ NoOrphanDaemon'
    <3>1. \A e \in Daemons : Alive(e)' => Alive(e)
      <4>1. PICK s : poller[d][p] # "exited" /\ poller' = [poller EXCEPT ![d][p] = s]
        BY <2>5 DEF Tick, PollDone, PollerExit
      <4>2. \A e \in Daemons, q \in Pollers : <<e, q>> # <<d, p>> => poller'[e][q] = poller[e][q]
        BY <4>1 DEF TypeOK
      <4>. QED BY <4>1, <4>2 DEF Alive
    <3>2. UNCHANGED <<up, lock, slot, cancelled, pc, op>>
      BY <2>5 DEF Tick, PollDone, PollerExit, handlerVars
    <3>. QED BY <3>1, <3>2 DEF NoOrphanDaemon, LockDiscipline, DrainUnderLock
  <2>6. CASE Crash
    BY <2>6 DEF Crash, NoOrphanDaemon, Alive, LockDiscipline, DrainUnderLock
  <2>7. CASE BootResumes
    <3>1. slot = None /\ \A h \in Handlers : pc'[h] = "idle"
      BY <2>7 DEF BootResumes, LockDiscipline, handlerVars
    <3>2. NoOrphanDaemon'
      BY <2>7, <3>1, LaunchKeepsSlot DEF BootResumes
    <3>. QED BY <2>7, <3>1, <3>2 DEF BootResumes, LockDiscipline, DrainUnderLock
  <2>8. CASE BootIdle
    BY <2>8 DEF BootIdle, daemonVars, handlerVars, NoOrphanDaemon, Alive, LockDiscipline,
       DrainUnderLock
  <2>9. CASE UNCHANGED vars
    BY <2>9 DEF vars, daemonVars, handlerVars, NoOrphanDaemon, Alive, LockDiscipline,
       DrainUnderLock
  <2>. QED
    BY <2>1, <2>2, <2>3, <2>4, <2>5, <2>6, <2>7, <2>8, <2>9
    DEF Next, HandlerStep, Locks, Proceeds
<1>. QED BY <1>1, <1>2, TypeCorrect, PTL DEF Spec

\* No daemon keeps polling outside the slot with its token uncancelled, whatever
\* crashes, disconnects and disk faults occur.
THEOREM NoOrphan == Spec => []NoOrphanDaemon
BY InvHolds, PTL DEF Inv

\* A handler that took a daemon from the slot holds the mutex, and the slot
\* stays empty, until that daemon has drained.
THEOREM DrainsLocked == Spec => []DrainUnderLock
<1>1. Inv => DrainUnderLock
  BY DEF Inv, LockDiscipline
<1>. QED BY <1>1, InvHolds, PTL

-----------------------------------------------------------------------------
(* Without disconnects: one daemon at a time.                              *)

\* Every daemon with a task left is in the slot or awaited by the handler that
\* took it.  A disconnect is what breaks this: it forgets the awaited daemon.
Accounted ==
    \A d \in Daemons : Alive(d) =>
        d = slot \/ \E h \in Handlers : pc[h] = "drain" /\ victim[h] = d

\* With the mutex this leaves room for one.
LEMMA AccountedIsEnough == Inv /\ Accounted => AtMostOneDaemon
<1> SUFFICES ASSUME Inv, Accounted, NEW d \in Daemons, NEW e \in Daemons,
                    Alive(d), Alive(e)
             PROVE  d = e
  BY DEF AtMostOneDaemon
<1> USE LifecycleAssumption
    DEF LifecycleAssumption, Inv, Accounted, LockDiscipline, DrainUnderLock
<1>1. CASE slot # None
  BY <1>1
<1>2. CASE slot = None
  <2>1. d # slot /\ e # slot
    BY <1>2
  <2>2. PICK h \in Handlers : pc[h] = "drain" /\ victim[h] = d
    BY <2>1
  <2>3. PICK g \in Handlers : pc[g] = "drain" /\ victim[g] = e
    BY <2>1
  <2>4. h = lock /\ g = lock
    BY <2>2, <2>3
  <2>. QED BY <2>2, <2>3, <2>4
<1>. QED BY <1>1, <1>2

\* A launch with nothing else alive leaves exactly the new daemon alive.
LEMMA LaunchAccounted ==
    ASSUME TypeOK, \A d \in Daemons : ~Alive(d),
           NEW d \in Daemons, NEW c, Launch(d, c)
    PROVE  Accounted'
<1> SUFFICES ASSUME NEW e \in Daemons, Alive(e)', e # d PROVE FALSE
  BY DEF Accounted, Launch
<1>1. poller'[e] = poller[e]
  BY DEF Launch, TypeOK
<1>. QED BY <1>1 DEF Alive

\* If no client hangs up, every daemon stays accounted for.
LEMMA AccountedHolds == ~Disconnects /\ Spec => []Accounted
<1> SUFFICES ASSUME ~Disconnects PROVE Spec => []Accounted
  OBVIOUS
<1>1. Init => Accounted
  BY DEF Init, Accounted, Alive
<1>2. Accounted /\ Inv /\ [Next]_vars => Accounted'
  <2> SUFFICES ASSUME Accounted, Inv, [Next]_vars PROVE Accounted'
    OBVIOUS
  <2> USE LifecycleAssumption DEF LifecycleAssumption, Inv, TypeOK
  <2>1. ASSUME NEW h \in Handlers,
               Arrive(h) \/ AlertsRead(h) \/ StartAlreadyRunning(h) \/ StartFails(h)
               \/ AlertsNoDaemon(h) \/ Status(h) \/ StopReadsConfig(h)
               \/ AlertsRestartFails(h) \/ Truncate(h) \/ WriteBody(h) \/ WriteFails(h)
        PROVE  Accounted'
    <3>1. UNCHANGED <<slot, poller>>
      BY <2>1 DEF Arrive, AlertsRead, StartAlreadyRunning, StartFails, AlertsNoDaemon,
         Status, StopReadsConfig, AlertsRestartFails, Truncate, WriteBody, WriteFails,
         daemonVars
    <3>2. \A g \in Handlers : g # h => pc'[g] = pc[g] /\ victim'[g] = victim[g]
      BY <2>1 DEF Arrive, AlertsRead, StartAlreadyRunning, StartFails, AlertsNoDaemon,
         Status, StopReadsConfig, AlertsRestartFails, Truncate, WriteBody, WriteFails,
         AfterWrite, Reply, Goto
    <3>3. pc[h] = "drain" => ~Alive(victim[h])
      BY <2>1 DEF Arrive, AlertsRead, StartAlreadyRunning, StartFails, AlertsNoDaemon,
         Status, StopReadsConfig, AlertsRestartFails, Truncate, WriteBody, WriteFails,
         CanLock
    <3>. QED BY <3>1, <3>2, <3>3 DEF Accounted, Alive
  <2>2. ASSUME NEW h \in Handlers, StartLaunches(h) PROVE Accounted'
    <3>1. \A d \in Daemons : ~Alive(d)
      BY <2>2 DEF StartLaunches, CanLock, Accounted, LockDiscipline, DrainUnderLock
    <3>. QED BY <2>2, <3>1, LaunchAccounted DEF StartLaunches
  <2>3. ASSUME NEW h \in Handlers, StopTakes(h) \/ AlertsTakes(h) PROVE Accounted'
    <3>1. pc[h] # "drain" /\ slot # None
      BY <2>3 DEF StopTakes, AlertsTakes, TakeAndCancel, CanLock
    <3>2. UNCHANGED poller /\ victim' = [victim EXCEPT ![h] = slot]
          /\ pc' = [pc EXCEPT ![h] = "drain"]
      BY <2>3 DEF StopTakes, AlertsTakes, TakeAndCancel, Goto
    <3>. QED BY <3>1, <3>2 DEF Accounted, Alive
  <2>4. ASSUME NEW h \in Handlers, AlertsRestarts(h) PROVE Accounted'
    <3>1. \A d \in Daemons : ~Alive(d)
      BY <2>4 DEF AlertsRestarts, Accounted, LockDiscipline, DrainUnderLock
    <3>. QED BY <2>4, <3>1, LaunchAccounted DEF AlertsRestarts
  <2>5. ASSUME NEW d \in Daemons, NEW p \in Pollers,
               Tick(d, p) \/ PollDone(d, p) \/ PollerExit(d, p)
        PROVE  Accounted'
    <3>1. \A e \in Daemons : Alive(e)' => Alive(e)
      BY <2>5 DEF Tick, PollDone, PollerExit, Alive
    <3>2. UNCHANGED <<slot, pc, victim>>
      BY <2>5 DEF Tick, PollDone, PollerExit, handlerVars
    <3>. QED BY <3>1, <3>2 DEF Accounted
  <2>6. CASE Crash
    BY <2>6 DEF Crash, Accounted, Alive
  <2>7. CASE BootResumes
    <3>1. \A d \in Daemons : ~Alive(d)
      BY <2>7 DEF BootResumes, Accounted, LockDiscipline
    <3>. QED BY <2>7, <3>1, LaunchAccounted DEF BootResumes
  <2>8. CASE BootIdle \/ UNCHANGED vars
    BY <2>8 DEF BootIdle, vars, daemonVars, handlerVars, Accounted, Alive
  <2>9. ASSUME NEW h \in Handlers, Disconnect(h) PROVE FALSE
    BY <2>9 DEF Disconnect
  <2>. QED
    BY <2>1, <2>2, <2>3, <2>4, <2>5, <2>6, <2>7, <2>8, <2>9
    DEF Next, HandlerStep, Locks, Proceeds
<1>. QED BY <1>1, <1>2, InvHolds, PTL DEF Spec

\* "At most one daemon per backend process", if no client hangs up.
THEOREM AtMostOne == ~Disconnects /\ Spec => []AtMostOneDaemon
BY AccountedHolds, InvHolds, AccountedIsEnough, PTL

-----------------------------------------------------------------------------
(* Without disconnects: what the user sees is MonitorService.              *)

\* The two halves of the refinement mapping.
Phase == IF slot # None THEN "on"
         ELSE IF \E h \in Handlers : pc[h] = "drain" THEN "draining"
         ELSE "off"
Busy == {p \in Pollers : \E d \in Daemons : poller[d][p] = "polling"}

Accounts == Inv /\ Accounted

\* With nothing in the slot, what is left is the daemon of the one who drains.
LEMMA Idle ==
    ASSUME Accounts, slot = None
    PROVE  /\ \A h \in Handlers : CanLock(h, op[h]) => Phase = "off"
           /\ \A h \in Handlers : pc[h] = "drain" /\ ~Alive(victim[h])
                => \A d \in Daemons : ~Alive(d)
           /\ Phase = "off" => \A d \in Daemons : ~Alive(d)
<1> USE LifecycleAssumption
    DEF LifecycleAssumption, Accounts, Inv, Accounted, LockDiscipline, DrainUnderLock
<1>1. ASSUME NEW h \in Handlers, CanLock(h, op[h]) PROVE Phase = "off"
  BY <1>1 DEF CanLock, Phase
<1>2. ASSUME NEW h \in Handlers, pc[h] = "drain", ~Alive(victim[h]), NEW d \in Daemons
      PROVE  ~Alive(d)
  BY <1>2
<1>3. ASSUME Phase = "off", NEW d \in Daemons PROVE ~Alive(d)
  BY <1>3 DEF Phase
<1>. QED BY <1>1, <1>2, <1>3

LEMMA NobodyPolls == (\A d \in Daemons : ~Alive(d)) => Busy = {}
BY DEF Busy, Alive

\* A launch over an empty slot with nobody alive is a TurnOn.
LEMMA LaunchTurnsOn ==
    ASSUME TypeOK, slot = None, \A d \in Daemons : ~Alive(d),
           NEW d \in Daemons, NEW c, Launch(d, c)
    PROVE  /\ Phase # "on" /\ Phase' = "on"
           /\ Busy = {} /\ Busy' = {}
<1> USE LifecycleAssumption DEF LifecycleAssumption, TypeOK
<1>1. Phase # "on" /\ Phase' = "on"
  BY DEF Phase, Launch
<1>2. Busy = {}
  BY NobodyPolls
<1>3. ASSUME NEW e \in Daemons, NEW p \in Pollers PROVE poller'[e][p] # "polling"
  BY DEF Launch, Alive
<1>. QED BY <1>1, <1>2, <1>3 DEF Busy

\* Every step under the invariant is a step of the service, or none of it.
LEMMA StepRefines ==
    ASSUME ~Disconnects, Accounts, TypeOK', [Next]_vars
    PROVE  [Service!Next]_(Service!vars)
<1> DEFINE turnOn == Phase # "on" /\ Busy = {} /\ Phase' = "on" /\ Busy' = Busy
           quiet  == Phase' = Phase /\ Busy' = Busy
<1>0. /\ turnOn => Service!TurnOn
      /\ quiet => UNCHANGED Service!vars
  BY DEF Phase, Busy, Service!TurnOn, Service!vars
<1> USE LifecycleAssumption DEF LifecycleAssumption, Accounts, Inv, TypeOK
<1>1. ASSUME NEW h \in Handlers,
             Arrive(h) \/ AlertsRead(h) \/ StartAlreadyRunning(h) \/ StartFails(h)
             \/ AlertsNoDaemon(h) \/ Status(h) \/ Truncate(h) \/ WriteBody(h)
             \/ WriteFails(h) \/ (CanLock(h, "stop") /\ StopReadsConfig(h))
      PROVE  quiet
  <2>1. UNCHANGED <<slot, poller>>
    BY <1>1 DEF Arrive, AlertsRead, StartAlreadyRunning, StartFails, AlertsNoDaemon,
       Status, StopReadsConfig, Truncate, WriteBody, WriteFails, daemonVars
  <2>2. pc[h] # "drain" /\ pc'[h] # "drain" /\ \A g \in Handlers \ {h} : pc'[g] = pc[g]
    BY <1>1 DEF Arrive, AlertsRead, StartAlreadyRunning, StartFails, AlertsNoDaemon,
       Status, StopReadsConfig, Truncate, WriteBody, WriteFails, AfterWrite, Reply,
       Goto, CanLock
  <2>. QED BY <2>1, <2>2 DEF Phase, Busy
<1>2. ASSUME NEW h \in Handlers, StartLaunches(h) PROVE turnOn
  <2>1. slot = None /\ \A d \in Daemons : ~Alive(d)
    BY <1>2, Idle DEF StartLaunches, CanLock
  <2>. QED BY <1>2, <2>1, LaunchTurnsOn DEF StartLaunches
<1>3. ASSUME NEW h \in Handlers, StopTakes(h) \/ AlertsTakes(h) PROVE Service!BeginStop
  <2>1. slot # None /\ slot' = None /\ UNCHANGED poller /\ pc'[h] = "drain"
    BY <1>3 DEF StopTakes, AlertsTakes, TakeAndCancel, Goto
  <2>. QED BY <2>1 DEF Service!BeginStop
<1>4. ASSUME NEW h \in Handlers, pc[h] = "drain", ~Alive(victim[h]),
             AlertsRestartFails(h) \/ StopReadsConfig(h)
      PROVE  Service!FinishStop
  <2>1. slot = None /\ UNCHANGED <<slot, poller>>
    BY <1>4 DEF AlertsRestartFails, StopReadsConfig, LockDiscipline, DrainUnderLock,
       daemonVars
  <2>2. \A g \in Handlers : pc'[g] # "drain"
    BY <1>4 DEF AlertsRestartFails, StopReadsConfig, Reply, Goto, LockDiscipline,
       DrainUnderLock
  <2>3. Busy = {}
    BY <1>4, <2>1, Idle, NobodyPolls
  <2>. QED BY <1>4, <2>1, <2>2, <2>3 DEF Service!FinishStop, Busy
<1>5. ASSUME NEW h \in Handlers, AlertsRestarts(h) PROVE turnOn
  <2>1. slot = None /\ \A d \in Daemons : ~Alive(d)
    BY <1>5, Idle DEF AlertsRestarts, LockDiscipline, DrainUnderLock
  <2>. QED BY <1>5, <2>1, LaunchTurnsOn DEF AlertsRestarts
<1>6. ASSUME NEW d \in Daemons, NEW p \in Pollers,
             Tick(d, p) \/ PollDone(d, p) \/ PollerExit(d, p)
      PROVE  quiet \/ Service!BeginPoll(p) \/ Service!EndPoll(p)
  <2>1. Alive(d) /\ Phase' = Phase
    BY <1>6 DEF Tick, PollDone, PollerExit, Alive, Phase, handlerVars
  <2>2. Phase # "off"
    <3>1. slot = None /\ Phase = "off" => FALSE
      BY <2>1, Idle
    <3>. QED BY <3>1 DEF Phase
  <2>3. \A e \in Daemons : Alive(e) => e = d
    BY <2>1, AccountedIsEnough DEF AtMostOneDaemon
  <2>4. Busy = {q \in Pollers : poller[d][q] = "polling"}
    BY <2>3 DEF Busy, Alive
  <2>5. \A e \in Daemons \ {d} : poller'[e] = poller[e]
    BY <1>6 DEF Tick, PollDone, PollerExit
  <2>6. Busy' = {q \in Pollers : poller'[d][q] = "polling"}
    <3>1. \A e \in Daemons, q \in Pollers : poller'[e][q] = "polling" => e = d
      BY <2>3, <2>5 DEF Alive
    <3>. QED BY <3>1 DEF Busy
  <2>7. CASE Tick(d, p)
    <3>1. p \notin Busy /\ Busy' = Busy \cup {p}
      BY <2>4, <2>6, <2>7 DEF Tick
    <3>. QED BY <2>1, <2>2, <3>1 DEF Service!BeginPoll, Phase, Busy
  <2>8. CASE PollDone(d, p)
    <3>1. p \in Busy /\ Busy' = Busy \ {p}
      BY <2>4, <2>6, <2>8 DEF PollDone
    <3>. QED BY <2>1, <3>1 DEF Service!EndPoll, Phase, Busy
  <2>9. CASE PollerExit(d, p)
    BY <2>1, <2>4, <2>6, <2>9 DEF PollerExit
  <2>. QED BY <1>6, <2>7, <2>8, <2>9
<1>7. ASSUME Crash PROVE Service!Die
  BY <1>7 DEF Crash, Service!Die
<1>8. CASE BootResumes
  <2>1. slot = None /\ Phase = "off"
    BY <1>8 DEF BootResumes, LockDiscipline, Phase
  <2>. QED BY <1>0, <1>8, <2>1, Idle, LaunchTurnsOn DEF BootResumes, Service!Next
<1>9. CASE BootIdle \/ UNCHANGED vars
  <2>1. UNCHANGED <<slot, pc, poller>>
    BY <1>9 DEF BootIdle, vars, daemonVars, handlerVars
  <2>. QED BY <1>0, <2>1 DEF Phase, Busy
<1>10. ASSUME NEW h \in Handlers, Disconnect(h) PROVE FALSE
  BY <1>10 DEF Disconnect
<1> HIDE DEF turnOn, quiet
<1>. QED
  BY <1>0, <1>1, <1>2, <1>3, <1>4, <1>5, <1>6, <1>7, <1>8, <1>9, <1>10
  DEF Next, HandlerStep, Locks, Proceeds, StopReadsConfig, AlertsRestartFails, Service!Next

\* Handlers, mutex, file and daemons together implement the service a user is
\* promised, if no client hangs up: a second daemon never polls, and monitoring
\* is off or anew only with no poll in flight, whatever crashes and faults occur.
THEOREM Refines == ~Disconnects /\ Spec => ImplementsService
<1> SUFFICES ASSUME ~Disconnects PROVE Spec => ImplementsService
  OBVIOUS
<1>1. Init => Service!Init
  BY DEF Init, Service!Init
<1>. QED BY <1>1, StepRefines, InvHolds, AccountedHolds, TypeCorrect, PTL
         DEF Spec, Accounts, ImplementsService, Service!Spec

-----------------------------------------------------------------------------
(* What the file says, when its writers do not overlap.  Starts and stops   *)
(* write it under the mutex, a save of alert rules does not: so requests   *)
(* come one at a time, or any number of them do and none saves alert       *)
(* rules.  For a save beside a start the runs show the counterexamples.    *)

OneHandler == \A g, h \in Handlers : g = h
Serialised == OneHandler \/ "alerts" \notin Ops
NoTornWrites == "write" \notin CrashPoints

Writing(h) == pc[h] \in {"truncate", "write"}
NotMidWrite == \A h \in Handlers : pc[h] # "write"

\* A save is served only where requests come one at a time.
SavesAlone == OneHandler \/ \A h \in Handlers : op[h] # "alerts"

\* Alone, a writer finds the file as it left it between its two system calls.
OwnTruncation == \A h \in Handlers : pc[h] = "write" => file.st = "truncated"

\* The handlers' steps told apart by what they do to the file, and the rest.
Elsewhere(h) ==
    \/ Arrive(h) \/ StartAlreadyRunning(h) \/ StartFails(h) \/ StopTakes(h)
    \/ AlertsNoDaemon(h) \/ AlertsTakes(h) \/ Status(h) \/ AlertsRestarts(h)
    \/ AlertsRestartFails(h) \/ Disconnect(h)
Prepares(h) == StartLaunches(h) \/ StopReadsConfig(h) \/ AlertsRead(h)
Background ==
    \/ \E d \in Daemons, p \in Pollers : Tick(d, p) \/ PollDone(d, p) \/ PollerExit(d, p)
    \/ BootResumes \/ BootIdle \/ UNCHANGED vars

LEMMA Steps ==
    ASSUME [Next]_vars
    PROVE  \/ Background \/ Crash
           \/ \E h \in Handlers : \/ Elsewhere(h) \/ Prepares(h)
                                  \/ Truncate(h) \/ WriteBody(h) \/ WriteFails(h)
BY DEF Next, HandlerStep, Locks, Proceeds, Elsewhere, Prepares, Background

LEMMA ElsewhereStep ==
    ASSUME TypeOK, NEW h \in Handlers, Elsewhere(h)
    PROVE  UNCHANGED <<file, edit>> /\ ~Writing(h) /\ ~Writing(h)'
BY DEF Elsewhere, Arrive, StartAlreadyRunning, StartFails, StopTakes, AlertsNoDaemon,
   AlertsTakes, Status, AlertsRestarts, AlertsRestartFails, Disconnect, CanLock, Reply,
   Goto, Writing, TypeOK, history

LEMMA PreparesStep ==
    ASSUME Inv, NEW h \in Handlers, Prepares(h)
    PROVE  /\ UNCHANGED <<file, edit>> /\ ~Writing(h) /\ pc'[h] = "truncate"
           /\ op'[h] \in {"start", "stop", "alerts"}
           /\ op'[h] # "alerts" => /\ todo'[h].alerting = ReadPersisted.alerting
                                   /\ todo'[h].autostart = (op'[h] = "start")
                                   /\ acked' = "pending"
           /\ op'[h] # "start" => /\ todo'[h].inst = ReadPersisted.inst
                                  /\ UNCHANGED <<slot, runs>>
           /\ op'[h] = "alerts" => /\ todo'[h].autostart = ReadPersisted.autostart
                                   /\ UNCHANGED acked /\ pc[h] = "idle"
           /\ op'[h] = "stop" => slot = None
           /\ op'[h] = "start" => slot' # None /\ todo'[h] = runs'[slot']
<1> USE DEF Inv, TypeOK, Goto, Writing
<1>0. ReadPersisted \in Config
  BY ReadConfig
<1>1. CASE StartLaunches(h)
  <2> DEFINE cfg == [autostart |-> TRUE, inst |-> todo[h].inst,
                     alerting |-> ReadPersisted.alerting]
  <2>1. todo'[h] = cfg /\ todo'[h].alerting = ReadPersisted.alerting
    BY <1>1 DEF StartLaunches
  <2>2. PICK d \in Daemons : slot' = d /\ runs' = [runs EXCEPT ![d] = cfg]
    BY <1>1 DEF StartLaunches, Launch
  <2>3. slot' # None /\ runs'[slot'] = cfg
    BY <2>2, LifecycleAssumption DEF LifecycleAssumption
  <2>. QED BY <1>1, <2>1, <2>3 DEF StartLaunches, CanLock
<1>2. CASE StopReadsConfig(h)
  <2>1. slot = None
    BY <1>2 DEF StopReadsConfig, LockDiscipline, DrainUnderLock
  <2>2. todo'[h] = [ReadPersisted EXCEPT !.autostart = FALSE]
    BY <1>2 DEF StopReadsConfig
  <2>. QED BY <1>0, <1>2, <2>1, <2>2 DEF StopReadsConfig, CanLock, Config, daemonVars
<1>3. CASE AlertsRead(h)
  <2>1. PICK a \in Alerts :
          todo' = [todo EXCEPT ![h] = [ReadPersisted EXCEPT !.alerting = a]]
    BY <1>3 DEF AlertsRead
  <2>2. todo'[h] = [ReadPersisted EXCEPT !.alerting = a]
    BY <2>1
  <2>3. todo'[h].inst = ReadPersisted.inst /\ todo'[h].autostart = ReadPersisted.autostart
    BY <1>0, <2>2 DEF Config
  <2>. QED BY <1>3, <2>3 DEF AlertsRead, history, daemonVars
<1>. QED BY <1>1, <1>2, <1>3 DEF Prepares

\* A handler's step leaves the other handlers where they are.
LEMMA OthersStay ==
    ASSUME TypeOK, NEW h \in Handlers,
           Elsewhere(h) \/ Prepares(h) \/ Truncate(h) \/ WriteBody(h) \/ WriteFails(h)
    PROVE  \A g \in Handlers \ {h} :
             pc'[g] = pc[g] /\ op'[g] = op[g] /\ victim'[g] = victim[g] /\ todo'[g] = todo[g]
<1> USE DEF TypeOK, Reply, Goto
<1>1. CASE Elsewhere(h)
  <2>1. CASE StopTakes(h) \/ AlertsTakes(h)
    BY <2>1 DEF StopTakes, AlertsTakes, TakeAndCancel
  <2>2. CASE Arrive(h)
    BY <2>2 DEF Arrive
  <2>3. CASE ~StopTakes(h) /\ ~AlertsTakes(h) /\ ~Arrive(h)
    BY <1>1, <2>3 DEF Elsewhere, StartAlreadyRunning, StartFails, AlertsNoDaemon, Status,
       AlertsRestarts, AlertsRestartFails, Disconnect
  <2>. QED BY <2>1, <2>2, <2>3
<1>2. CASE Prepares(h)
  BY <1>2 DEF Prepares, StartLaunches, StopReadsConfig, AlertsRead
<1>3. CASE Truncate(h)
  BY <1>3 DEF Truncate
<1>4. CASE WriteBody(h) \/ WriteFails(h)
  BY <1>4 DEF WriteBody, WriteFails, AfterWrite
<1>. QED BY <1>1, <1>2, <1>3, <1>4

\* Who writes, or is about to, is the only one: it holds the mutex, or there is
\* no other request.
LEMMA OneWriter ==
    ASSUME Inv, Serialised, SavesAlone, NEW h \in Handlers,
           Writing(h) \/ Prepares(h) \/ StopTakes(h) \/ AlertsTakes(h)
    PROVE  \A g \in Handlers \ {h} : ~Writing(g) /\ op[g] # "alerts"
<1> USE LifecycleAssumption
    DEF LifecycleAssumption, Inv, TypeOK, LockDiscipline, DrainUnderLock, Writing
<1>1. CASE OneHandler
  BY <1>1 DEF OneHandler
<1>2. CASE ~OneHandler
  <2>1. \A g \in Handlers : op[g] # "alerts" /\ (Writing(g) => lock = g)
    BY <1>2 DEF SavesAlone
  <2>2. lock \in {h, None}
    BY <1>2, <2>1 DEF Serialised, Prepares, StartLaunches, StopReadsConfig, AlertsRead,
       StopTakes, AlertsTakes, CanLock
  <2>. QED BY <2>1, <2>2
<1>. QED BY <1>1, <1>2

LEMMA BackgroundStep == Background => UNCHANGED <<file, handlerVars, history>>
BY DEF Background, Tick, PollDone, PollerExit, BootResumes, BootIdle, vars, handlerVars,
   history

\* Alone, the writer's text is the file.
LEMMA WriteStep ==
    ASSUME TypeOK, OwnTruncation, NEW h \in Handlers, WriteBody(h)
    PROVE  /\ file' = [st |-> "ok", cfg |-> todo[h]]
           /\ edit' = IF op[h] = "alerts" THEN todo[h].alerting ELSE edit
           /\ pc[h] = "write" /\ ~Writing(h)'
BY DEF OwnTruncation, WriteBody, AfterWrite, Reply, Goto, Writing, TypeOK

LEMMA SavesAloneHolds == Serialised /\ Spec => []SavesAlone
<1> SUFFICES ASSUME Serialised PROVE Spec => []SavesAlone
  OBVIOUS
<1>1. Init => SavesAlone
  BY DEF Init, SavesAlone
<1>2. TypeOK /\ SavesAlone /\ [Next]_vars => SavesAlone'
  <2> SUFFICES ASSUME TypeOK, SavesAlone, [Next]_vars, ~OneHandler PROVE SavesAlone'
    BY DEF SavesAlone, OneHandler
  <2>1. CASE Background
    BY <2>1, BackgroundStep DEF SavesAlone, handlerVars
  <2>2. CASE Crash
    BY <2>2 DEF Crash, SavesAlone
  <2>3. ASSUME NEW h \in Handlers, op'[h] # "alerts",
               Elsewhere(h) \/ Prepares(h) \/ Truncate(h) \/ WriteBody(h) \/ WriteFails(h)
        PROVE  SavesAlone'
    BY <2>3, OthersStay DEF SavesAlone
  <2>4. ASSUME NEW h \in Handlers,
               Elsewhere(h) \/ Prepares(h) \/ Truncate(h) \/ WriteBody(h) \/ WriteFails(h)
        PROVE  op'[h] # "alerts"
    <3>1. op[h] # "alerts" /\ "alerts" \notin Ops
      BY DEF SavesAlone, Serialised
    <3>2. CASE Arrive(h)
      BY <3>2 DEF Arrive, TypeOK
    <3>3. CASE ~Arrive(h)
      BY <2>4, <3>1, <3>3 DEF Elsewhere, StartAlreadyRunning, StartFails, StopTakes,
         AlertsNoDaemon, AlertsTakes, Status, AlertsRestarts, AlertsRestartFails, Disconnect,
         Prepares, StartLaunches, StopReadsConfig, AlertsRead, Truncate, WriteBody, WriteFails
    <3>. QED BY <3>2, <3>3
  <2>. QED BY <2>1, <2>2, <2>3, <2>4, Steps
<1>. QED BY <1>1, <1>2, TypeCorrect, PTL DEF Spec

LEMMA OwnTruncationHolds == Serialised /\ Spec => []OwnTruncation
<1> SUFFICES ASSUME Serialised PROVE Spec => []OwnTruncation
  OBVIOUS
<1>1. Init => OwnTruncation
  BY DEF Init, OwnTruncation
<1>2. Inv /\ SavesAlone /\ OwnTruncation /\ [Next]_vars => OwnTruncation'
  <2> SUFFICES ASSUME Inv, SavesAlone, OwnTruncation, [Next]_vars PROVE OwnTruncation'
    OBVIOUS
  <2> USE DEF Inv
  <2>1. CASE Background
    BY <2>1, BackgroundStep DEF OwnTruncation, handlerVars
  <2>2. CASE Crash
    BY <2>2 DEF Crash, OwnTruncation
  <2>3. ASSUME NEW h \in Handlers, Elsewhere(h) \/ Prepares(h) \/ WriteFails(h)
        PROVE OwnTruncation'
    <3>1. UNCHANGED file /\ pc'[h] # "write"
      BY <2>3, ElsewhereStep, PreparesStep
      DEF WriteFails, AfterWrite, Reply, Goto, Writing, TypeOK
    <3>. QED BY <2>3, <3>1, OthersStay DEF OwnTruncation
  <2>4. ASSUME NEW h \in Handlers, Truncate(h) PROVE OwnTruncation'
    BY <2>4 DEF Truncate, OwnTruncation, TypeOK, FileState
  <2>5. ASSUME NEW h \in Handlers, WriteBody(h) PROVE OwnTruncation'
    <3>1. \A g \in Handlers : pc'[g] # "write"
      BY <2>5, WriteStep, OthersStay, OneWriter DEF Writing
    <3>. QED BY <3>1 DEF OwnTruncation
  <2>. QED BY <2>1, <2>2, <2>3, <2>4, <2>5, Steps
<1>. QED BY <1>1, <1>2, InvHolds, SavesAloneHolds, PTL DEF Spec

\* The last saved alert config is in the file or in the hands of who rewrites it.
EditKept ==
    /\ NotMidWrite => file.st \in {"missing", "ok"} /\ ReadPersisted.alerting = edit
    /\ \A h \in Handlers : Writing(h) /\ op[h] # "alerts" => todo[h].alerting = edit

\* Saved alert rules survive starts, stops, hang-ups, failing writes and every
\* crash but one halfway through a write, if requests come one at a time.
THEOREM EditsKept == OneHandler /\ NoTornWrites /\ Spec => []EditsSurvive
<1> SUFFICES ASSUME OneHandler, NoTornWrites PROVE Spec => []EditsSurvive
  OBVIOUS
<1>1. Init => EditKept
  BY DEF Init, EditKept, Writing, ReadPersisted, Blank
<1>2. Inv /\ OwnTruncation /\ EditKept /\ [Next]_vars => EditKept'
  <2> SUFFICES ASSUME Inv, OwnTruncation, EditKept, [Next]_vars PROVE EditKept'
    OBVIOUS
  <2> USE DEF Inv, EditKept, NotMidWrite, ReadPersisted
  <2>1. CASE Background
    BY <2>1, BackgroundStep DEF handlerVars, history, Writing
  <2>2. CASE Crash
    BY <2>2 DEF Crash, Writing, NoTornWrites, history
  <2>3. ASSUME NEW h \in Handlers, UNCHANGED <<file, edit>>, pc[h] # "write", ~Writing(h)'
        PROVE EditKept'
    BY <2>3 DEF OneHandler, Writing
  <2>4. ASSUME NEW h \in Handlers, Prepares(h) PROVE EditKept'
    <3>1. op'[h] # "alerts" => todo'[h].alerting = edit
      BY <2>4, PreparesStep DEF OneHandler, Writing
    <3>. QED BY <2>4, <3>1, PreparesStep DEF OneHandler, Writing
  <2>5. ASSUME NEW h \in Handlers, Truncate(h) PROVE EditKept'
    BY <2>5 DEF Truncate, Goto, TypeOK, FileState, OneHandler, Writing, history
  <2>6. ASSUME NEW h \in Handlers, WriteBody(h) PROVE EditKept'
    BY <2>6, WriteStep DEF OneHandler, Writing
  <2>7. ASSUME NEW h \in Handlers, WriteFails(h)
        PROVE  UNCHANGED <<file, edit>> /\ pc[h] # "write" /\ ~Writing(h)'
    BY <2>7 DEF WriteFails, AfterWrite, Reply, Goto, Writing, TypeOK
  <2>8. ASSUME NEW h \in Handlers, Elsewhere(h) PROVE EditKept'
    BY <2>3, <2>8, ElsewhereStep DEF Writing
  <2>. QED BY <2>1, <2>2, <2>3, <2>4, <2>5, <2>6, <2>7, <2>8, Steps
<1>3. EditKept => EditsSurvive
  BY DEF EditKept, EditsSurvive, Quiet, NotMidWrite
<1>4. Serialised
  BY DEF Serialised
<1>. QED BY <1>1, <1>2, <1>3, <1>4, InvHolds, OwnTruncationHolds, PTL DEF Spec

\* What the last start or stop was told is in the file, or in the hands of a
\* save that rewrites it; until the file is written the telling is pending.
AckKept ==
    /\ NotMidWrite /\ acked # "pending" =>
         file.st = "ok" /\ file.cfg.autostart = (acked = "on")
    /\ \A h \in Handlers : Writing(h) =>
         IF op[h] = "alerts"
         THEN acked # "pending" => todo[h].autostart = (acked = "on")
         ELSE acked = "pending" /\ todo[h].autostart = (op[h] = "start")

\* What the user was told about start or stop is what the next boot does, if
\* no write fails, no crash tears one and no save of alert rules runs beside
\* another request: any number of starts and stops may race, clients may hang up
\* and the process may die anywhere else.
THEOREM AckedKept ==
    Serialised /\ NoTornWrites /\ ~DiskFaults /\ Spec => []AckedIsPersisted
<1> SUFFICES ASSUME Serialised, NoTornWrites, ~DiskFaults
             PROVE  Spec => []AckedIsPersisted
  OBVIOUS
<1>1. Init => AckKept
  BY DEF Init, AckKept, Writing
<1>2. Inv /\ SavesAlone /\ OwnTruncation /\ AckKept /\ [Next]_vars => AckKept'
  <2> SUFFICES ASSUME Inv, SavesAlone, OwnTruncation, AckKept, [Next]_vars PROVE AckKept'
    OBVIOUS
  <2> USE DEF Inv, AckKept, NotMidWrite
  <2>1. CASE Background
    BY <2>1, BackgroundStep DEF handlerVars, history, Writing
  <2>2. CASE Crash
    BY <2>2 DEF Crash, Writing, NoTornWrites, history
  <2>3. ASSUME NEW h \in Handlers, Elsewhere(h) PROVE AckKept'
    <3>1. acked' \in {acked, "pending"}
      BY <2>3 DEF Elsewhere, Arrive, StartAlreadyRunning, StartFails, StopTakes,
         AlertsNoDaemon, AlertsTakes, Status, AlertsRestarts, AlertsRestartFails,
         Disconnect, history
    <3>. QED BY <2>3, <3>1, ElsewhereStep, OthersStay DEF Writing
  <2>4. ASSUME NEW h \in Handlers, Prepares(h) PROVE AckKept'
    <3>1. op'[h] = "alerts" =>
            (acked' # "pending" => todo'[h].autostart = (acked' = "on"))
      BY <2>4, PreparesStep, OneWriter DEF Writing, ReadPersisted
    <3>2. \A g \in Handlers \ {h} : ~Writing(g)'
      BY <2>4, OneWriter, OthersStay DEF Writing
    <3>3. pc'[h] = "truncate" /\ op'[h] \in {"start", "stop", "alerts"}
          /\ UNCHANGED file /\ \A g \in Handlers : ~Writing(g)
      BY <2>4, PreparesStep, OneWriter
    <3>4. acked' \in {acked, "pending"}
      BY <2>4, PreparesStep
    <3>5. op'[h] # "alerts" => acked' = "pending" /\ todo'[h].autostart = (op'[h] = "start")
      BY <2>4, PreparesStep
    <3>. QED BY <3>1, <3>2, <3>3, <3>4, <3>5 DEF Writing
  <2>5. ASSUME NEW h \in Handlers, Truncate(h) PROVE AckKept'
    <3>1. \A g \in Handlers \ {h} : ~Writing(g)'
      BY <2>5, OneWriter, OthersStay DEF Writing, Truncate
    <3>. QED BY <2>5, <3>1 DEF Truncate, Goto, TypeOK, FileState, Writing, history
  <2>6. ASSUME NEW h \in Handlers, WriteBody(h) PROVE AckKept'
    <3>1. file' = [st |-> "ok", cfg |-> todo[h]] /\ Writing(h) /\ ~Writing(h)'
      BY <2>6, WriteStep DEF Writing
    <3>2. acked' = IF op[h] = "alerts" THEN acked ELSE IF op[h] = "start" THEN "on" ELSE "off"
      BY <2>6 DEF WriteBody, AfterWrite
    <3>3. \A g \in Handlers : ~Writing(g)'
      BY <2>6, <3>1, OneWriter, OthersStay DEF Writing
    <3>4. acked' # "pending" => file'.st = "ok" /\ file'.cfg.autostart = (acked' = "on")
      BY <3>1, <3>2 DEF TypeOK
    <3>. QED BY <3>3, <3>4
  <2>7. ASSUME NEW h \in Handlers, WriteFails(h) PROVE FALSE
    BY <2>7 DEF WriteFails
  <2>. QED BY <2>1, <2>2, <2>3, <2>4, <2>5, <2>6, <2>7, Steps
<1>3. AckKept => AckedIsPersisted
  BY DEF AckKept, AckedIsPersisted, Quiet, NotMidWrite
<1>. QED BY <1>1, <1>2, <1>3, InvHolds, OwnTruncationHolds, SavesAloneHolds, PTL DEF Spec

\* The file and the daemon poll the same instances, or who is about to write the
\* file or to start the daemon holds a config that does.
InstHeld(h) ==
    /\ Writing(h) => op[h] # "status"
    /\ Writing(h) /\ op[h] = "start" => slot # None /\ todo[h] = runs[slot]
    /\ Writing(h) /\ op[h] = "stop" => slot = None
    /\ pc[h] \in {"lock", "drain"} /\ op[h] = "alerts" =>
         file.st = "ok" /\ file.cfg = todo[h]
    /\ pc[h] = "drain" /\ op[h] = "alerts" => todo[h].inst = runs[victim[h]].inst
    /\ pc[h] # "idle" /\ op[h] = "alerts" /\ slot # None =>
         todo[h].inst = runs[slot].inst

InstFiled ==
    slot # None /\ (\A h \in Handlers : ~Writing(h) \/ (pc[h] = "truncate" /\ op[h] = "alerts")) =>
        file.st = "ok" /\ file.cfg.inst = runs[slot].inst

InstKept == (\A h \in Handlers : InstHeld(h)) /\ InstFiled

\* A boot or the second half of a reload starts what the file says.
LEMMA StartsFromFile ==
    ASSUME Inv, InstKept, NEW h \in Handlers, AlertsRestarts(h)
    PROVE  /\ pc[h] = "drain" /\ op[h] = "alerts" /\ ~Writing(h)'
           /\ pc'[h] = "idle" /\ file'.st = "ok" /\ file'.cfg = runs'[slot']
<1>1. PICK d \in Daemons : slot' = d /\ runs' = [runs EXCEPT ![d] = todo[h]]
  BY DEF AlertsRestarts, Launch
<1>. QED BY <1>1 DEF AlertsRestarts, InstKept, InstHeld, Inv, TypeOK, Reply, Goto, Writing

LEMMA BootsFromFile ==
    ASSUME Inv, BootResumes
    PROVE  /\ \A h \in Handlers : pc'[h] = "idle"
           /\ file'.st = "ok" /\ file'.cfg = runs'[slot']
<1>1. PICK d \in Daemons : slot' = d /\ runs' = [runs EXCEPT ![d] = file.cfg]
  BY DEF BootResumes, Launch
<1>. QED BY <1>1 DEF BootResumes, Inv, LockDiscipline, TypeOK, handlerVars

\* What another handler holds stays true: if that one writes, it has the mutex,
\* and the slot does not change.
LEMMA OthersHold ==
    ASSUME Inv, Serialised, SavesAlone, InstKept, NEW h \in Handlers,
           Elsewhere(h) \/ Prepares(h) \/ Truncate(h) \/ WriteBody(h) \/ WriteFails(h),
           NEW g \in Handlers, g # h
    PROVE  InstHeld(g)'
<1>1. op[g] # "alerts" /\ op'[g] = op[g] /\ pc'[g] = pc[g] /\ todo'[g] = todo[g]
  BY OthersStay DEF SavesAlone, OneHandler, Inv
<1>2. CASE ~Writing(g)
  BY <1>1, <1>2 DEF InstHeld, Writing
<1>3. CASE Writing(g)
  <2>1. ~Prepares(h) /\ ~StopTakes(h) /\ ~AlertsTakes(h)
    BY <1>3, OneWriter
  <2>2. ~AlertsRestarts(h)
    BY DEF AlertsRestarts, SavesAlone, OneHandler
  <2>3. UNCHANGED <<slot, runs>>
    BY <2>1, <2>2 DEF Elsewhere, Arrive, StartAlreadyRunning, StartFails, AlertsNoDaemon,
       Status, AlertsRestartFails, Disconnect, Truncate, WriteBody, WriteFails, daemonVars
  <2>4. InstHeld(g)
    BY DEF InstKept
  <2>. QED BY <1>1, <2>3, <2>4 DEF InstHeld, Writing
<1>. QED BY <1>2, <1>3

LEMMA InstKeptHolds == Serialised /\ ~DiskFaults /\ Spec => []InstKept
<1> SUFFICES ASSUME Serialised, ~DiskFaults PROVE Spec => []InstKept
  OBVIOUS
<1>1. Init => InstKept
  BY DEF Init, InstKept, InstHeld, InstFiled, Writing
<1>2. Inv /\ SavesAlone /\ OwnTruncation /\ InstKept /\ [Next]_vars => InstKept'
  <2> SUFFICES ASSUME Inv, SavesAlone, OwnTruncation, InstKept, [Next]_vars PROVE InstKept'
    OBVIOUS
  <2> USE DEF Inv
  <2>1. CASE Background
    <3> USE DEF InstKept, InstHeld, InstFiled, Writing
    <3>1. CASE BootResumes
      BY <3>1, BootsFromFile
    <3>2. CASE ~BootResumes
      <4>1. UNCHANGED <<slot, runs>>
        BY <2>1, <3>2 DEF Background, Tick, PollDone, PollerExit, BootIdle, vars, daemonVars
      <4>. QED BY <2>1, <4>1, BackgroundStep DEF handlerVars
    <3>. QED BY <3>1, <3>2
  <2>2. CASE Crash
    BY <2>2 DEF Crash, InstKept, InstHeld, InstFiled, Writing
  <2>3. ASSUME NEW h \in Handlers, InstHeld(h)', InstFiled',
               Elsewhere(h) \/ Prepares(h) \/ Truncate(h) \/ WriteBody(h) \/ WriteFails(h)
        PROVE  InstKept'
    <3>1. \A g \in Handlers : g # h => InstHeld(g)'
      BY <2>3, OthersHold
    <3>. QED BY <2>3, <3>1 DEF InstKept
  <2>4. ASSUME NEW h \in Handlers, Elsewhere(h) PROVE InstHeld(h)' /\ InstFiled'
    <3>0. \A g \in Handlers \ {h} : pc'[g] = pc[g] /\ op'[g] = op[g]
      BY <2>4, OthersStay
    <3>1. CASE AlertsRestarts(h)
      <4>1. slot' # None /\ file'.st = "ok" /\ file'.cfg = runs'[slot'] /\ pc'[h] = "idle"
        BY <3>1, StartsFromFile, LifecycleAssumption
        DEF AlertsRestarts, Launch, LifecycleAssumption
      <4>. QED BY <4>1 DEF InstHeld, InstFiled, Writing
    <3>2. CASE StopTakes(h) \/ AlertsTakes(h)
      <4>1. slot' = None /\ ~Writing(h)'
        BY <2>4, <3>2, ElsewhereStep DEF StopTakes, AlertsTakes, TakeAndCancel
      <4>2. CASE StopTakes(h)
        BY <4>1, <4>2 DEF StopTakes, CanLock, InstHeld, InstFiled
      <4>3. CASE AlertsTakes(h)
        <5>1. InstHeld(h) /\ pc[h] = "lock" /\ op[h] = "alerts" /\ slot # None
          BY <4>3 DEF AlertsTakes, CanLock, TakeAndCancel, InstKept
        <5>2. victim'[h] = slot /\ UNCHANGED <<op, todo, file, runs>>
          BY <4>3 DEF AlertsTakes, TakeAndCancel, TypeOK
        <5>. QED BY <4>1, <5>1, <5>2 DEF InstHeld, InstFiled
      <4>. QED BY <3>2, <4>2, <4>3
    <3>3. CASE ~AlertsRestarts(h) /\ ~StopTakes(h) /\ ~AlertsTakes(h)
      <4>1. /\ UNCHANGED <<file, slot, runs>> /\ ~Writing(h) /\ ~Writing(h)'
            /\ pc'[h] = "idle" \/ op'[h] # "alerts"
        BY <2>4, <3>3, ElsewhereStep DEF Elsewhere, Arrive, StartAlreadyRunning, StartFails,
           AlertsNoDaemon, Status, AlertsRestartFails, Disconnect, Reply, Goto, TypeOK,
           daemonVars
      <4>2. InstHeld(h)'
        BY <4>1 DEF InstHeld
      <4>3. InstFiled'
        BY <3>0, <4>1 DEF InstKept, InstFiled, Writing
      <4>. QED BY <4>2, <4>3
    <3>. QED BY <3>1, <3>2, <3>3
  <2>5. ASSUME NEW h \in Handlers, Prepares(h) PROVE InstHeld(h)' /\ InstFiled'
    <3>1. /\ UNCHANGED file /\ pc'[h] = "truncate" /\ op'[h] \in {"start", "stop", "alerts"}
          /\ op'[h] = "start" => slot' # None /\ todo'[h] = runs'[slot']
          /\ op'[h] = "stop" => slot' = None
          /\ op'[h] = "alerts" =>
               UNCHANGED <<slot, runs>> /\ todo'[h].inst = ReadPersisted.inst
          /\ \A g \in Handlers : ~Writing(g)
      BY <2>5, PreparesStep, OneWriter
    <3>2. op'[h] = "alerts" /\ slot' # None =>
            /\ file'.st = "ok" /\ file'.cfg.inst = runs'[slot'].inst
            /\ todo'[h].inst = runs'[slot'].inst
      BY <3>1 DEF InstKept, InstFiled, ReadPersisted
    <3>. QED BY <3>1, <3>2 DEF InstHeld, InstFiled, Writing
  <2>6. ASSUME NEW h \in Handlers, Truncate(h) PROVE InstHeld(h)' /\ InstFiled'
    <3>1. pc[h] = "truncate" /\ pc'[h] = "write" /\ UNCHANGED <<op, todo, slot, runs>>
      BY <2>6 DEF Truncate, Goto, TypeOK, daemonVars
    <3>2. InstHeld(h)
      BY DEF InstKept
    <3>. QED BY <3>1, <3>2 DEF InstHeld, InstFiled, Writing
  <2>7. ASSUME NEW h \in Handlers, WriteBody(h) PROVE InstHeld(h)' /\ InstFiled'
    <3>1. /\ file' = [st |-> "ok", cfg |-> todo[h]] /\ pc[h] = "write" /\ ~Writing(h)'
          /\ UNCHANGED <<slot, runs, op>>
      BY <2>7, WriteStep DEF WriteBody, daemonVars
    <3>2. IF op[h] = "alerts" THEN pc'[h] = "lock" /\ todo' = todo ELSE pc'[h] = "idle"
      BY <2>7 DEF WriteBody, AfterWrite, Reply, Goto, TypeOK
    <3>3. op[h] \in {"start", "stop", "alerts"} /\ InstHeld(h)
      BY <3>1 DEF InstKept, InstHeld, Writing, TypeOK
    <3>4. slot # None => todo[h].inst = runs[slot].inst
      BY <3>1, <3>3 DEF InstHeld, Writing
    <3>. QED BY <3>1, <3>2, <3>3, <3>4 DEF InstHeld, InstFiled
  <2>8. ASSUME NEW h \in Handlers, WriteFails(h) PROVE FALSE
    BY <2>8 DEF WriteFails
  <2>. QED BY <2>1, <2>2, <2>3, <2>4, <2>5, <2>6, <2>7, <2>8, Steps
<1>. QED BY <1>1, <1>2, InvHolds, SavesAloneHolds, OwnTruncationHolds, PTL DEF Spec

\* With one request at a time and no failing write, a reload for new alert rules
\* resumes the instances the daemon was polling, whichever crash or hang-up came
\* before.
THEOREM ReloadKeeps == OneHandler /\ ~DiskFaults /\ Spec => ReloadKeepsInstances
<1> SUFFICES ASSUME OneHandler, ~DiskFaults PROVE Spec => ReloadKeepsInstances
  OBVIOUS
<1> DEFINE resumes(h) == pc[h] = "drain" /\ op[h] = "alerts" /\ slot' # None
                           => runs'[slot'].inst = runs[victim[h]].inst
<1>1. ASSUME Inv, InstKept, [Next]_vars PROVE \A h \in Handlers : resumes(h)
  <2> SUFFICES ASSUME NEW h \in Handlers, pc[h] = "drain", op[h] = "alerts", slot' # None
               PROVE  runs'[slot'].inst = runs[victim[h]].inst
    OBVIOUS
  <2>1. slot = None /\ up /\ ~Writing(h) /\ \A g \in Handlers : g = h
    BY <1>1 DEF Inv, LockDiscipline, DrainUnderLock, OneHandler, Writing
  <2>2. AlertsRestarts(h)
    <3>1. CASE Background
      BY <2>1, <3>1 DEF Background, Tick, PollDone, PollerExit, BootResumes, BootIdle,
         vars, daemonVars
    <3>2. ASSUME NEW g \in Handlers, Prepares(g) \/ Truncate(g) \/ WriteBody(g) \/ WriteFails(g)
          PROVE  FALSE
      BY <2>1, <3>2 DEF Prepares, StartLaunches, StopReadsConfig, AlertsRead, CanLock,
         Truncate, WriteBody, WriteFails, Writing
    <3>3. ASSUME NEW g \in Handlers, Elsewhere(g) PROVE AlertsRestarts(g)
      BY <2>1, <3>3 DEF Elsewhere, Arrive, StartAlreadyRunning, StartFails, AlertsNoDaemon,
         Status, CanLock, AlertsRestartFails, Disconnect, AlertsTakes, StopTakes, TakeAndCancel,
         daemonVars
    <3>4. CASE Crash
      BY <3>4 DEF Crash
    <3>. QED BY <1>1, <2>1, <3>1, <3>2, <3>3, <3>4, Steps
  <2>3. file.cfg = todo[h] /\ file'.cfg = runs'[slot']
    BY <1>1, <2>1, <2>2, StartsFromFile DEF InstKept, InstHeld
  <2>. QED BY <1>1, <2>2, <2>3 DEF InstKept, InstHeld, AlertsRestarts
<1>2. Serialised
  BY DEF Serialised
<1>3. Spec => [][\A h \in Handlers : resumes(h)]_vars
  BY <1>1, <1>2, InvHolds, InstKeptHolds, PTL DEF Spec
<1>. QED BY <1>3 DEF ReloadKeepsInstances

\* Nobody hangs up: but for a save that has written and not reloaded yet, the
\* daemon runs the config in the file.
CfgKept ==
    slot # None /\ (\A h \in Handlers : \/ pc[h] = "idle"
                                        \/ pc[h] = "lock" /\ op[h] # "alerts"
                                        \/ pc[h] = "truncate" /\ op[h] = "alerts")
        => file.st = "ok" /\ file.cfg = runs[slot]

\* With nothing in flight, the running daemon is the one the file describes, if
\* no client hangs up, no write fails and no save of alert rules runs beside
\* another request; starts and stops may race and crashes may fall anywhere.
THEOREM RunsTheFile ==
    Serialised /\ ~DiskFaults /\ ~Disconnects /\ Spec => []RunsWhatFileSays
<1> SUFFICES ASSUME Serialised, ~DiskFaults, ~Disconnects
             PROVE  Spec => []RunsWhatFileSays
  OBVIOUS
<1>1. Init => CfgKept
  BY DEF Init, CfgKept
<1>2. Inv /\ SavesAlone /\ OwnTruncation /\ InstKept /\ CfgKept /\ [Next]_vars => CfgKept'
  <2> SUFFICES ASSUME Inv, SavesAlone, OwnTruncation, InstKept, CfgKept, [Next]_vars
               PROVE  CfgKept'
    OBVIOUS
  <2> USE DEF CfgKept
  <2>1. CASE Background
    <3>1. CASE BootResumes
      BY <3>1, BootsFromFile
    <3>2. CASE ~BootResumes
      <4>1. UNCHANGED <<slot, runs>>
        BY <2>1, <3>2 DEF Background, Tick, PollDone, PollerExit, BootIdle, vars, daemonVars
      <4>. QED BY <2>1, <4>1, BackgroundStep DEF handlerVars
    <3>. QED BY <3>1, <3>2
  <2>2. CASE Crash
    BY <2>2 DEF Crash
  <2>3. ASSUME NEW h \in Handlers, Elsewhere(h) PROVE CfgKept'
    <3>0. \A g \in Handlers \ {h} : pc'[g] = pc[g] /\ op'[g] = op[g]
      BY <2>3, OthersStay DEF Inv
    <3>1. CASE AlertsRestarts(h)
      <4>1. slot' # None /\ slot = None
        BY <3>1, LifecycleAssumption
        DEF AlertsRestarts, Launch, LifecycleAssumption, Inv, LockDiscipline, DrainUnderLock
      <4>. QED BY <3>1, <4>1, StartsFromFile
    <3>2. CASE Arrive(h)
      <4>1. UNCHANGED <<file, slot, runs>> /\ pc[h] = "idle"
        BY <3>2 DEF Arrive, daemonVars
      <4>. QED BY <3>0, <4>1
    <3>3. CASE AlertsTakes(h) \/ StopTakes(h) \/ AlertsRestartFails(h) \/ AlertsNoDaemon(h)
      BY <3>3 DEF AlertsTakes, StopTakes, TakeAndCancel, AlertsRestartFails, AlertsNoDaemon,
         Inv, LockDiscipline, DrainUnderLock
    <3>4. CASE StartAlreadyRunning(h) \/ StartFails(h) \/ Status(h)
      <4>1. UNCHANGED <<file, slot, runs>> /\ pc[h] = "lock" /\ op[h] # "alerts"
        BY <3>4 DEF StartAlreadyRunning, StartFails, Status, CanLock, daemonVars
      <4>. QED BY <3>0, <4>1
    <3>5. CASE Disconnect(h)
      BY <3>5 DEF Disconnect
    <3>. QED BY <2>3, <3>1, <3>2, <3>3, <3>4, <3>5 DEF Elsewhere
  <2>4. ASSUME NEW h \in Handlers, Prepares(h) PROVE CfgKept'
    <3>1. /\ UNCHANGED file /\ pc'[h] = "truncate" /\ op'[h] \in {"start", "stop", "alerts"}
          /\ op'[h] = "stop" => slot' = None
          /\ op'[h] = "alerts" => UNCHANGED <<slot, runs>> /\ pc[h] = "idle"
      BY <2>4, PreparesStep
    <3>2. \A g \in Handlers \ {h} : pc'[g] = pc[g] /\ op'[g] = op[g]
      BY <2>4, OthersStay DEF Inv
    <3>. QED BY <3>1, <3>2
  <2>5. ASSUME NEW h \in Handlers, Truncate(h) PROVE CfgKept'
    BY <2>5 DEF Truncate, Goto, Inv, TypeOK
  <2>6. ASSUME NEW h \in Handlers, WriteBody(h) PROVE CfgKept'
    <3>1. /\ file' = [st |-> "ok", cfg |-> todo[h]] /\ Writing(h)
          /\ UNCHANGED <<slot, runs, op>>
      BY <2>6, WriteStep DEF WriteBody, daemonVars, Inv, Writing
    <3>2. op[h] = "alerts" => pc'[h] = "lock"
      BY <2>6 DEF WriteBody, AfterWrite, Goto, Inv, TypeOK
    <3>3. op[h] \in {"start", "stop", "alerts"}
      BY <3>1 DEF InstKept, InstHeld, Inv, TypeOK
    <3>. QED BY <3>1, <3>2, <3>3 DEF InstKept, InstHeld
  <2>7. ASSUME NEW h \in Handlers, WriteFails(h) PROVE FALSE
    BY <2>7 DEF WriteFails
  <2>. QED BY <2>1, <2>2, <2>3, <2>4, <2>5, <2>6, <2>7, Steps
<1>3. CfgKept => RunsWhatFileSays
  BY DEF CfgKept, RunsWhatFileSays, Quiet
<1>. QED BY <1>1, <1>2, <1>3, InvHolds, OwnTruncationHolds, InstKeptHolds,
         SavesAloneHolds, PTL DEF Spec
=============================================================================
