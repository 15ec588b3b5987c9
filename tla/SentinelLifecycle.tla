-------------------------- MODULE SentinelLifecycle --------------------------
(***************************************************************************)
(* The monitoring daemon's life inside one backend process: the global     *)
(* slot behind a tokio mutex, the HTTP handlers that start, stop, reload   *)
(* and look at it, the config file they persist for the next boot, and the *)
(* poller tasks of every daemon that was ever started.                     *)
(*                                                                         *)
(* Source: backend/src/sentinel_api.rs, sentinel/src/lib.rs and            *)
(* sentinel/src/scheduler.rs.  A handler's step ends where another thread  *)
(* can tell: at an await, and around each access to the config file, which *)
(* std::fs::write replaces in two system calls (truncate, then write).     *)
(***************************************************************************)
CONSTANTS
    Handlers,       \* HTTP requests the backend may be serving at once
    Daemons,        \* identities for daemons; bounds how many drain at once
    Pollers,        \* the tasks of one daemon's scheduler (housekeeping too)
    InstLists,      \* instance lists a start request may carry
    NoInst,         \* the empty instance list
    Alerts,         \* alert configs a user may save
    DefaultAlerts,  \* AlertConfig::default()
    Ops,            \* which handlers this instance of the model serves
    None,           \* no handler, no daemon
    CrashPoints,    \* where every handler is when the process dies, if it may
    Disconnects,    \* may a client hang up, dropping its handler's future?
    DiskFaults      \* may write_persisted fail and only log?

ASSUME LifecycleAssumption ==
    /\ None \notin Handlers \cup Daemons
    /\ NoInst \in InstLists
    /\ DefaultAlerts \in Alerts
    /\ Pollers # {}
    /\ Ops \subseteq {"start", "stop", "alerts", "status"}
    /\ CrashPoints \subseteq {"idle", "lock", "drain", "truncate", "write"}
    /\ {Disconnects, DiskFaults} \subseteq BOOLEAN

VARIABLES
    up,         \* the backend process is running
    lock,       \* the handler holding the slot's mutex, or None
    slot,       \* the daemon inside the mutex, or None
    cancelled,  \* daemon -> its shutdown token is cancelled
    poller,     \* daemon -> task -> "idle" (in select!), "polling", "exited"
    runs,       \* daemon -> the instances and alerting it was started with
    file,       \* sentinel-config.json
    pc,         \* handler -> where it is
    op,         \* handler -> which endpoint it serves
    victim,     \* handler -> the daemon it took from the slot and awaits
    todo,       \* handler -> the config it will write or start
    acked,      \* history: what the last start or stop told the user
    edit        \* history: the last alert config a save wrote to the file

daemonVars == <<cancelled, poller, runs>>
handlerVars == <<pc, op, victim, todo>>
history == <<acked, edit>>
vars == <<up, lock, slot, daemonVars, file, handlerVars, history>>

Config == [autostart : BOOLEAN, inst : InstLists, alerting : Alerts]
Blank == [autostart |-> FALSE, inst |-> NoInst, alerting |-> DefaultAlerts]
FileState == [st : {"missing", "ok", "truncated", "garbled"}, cfg : Config]

\* read_persisted: the config, or what the callers use when there is none.
ReadPersisted == IF file.st = "ok" THEN file.cfg ELSE Blank

-----------------------------------------------------------------------------
(* Daemons: Sentinel::start, Sentinel::stop and the scheduler's tasks.     *)

Alive(d) == \E p \in Pollers : poller[d][p] # "exited"

Unused(d) == d # slot /\ ~Alive(d) /\ \A h \in Handlers : victim[h] # d

\* Sentinel::start succeeds: a fresh token, one task per poller.
Launch(d, cfg) ==
    /\ Unused(d)
    /\ slot' = d
    /\ cancelled' = [cancelled EXCEPT ![d] = FALSE]
    /\ poller' = [poller EXCEPT ![d] = [p \in Pollers |-> "idle"]]
    /\ runs' = [runs EXCEPT ![d] = cfg]

\* Mutant: the daemon is taken out of the slot but its token is not cancelled.
TakeWithoutCancel(h) ==
    /\ slot # None
    /\ victim' = [victim EXCEPT ![h] = slot]
    /\ slot' = None
    /\ UNCHANGED <<cancelled, poller, runs>>

\* guard.take() and the synchronous half of Sentinel::stop.
TakeAndCancel(h) ==
    /\ slot # None
    /\ victim' = [victim EXCEPT ![h] = slot]
    /\ cancelled' = [cancelled EXCEPT ![slot] = TRUE]
    /\ slot' = None
    /\ UNCHANGED <<poller, runs>>

\* select! polls its branches in random order: a tick that is due may win
\* against a token that is already cancelled.
Tick(d, p) ==
    /\ poller[d][p] = "idle"
    /\ poller' = [poller EXCEPT ![d][p] = "polling"]
    /\ UNCHANGED <<up, lock, slot, cancelled, runs, file, handlerVars, history>>

\* Mutant: a failing poll is retried inside the tick, never looking at the token.
PollRetries(d, p) ==
    /\ poller[d][p] = "polling"
    /\ poller' = [poller EXCEPT ![d][p] = "polling"]
    /\ UNCHANGED <<up, lock, slot, cancelled, runs, file, handlerVars, history>>

\* A poll returns, with rows or with an error that is only logged.
PollDone(d, p) ==
    /\ poller[d][p] = "polling"
    /\ poller' = [poller EXCEPT ![d][p] = "idle"]
    /\ UNCHANGED <<up, lock, slot, cancelled, runs, file, handlerVars, history>>

PollerExit(d, p) ==
    /\ poller[d][p] = "idle"
    /\ cancelled[d]
    /\ poller' = [poller EXCEPT ![d][p] = "exited"]
    /\ UNCHANGED <<up, lock, slot, cancelled, runs, file, handlerVars, history>>

-----------------------------------------------------------------------------
(* Handlers.                                                               *)

Goto(h, label) == pc' = [pc EXCEPT ![h] = label]

\* The handler returns its response and drops everything it owns.
Reply(h) ==
    /\ Goto(h, "idle")
    /\ victim' = [victim EXCEPT ![h] = None]
    /\ todo' = [todo EXCEPT ![h] = Blank]

CanLock(h, o) == pc[h] = "lock" /\ op[h] = o /\ lock = None

\* A start, stop or status request reaches its handler and asks for the mutex.
Arrive(h) ==
    /\ up /\ pc[h] = "idle"
    /\ \E o \in Ops \ {"alerts"}, i \in InstLists :
         /\ o # "start" => i = NoInst
         /\ op' = [op EXCEPT ![h] = o]
         /\ todo' = [todo EXCEPT ![h] = [Blank EXCEPT !.inst = i]]
    /\ Goto(h, "lock")
    /\ UNCHANGED <<up, lock, slot, daemonVars, file, victim, history>>

StartAlreadyRunning(h) ==
    /\ CanLock(h, "start") /\ slot # None
    /\ Reply(h)
    /\ UNCHANGED <<up, lock, slot, daemonVars, file, op, history>>

\* Mutant: start does not look whether a daemon is running.
StartUnchecked(h) ==
    /\ CanLock(h, "start")
    /\ LET cfg == [autostart |-> TRUE, inst |-> todo[h].inst,
                   alerting |-> ReadPersisted.alerting]
       IN  /\ todo' = [todo EXCEPT ![h] = cfg]
           /\ \E d \in Daemons : Launch(d, cfg)
    /\ lock' = h
    /\ Goto(h, "truncate")
    /\ acked' = "pending"
    /\ UNCHANGED <<up, file, op, victim, edit>>

\* Mutant: start persists the default alert rules.
StartForgetsAlerts(h) ==
    /\ CanLock(h, "start") /\ slot = None
    /\ LET cfg == [Blank EXCEPT !.autostart = TRUE, !.inst = todo[h].inst]
       IN  /\ todo' = [todo EXCEPT ![h] = cfg]
           /\ \E d \in Daemons : Launch(d, cfg)
    /\ lock' = h
    /\ Goto(h, "truncate")
    /\ acked' = "pending"
    /\ UNCHANGED <<up, file, op, victim, edit>>

\* Sentinel::start has no await: the slot is filled in the step that locks it.
StartLaunches(h) ==
    /\ CanLock(h, "start") /\ slot = None
    /\ LET cfg == [autostart |-> TRUE, inst |-> todo[h].inst,
                   alerting |-> ReadPersisted.alerting]
       IN  /\ todo' = [todo EXCEPT ![h] = cfg]
           /\ \E d \in Daemons : Launch(d, cfg)
    /\ lock' = h
    /\ Goto(h, "truncate")
    /\ acked' = "pending"
    /\ UNCHANGED <<up, file, op, victim, edit>>

\* Storage::open or create_dir_all failed: a 500, nothing persisted.
StartFails(h) ==
    /\ CanLock(h, "start") /\ slot = None
    /\ Reply(h)
    /\ UNCHANGED <<up, lock, slot, daemonVars, file, op, history>>
StopTakes(h) ==
    /\ CanLock(h, "stop")
    /\ TakeAndCancel(h)
    /\ lock' = h
    /\ Goto(h, "drain")
    /\ acked' = "pending"
    /\ UNCHANGED <<up, file, op, todo, edit>>

\* Mutant: stop cancels the token and does not join the scheduler.
StopDoesNotWait(h) ==
    /\ op[h] = "stop"
    /\ \/ pc[h] = "drain"
       \/ CanLock(h, "stop") /\ slot = None
    /\ lock' = h
    /\ todo' = [todo EXCEPT ![h] = [ReadPersisted EXCEPT !.autostart = FALSE]]
    /\ Goto(h, "truncate")
    /\ acked' = "pending"
    /\ UNCHANGED <<up, slot, daemonVars, file, op, victim, edit>>

\* After the daemon is gone, or at once when none ran: re-read the file and
\* prepare to write it back with autostart off.
StopReadsConfig(h) ==
    /\ op[h] = "stop"
    /\ \/ pc[h] = "drain" /\ ~Alive(victim[h])
       \/ CanLock(h, "stop") /\ slot = None
    /\ lock' = h
    /\ todo' = [todo EXCEPT ![h] = [ReadPersisted EXCEPT !.autostart = FALSE]]
    /\ Goto(h, "truncate")
    /\ acked' = "pending"
    /\ UNCHANGED <<up, slot, daemonVars, file, op, victim, edit>>

\* Mutants: saving alert rules loses the autostart flag, or the instances.
AlertsReadDropsAutostart(h) ==
    /\ up /\ pc[h] = "idle" /\ "alerts" \in Ops
    /\ op' = [op EXCEPT ![h] = "alerts"]
    /\ \E a \in Alerts :
         todo' = [todo EXCEPT ![h] =
                    [ReadPersisted EXCEPT !.alerting = a, !.autostart = FALSE]]
    /\ Goto(h, "truncate")
    /\ UNCHANGED <<up, lock, slot, daemonVars, file, victim, history>>

AlertsReadDropsInstances(h) ==
    /\ up /\ pc[h] = "idle" /\ "alerts" \in Ops
    /\ op' = [op EXCEPT ![h] = "alerts"]
    /\ \E a \in Alerts :
         todo' = [todo EXCEPT ![h] =
                    [ReadPersisted EXCEPT !.alerting = a, !.inst = NoInst]]
    /\ Goto(h, "truncate")
    /\ UNCHANGED <<up, lock, slot, daemonVars, file, victim, history>>

\* set_alert_config reads the file before it asks for the mutex.
AlertsRead(h) ==
    /\ up /\ pc[h] = "idle" /\ "alerts" \in Ops
    /\ op' = [op EXCEPT ![h] = "alerts"]
    /\ \E a \in Alerts :
         todo' = [todo EXCEPT ![h] = [ReadPersisted EXCEPT !.alerting = a]]
    /\ Goto(h, "truncate")
    /\ UNCHANGED <<up, lock, slot, daemonVars, file, victim, history>>

\* Mutant: saving alert rules never reloads the running daemon.
AlertsNeverReload(h) ==
    /\ CanLock(h, "alerts")
    /\ Reply(h)
    /\ UNCHANGED <<up, lock, slot, daemonVars, file, op, history>>

AlertsNoDaemon(h) ==
    /\ CanLock(h, "alerts") /\ slot = None
    /\ Reply(h)
    /\ UNCHANGED <<up, lock, slot, daemonVars, file, op, history>>

AlertsTakes(h) ==
    /\ CanLock(h, "alerts")
    /\ TakeAndCancel(h)
    /\ lock' = h
    /\ Goto(h, "drain")
    /\ UNCHANGED <<up, file, op, todo, history>>

AlertsRestarts(h) ==
    /\ pc[h] = "drain" /\ op[h] = "alerts" /\ ~Alive(victim[h])
    /\ \E d \in Daemons : Launch(d, todo[h])
    /\ Reply(h)
    /\ lock' = None
    /\ UNCHANGED <<up, file, op, history>>

AlertsRestartFails(h) ==
    /\ pc[h] = "drain" /\ op[h] = "alerts" /\ ~Alive(victim[h])
    /\ Reply(h)
    /\ lock' = None
    /\ UNCHANGED <<up, slot, daemonVars, file, op, history>>

Status(h) ==
    /\ CanLock(h, "status")
    /\ Reply(h)
    /\ UNCHANGED <<up, lock, slot, daemonVars, file, op, history>>

-----------------------------------------------------------------------------
(* write_persisted, and what each caller does once it returns.             *)

AfterWrite(h) ==
    IF op[h] = "alerts"
    THEN Goto(h, "lock") /\ UNCHANGED <<lock, victim, todo, acked>>
    ELSE /\ Reply(h)
         /\ lock' = None
         /\ acked' = IF op[h] = "start" THEN "on" ELSE "off"
Truncate(h) ==
    /\ pc[h] = "truncate"
    /\ file' = [file EXCEPT !.st = "truncated", !.cfg = Blank]
    /\ Goto(h, "write")
    /\ UNCHANGED <<up, lock, slot, daemonVars, op, victim, todo, history>>

\* Each writer has its own file offset.  Over an empty file the new text is the
\* file; over the text of a writer that came in between, a longer tail stays.
WriteBody(h) ==
    /\ pc[h] = "write"
    /\ \/ file' = [st |-> "ok", cfg |-> todo[h]]
       \/ file.st # "truncated" /\ file' = [st |-> "garbled", cfg |-> Blank]
    /\ AfterWrite(h)
    /\ edit' = IF op[h] = "alerts" THEN todo[h].alerting ELSE edit
    /\ UNCHANGED <<up, slot, daemonVars, op>>

\* The directory or the file cannot be written: a warning, and the handler
\* goes on as if it had been.
WriteFails(h) ==
    /\ DiskFaults /\ pc[h] = "truncate"
    /\ AfterWrite(h)
    /\ UNCHANGED <<up, slot, daemonVars, file, op, edit>>

-----------------------------------------------------------------------------
(* The client, the process and the next boot.                              *)

\* The client hangs up: axum drops the handler's future at its await, which
\* frees the mutex.  A daemon it was awaiting drains on its own.
Disconnect(h) ==
    /\ Disconnects /\ pc[h] \in {"lock", "drain"}
    /\ Reply(h)
    /\ lock' = IF lock = h THEN None ELSE lock
    /\ UNCHANGED <<up, slot, daemonVars, file, op, history>>

\* A kill, a power cut, or /api/shutdown's exit(0): no handler is waited for.
Crash ==
    /\ up
    /\ Handlers # {} /\ \A h \in Handlers : pc[h] \in CrashPoints
    /\ up' = FALSE
    /\ lock' = None
    /\ slot' = None
    /\ poller' = [d \in Daemons |-> [p \in Pollers |-> "exited"]]
    /\ pc' = [h \in Handlers |-> "idle"]
    /\ victim' = [h \in Handlers |-> None]
    /\ todo' = [h \in Handlers |-> Blank]
    /\ UNCHANGED <<cancelled, runs, file, op, history>>

\* autostart_from_disk runs before the listener is bound.
BootResumes ==
    /\ ~up
    /\ file.st = "ok" /\ file.cfg.autostart /\ file.cfg.inst # NoInst
    /\ up' = TRUE
    /\ \E d \in Daemons : Launch(d, file.cfg)
    /\ UNCHANGED <<lock, file, handlerVars, history>>

\* Nothing to resume, or Sentinel::start failed and was only logged.
BootIdle ==
    /\ ~up
    /\ up' = TRUE
    /\ UNCHANGED <<lock, slot, daemonVars, file, handlerVars, history>>

-----------------------------------------------------------------------------
Init ==
    /\ up = FALSE
    /\ lock = None
    /\ slot = None
    /\ cancelled = [d \in Daemons |-> FALSE]
    /\ poller = [d \in Daemons |-> [p \in Pollers |-> "exited"]]
    /\ runs = [d \in Daemons |-> Blank]
    /\ file = [st |-> "missing", cfg |-> Blank]
    /\ pc = [h \in Handlers |-> "idle"]
    /\ op = [h \in Handlers |-> "status"]
    /\ victim = [h \in Handlers |-> None]
    /\ todo = [h \in Handlers |-> Blank]
    /\ acked = "pending"
    /\ edit = DefaultAlerts

\* The steps that need the mutex and find it free.
Locks(h) ==
    \/ StartAlreadyRunning(h) \/ StartLaunches(h) \/ StartFails(h)
    \/ StopTakes(h) \/ AlertsNoDaemon(h) \/ AlertsTakes(h) \/ Status(h)
    \/ CanLock(h, "stop") /\ StopReadsConfig(h)

\* The steps a handler takes without waiting for the mutex.
Proceeds(h) ==
    \/ pc[h] = "drain" /\ StopReadsConfig(h)
    \/ AlertsRestarts(h) \/ AlertsRestartFails(h)
    \/ Truncate(h) \/ WriteBody(h) \/ WriteFails(h)

HandlerStep(h) == Locks(h) \/ Proceeds(h)

Next ==
    \/ \E h \in Handlers : Arrive(h) \/ AlertsRead(h) \/ HandlerStep(h) \/ Disconnect(h)
    \/ \E d \in Daemons, p \in Pollers : Tick(d, p) \/ PollDone(d, p) \/ PollerExit(d, p)
    \/ Crash \/ BootResumes \/ BootIdle

Spec == Init /\ [][Next]_vars

\* tokio's mutex is first come first served, so a handler that keeps asking is
\* served (strong fairness); a task that can run is run (weak fairness); select!
\* picks its branch at random, so a cancelled poller does leave its loop (strong
\* fairness); and every poll is assumed to return, which the code ensures for
\* the TCP connect only.
Fairness ==
    /\ \A h \in Handlers : SF_vars(Locks(h)) /\ WF_vars(Proceeds(h))
    /\ \A d \in Daemons, p \in Pollers :
         WF_vars(PollDone(d, p)) /\ SF_vars(PollerExit(d, p))
    /\ WF_vars(BootIdle)

FairSpec == Spec /\ Fairness

-----------------------------------------------------------------------------
(* Properties.                                                             *)

TypeOK ==
    /\ up \in BOOLEAN
    /\ lock \in Handlers \cup {None}
    /\ slot \in Daemons \cup {None}
    /\ cancelled \in [Daemons -> BOOLEAN]
    /\ poller \in [Daemons -> [Pollers -> {"idle", "polling", "exited"}]]
    /\ runs \in [Daemons -> Config]
    /\ file \in FileState
    /\ pc \in [Handlers -> {"idle", "lock", "drain", "truncate", "write"}]
    /\ op \in [Handlers -> {"start", "stop", "alerts", "status"}]
    /\ victim \in [Handlers -> Daemons \cup {None}]
    /\ todo \in [Handlers -> Config]
    /\ acked \in {"pending", "on", "off"}
    /\ edit \in Alerts
    /\ file.st # "ok" => file.cfg = Blank

Quiet == up /\ \A h \in Handlers : pc[h] = "idle"

\* No daemon keeps polling without anyone able to stop it: one whose token is
\* not cancelled is the one in the slot, whichever handler was dropped halfway.
NoOrphanDaemon == \A d \in Daemons : Alive(d) /\ ~cancelled[d] => d = slot

\* "At most one daemon per backend process" (sentinel_api.rs:5), counting a
\* stopped one until its last task has left.
AtMostOneDaemon == \A d, e \in Daemons : Alive(d) /\ Alive(e) => d = e

\* Whoever holds a daemon taken from the slot also holds the mutex, so no other
\* handler can fill the slot or take a daemon before that one has drained.
DrainUnderLock ==
    \A h \in Handlers : pc[h] = "drain" => lock = h /\ slot = None

\* With nothing in flight, the running daemon is the one the file describes: a
\* reboot would resume the same instances with the same alert rules.
RunsWhatFileSays ==
    Quiet /\ slot # None /\ file.st = "ok" => file.cfg = runs[slot]

\* What the user was last told about start or stop is what the next boot does.
AckedIsPersisted ==
    Quiet /\ file.st = "ok" =>
        /\ acked = "on" => file.cfg.autostart
        /\ acked = "off" => ~file.cfg.autostart

\* "The user's edits are persisted here and survive a restart"
\* (sentinel_api.rs:59): with nothing in flight the file holds the alert config
\* that was saved last, whatever starts and stops came after.
EditsSurvive == Quiet => ReadPersisted.alerting = edit

\* A reload for new alert rules resumes the instances the daemon was polling.
ReloadKeepsInstances ==
    [][\A h \in Handlers :
         pc[h] = "drain" /\ op[h] = "alerts" /\ slot' # None
           => runs'[slot'].inst = runs[victim[h]].inst]_vars

\* Without disconnects the handlers, the mutex and the daemons together are the
\* service a user sees: no poll outlives a stop, and no second daemon polls.
Service == INSTANCE MonitorService WITH
    phase <- IF slot # None THEN "on"
             ELSE IF \E h \in Handlers : pc[h] = "drain" THEN "draining"
             ELSE "off",
    busy <- {p \in Pollers : \E d \in Daemons : poller[d][p] = "polling"}

ImplementsService == Service!Spec

\* Disconnected or not, every request is answered if polls return.
HandlersAnswer == \A h \in Handlers : (pc[h] # "idle") ~> (pc[h] = "idle")

\* A cancelled daemon winds down, awaited or not.
CancelledDrains ==
    \A d \in Daemons : (cancelled[d] /\ Alive(d)) ~> ~Alive(d)

=============================================================================
