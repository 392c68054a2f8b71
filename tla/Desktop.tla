------------------------------- MODULE Desktop -------------------------------
(***************************************************************************)
(* The desktop application: desktop/electron/main.ts over                  *)
(* process-supervisor.ts, model-runtime.ts, loopback.ts and lifecycle.ts.  *)
(*                                                                         *)
(* A launch that holds the single-instance lock starts a model runtime,    *)
(* takes the runtime lease, forks the server, waits for its readiness      *)
(* proof, opens a window on it, and on quitting stops what it started.     *)
(* The startup, the shutdown and the stop of the server are asynchronous   *)
(* functions that interleave; the server, its workers, the model runtime   *)
(* and the user act at any time, and outlive a main process that dies.     *)
(* The lease is one cell here: RuntimeLease models its files.              *)
(***************************************************************************)
EXTENDS Naturals, FiniteSets

CONSTANTS MaxLaunches,  \* how often the application is started
          MaxMishaps    \* how much goes wrong in a behaviour

ASSUME DesktopAssumption == {MaxLaunches, MaxMishaps} \subseteq Nat

Launches == 1..MaxLaunches      \* in the order they are started
Nobody == 0

VARIABLES
    host,     \* [system, kind]: the platform, and the sealed launch profile
    data,     \* the private data root: owner-only, a link, or neither (or not there)
    app,      \* what each launch has of processes and of progress
    lease,    \* the runtime lease: [owner, registered]
    mishaps   \* how many things went wrong

vars == <<host, data, app, lease, mishaps>>

(* main: the main process.  pc: startDesktopRuntime.  quit: shutDown.       *)
(* stop: the supervisor's stop.  close: stopRuntime.  listed: the worker is *)
(* among the descendants the stop found.  asked: a second launch waits to   *)
(* see the window.  excused (history): why the launch may leave something.  *)
App == [main : {"off", "up", "exited", "killed"},
        pc : {"idle", "model", "fork", "probe", "load", "running", "unwind", "undo", "failed"},
        quit : {"no", "asked", "stopping"},
        server : {"none", "forked", "up", "ready", "dead"},
        worker : {"none", "alive", "dead"},
        model : {"none", "starting", "ready", "dead"},
        registered : BOOLEAN, listed : BOOLEAN,
        stop : {"idle", "bare", "graceful", "drain", "stuck", "forced", "stopped", "failed"},
        close : {"idle", "server", "model", "done"},
        window : {"none", "open", "closed"},
        pending : BOOLEAN, asked : BOOLEAN,
        excused : SUBSET {"composing", "unkillable", "outlived", "again"}]

Off == [main |-> "off", pc |-> "idle", quit |-> "no", server |-> "none", worker |-> "none",
        model |-> "none", registered |-> FALSE, listed |-> FALSE, stop |-> "idle",
        close |-> "idle", window |-> "none", pending |-> FALSE, asked |-> FALSE,
        excused |-> {}]

(* The main process ends: its memory is gone, its processes are not.       *)
Gone(a, how) ==
    [Off EXCEPT !.main = how, !.server = a.server, !.worker = a.worker, !.model = a.model,
                !.registered = a.registered, !.listed = a.listed, !.excused = a.excused]

Free == [owner |-> Nobody, registered |-> FALSE]

Init ==
    /\ host \in [system : {"mac", "win"}, kind : {"normal", "verification"}]
    /\ data \in {"open", "private", "linked"}
    /\ app = [l \in Launches |-> Off]
    /\ lease = Free /\ mishaps = 0

Up(l) == app[l].main = "up"
Serving(l) == app[l].server \in {"up", "ready"}      \* a process with a pid
Alive(l) == app[l].server \in {"forked", "up", "ready"}

Keep == UNCHANGED <<host, data, lease, mishaps>>
Set(l, a) == app' = [app EXCEPT ![l] = a]

(* Something goes wrong, which the configuration bounds.                   *)
Mishap == mishaps < MaxMishaps /\ mishaps' = mishaps + 1

-----------------------------------------------------------------------------
(* Before the lock.                                                        *)

NextLaunch(l) == app[l].main = "off" /\ \A k \in 1..(l - 1) : app[k].main # "off"

(* A launch whose artifact does not verify leaves at once, and touches     *)
(* nothing.                                                                *)
Untrusted(l) ==
    /\ NextLaunch(l) /\ Mishap
    /\ Set(l, Gone(app[l], "exited"))
    /\ UNCHANGED <<host, data, lease>>

(* So does a sealed verification build that does not find its private      *)
(* paths in place: it makes none itself.                                   *)
PathsBound == host.kind = "verification" => data = "private"

Unbound(l) ==
    /\ NextLaunch(l) /\ ~PathsBound /\ Keep
    /\ Set(l, Gone(app[l], "exited"))

(* Variant: a window that is not there yet is not remembered.              *)
AskedOnce(a) == IF a.pc = "running" /\ a.window = "open" THEN a ELSE [a EXCEPT !.asked = TRUE]

(* The second-instance event: focus the window, or remember to.            *)
Asked(a) == IF a.pc = "running" /\ a.window = "open" THEN a
            ELSE [a EXCEPT !.pending = TRUE, !.asked = TRUE]

Launch(l) ==
    /\ NextLaunch(l) /\ PathsBound /\ Keep
    /\ IF \E p \in Launches : Up(p)
       THEN LET p == CHOOSE p \in Launches : Up(p)
            IN  app' = [app EXCEPT ![l] = Gone(app[l], "exited"), ![p] = Asked(app[p])]
       ELSE Set(l, [app[l] EXCEPT !.main = "up"])

-----------------------------------------------------------------------------
(* stop() of the supervisor: the workers it finds, if ps answers, and the  *)
(* waits that follow.                                                      *)

StopBegins(a, found) ==
    IF a.server \in {"up", "ready"}
    THEN [a EXCEPT !.stop = "graceful",
                   !.listed = found /\ a.worker = "alive" /\ host.system = "mac"]
    ELSE [a EXCEPT !.stop = "bare"]

ListedDead(a) == a.listed => a.worker # "alive"

(* One wait of the stop ends: by the exit it waits for, or by its timeout. *)
StopWaits(l) ==
    LET a == app[l]
        To(s) == Set(l, [a EXCEPT !.stop = s])
    IN
    /\ Up(l) /\ Keep
    /\ \/ a.stop = "bare" /\ To(IF a.server = "dead" THEN "stopped" ELSE "forced")
       \/ a.stop = "graceful" /\ host.system = "win"
            /\ To(IF a.server = "dead" THEN "stopped" ELSE "forced")
       \/ a.stop = "graceful" /\ host.system = "mac"
            /\ To(IF a.server = "dead" THEN "drain" ELSE "stuck")
       \/ a.stop = "drain" /\ To(IF ListedDead(a) THEN "stopped" ELSE "forced")
       \/ /\ a.stop = "stuck"                    \* the root outlived its wait: list again
          /\ Set(l, [a EXCEPT !.stop = "forced",
                              !.listed = a.listed \/ (a.worker = "alive" /\ Serving(l))])
       \/ a.stop = "forced" /\ a.server = "dead" /\ ListedDead(a) /\ To("stopped")

(* The force timeout passes with a process that does not die.              *)
StopFails(l) ==
    /\ Up(l) /\ app[l].stop = "forced" /\ ~(app[l].server = "dead" /\ ListedDead(app[l]))
    /\ Mishap
    /\ Set(l, [app[l] EXCEPT !.stop = "failed", !.excused = @ \cup {"unkillable"}])
    /\ UNCHANGED <<host, data, lease>>

Released(l) == IF lease.owner = l THEN Free ELSE lease

-----------------------------------------------------------------------------
(* startDesktopRuntime.                                                    *)

(* The private data root is made, or made owner-only; a link is refused.   *)
EnsureData == IF data = "linked" THEN FALSE ELSE data' = "private"

(* Ports, data root, and the model runtime, which a verification build has *)
(* not; nothing here looks at the abort signal after its first lines.      *)
StartRuntime(l) ==
    LET Next(pc, model) == Set(l, [app[l] EXCEPT !.pc = pc, !.model = model])
    IN
    /\ Up(l) /\ app[l].pc = "idle" /\ app[l].quit = "no"
    /\ UNCHANGED <<host, lease>>
    /\ \/ EnsureData /\ UNCHANGED mishaps
          /\ IF host.kind = "normal" THEN Next("model", "starting") ELSE Next("fork", "none")
       \/ EnsureData /\ Mishap /\ Next("failed", "none")
       \/ data = "linked" /\ UNCHANGED <<data, mishaps>> /\ Next("failed", "none")

(* The model runtime answers; or it does not in time and is stopped, which *)
(* on Windows it may outlive. Then the launch is composed, whose failure   *)
(* nobody cleans up after.                                                 *)
ModelSettles(l) ==
    LET Next(pc, model, why) ==
            Set(l, [app[l] EXCEPT !.pc = pc, !.model = model, !.excused = @ \cup why])
    IN
    /\ Up(l) /\ app[l].pc = "model"
    /\ UNCHANGED <<host, data, lease>>
    /\ \/ Next("fork", "ready", {}) /\ UNCHANGED mishaps
       \/ Next("failed", "dead", {}) /\ Mishap
       \/ host.system = "win" /\ Next("failed", "starting", {"outlived"}) /\ Mishap
       \/ Next("failed", "ready", {"composing"}) /\ Mishap

(* Variant: a lease is stale as soon as the process that took it is gone.  *)
ClaimableFromGone == lease.owner # Nobody => ~Up(lease.owner)

Claimable ==
    lease.owner # Nobody =>
        ~Up(lease.owner) /\ (lease.registered => app[lease.owner].server = "dead")

(* The lease is taken before the server is forked.                         *)
Fork(l) ==
    /\ Up(l) /\ app[l].pc = "fork" /\ app[l].server = "none"
    /\ UNCHANGED <<host, data>>
    /\ \/ /\ Claimable
          /\ lease' = [owner |-> l, registered |-> FALSE]
          /\ Set(l, [app[l] EXCEPT !.server = "forked"])
          /\ UNCHANGED mishaps
       \/ /\ Claimable /\ Mishap         \* taken, and released again
          /\ lease' = Free
          /\ Set(l, [app[l] EXCEPT !.pc = "undo"])
       \/ /\ ~Claimable
          /\ Set(l, [app[l] EXCEPT !.pc = "undo"])
          /\ UNCHANGED <<lease, mishaps>>

(* The fork ends: the server has a pid and is registered, or is stopped.   *)
Forked(l) ==
    /\ Up(l) /\ app[l].pc = "fork" /\ app[l].server # "none"
    /\ UNCHANGED <<host, data>>
    /\ \/ /\ Serving(l) /\ lease.owner = l
          /\ lease' = [lease EXCEPT !.registered = TRUE]
          /\ Set(l, [app[l] EXCEPT !.pc = "probe", !.registered = TRUE])
          /\ UNCHANGED mishaps
       \/ /\ \/ app[l].server = "dead" /\ UNCHANGED mishaps
             \/ Serving(l) /\ Mishap
             \/ app[l].server = "forked" /\ Mishap
          /\ \E found \in BOOLEAN : Set(l, [StopBegins(app[l], found) EXCEPT !.pc = "unwind"])
          /\ UNCHANGED lease

(* Variant: the lease is released whether or not the server was stopped.   *)
UnwindAnyway(l) ==
    /\ Up(l) /\ app[l].pc = "unwind"
    /\ app[l].stop \in {"stopped", "failed"}
    /\ lease' = Released(l)
    /\ Set(l, [app[l] EXCEPT !.pc = "undo"])
    /\ UNCHANGED <<host, data, mishaps>>

(* A server that was not registered is stopped; if that fails its lease is *)
(* retained, and nobody holds a handle to stop the server again.           *)
Unwind(l) ==
    /\ Up(l) /\ app[l].pc = "unwind"
    /\ app[l].stop \in {"stopped", "failed"}
    /\ lease' = IF app[l].stop = "stopped" THEN Released(l) ELSE lease
    /\ Set(l, [app[l] EXCEPT !.pc = "undo"])
    /\ UNCHANGED <<host, data, mishaps>>

(* waitForDesktopServer: the proof arrives and the window is made; or the  *)
(* server stopped, the startup was aborted, or the time is up.             *)
Probe(l) ==
    /\ Up(l) /\ app[l].pc = "probe" /\ Keep
    /\ \/ /\ app[l].server = "ready" /\ app[l].quit = "no"
          /\ Set(l, [app[l] EXCEPT !.pc = "load", !.window = "open"])
       \/ /\ app[l].server # "ready" \/ app[l].quit # "no"
          /\ Set(l, [app[l] EXCEPT !.pc = "undo"])

(* loadURL resolves, and the runtime is known to the lock's owner, which   *)
(* shows the window to a second launch that asked; or loadURL rejects.     *)
Load(l) ==
    /\ Up(l) /\ app[l].pc = "load"
    /\ UNCHANGED <<host, data, lease>>
    /\ \/ /\ app[l].window = "open" /\ app[l].server = "ready" /\ UNCHANGED mishaps
          /\ Set(l, [app[l] EXCEPT !.pc = "running", !.pending = FALSE,
                                   !.asked = app[l].asked /\ ~app[l].pending])
       \/ /\ IF app[l].window = "open" /\ app[l].server = "ready" THEN Mishap
                                                               ELSE UNCHANGED mishaps
          /\ Set(l, [app[l] EXCEPT !.pc = "undo"])

-----------------------------------------------------------------------------
(* The stop of the model runtime ends stopRuntime. On a Mac it waits for   *)
(* the exit after SIGKILL however long it takes; on Windows it throws when *)
(* the process tree outlives the forced taskkill.                          *)
StopModel(l, a) ==
    \/ /\ Set(l, [a EXCEPT !.close = "done", !.model = IF @ = "none" THEN "none" ELSE "dead"])
       /\ UNCHANGED mishaps
    \/ /\ host.system = "win" /\ a.model = "ready" /\ Mishap
       /\ Set(l, [a EXCEPT !.close = "done", !.excused = @ \cup {"outlived"}])

(* Variant: a server that cannot be stopped ends stopRuntime.              *)
CloseInOrder(l) ==
    LET a == app[l]
    IN
    /\ Up(l)
    /\ \/ /\ a.close = "idle" /\ (a.pc = "undo" \/ a.quit = "stopping")
          /\ IF a.registered
             THEN \E found \in BOOLEAN :
                     Set(l, [StopBegins(a, found) EXCEPT !.close = "server"])
             ELSE Set(l, [a EXCEPT !.close = "model"])
          /\ UNCHANGED <<lease, mishaps>>
       \/ /\ a.close = "server" /\ a.stop \in {"stopped", "failed"}
          /\ lease' = IF a.stop = "stopped" THEN Released(l) ELSE lease
          /\ Set(l, [a EXCEPT !.close = IF a.stop = "stopped" THEN "model" ELSE "done"])
          /\ UNCHANGED mishaps
       \/ a.close = "model" /\ StopModel(l, a) /\ UNCHANGED lease
    /\ UNCHANGED <<host, data>>

(* stopRuntime, once, whoever calls it first.                              *)
Close(l) ==
    LET a == app[l]
    IN
    /\ Up(l)
    /\ \/ /\ a.close = "idle" /\ (a.pc = "undo" \/ a.quit = "stopping")
          /\ IF a.registered
             THEN \E found \in BOOLEAN :
                     Set(l, [StopBegins(a, found) EXCEPT !.close = "server"])
             ELSE Set(l, [a EXCEPT !.close = "model"])
          /\ UNCHANGED <<lease, mishaps>>
       \/ /\ a.close = "server" /\ a.stop \in {"stopped", "failed"}
          /\ lease' = IF a.stop = "stopped" THEN Released(l) ELSE lease
          /\ Set(l, [a EXCEPT !.close = "model"])
          /\ UNCHANGED mishaps
       \/ a.close = "model" /\ StopModel(l, a) /\ UNCHANGED lease
    /\ UNCHANGED <<host, data>>

(* The catch of the startup is done with stopRuntime: the startup failed.  *)
Fail(l) ==
    /\ Up(l) /\ app[l].pc = "undo" /\ app[l].close = "done"
    /\ Set(l, [app[l] EXCEPT !.pc = "failed"])
    /\ Keep

-----------------------------------------------------------------------------
(* Quitting.                                                               *)

(* shutDown begins: by the user, by a failed startup, or because the       *)
(* server of a running window stopped.                                     *)
Quit(l) ==
    /\ Up(l) /\ app[l].quit = "no" /\ Keep
    /\ Set(l, [app[l] EXCEPT !.quit = "asked"])

MustQuit(l) ==
    \/ app[l].pc = "failed"
    \/ app[l].pc = "running" /\ app[l].server = "dead" /\ app[l].close = "idle"

(* Variant: only a runtime that came to be lets shutDown go on.            *)
ShutDownStarted(l) ==
    /\ Up(l) /\ app[l].quit # "no" /\ Keep
    /\ \/ /\ app[l].quit = "asked" /\ app[l].pc = "running"
          /\ Set(l, [app[l] EXCEPT !.quit = "stopping"])
       \/ /\ app[l].quit = "stopping" /\ app[l].close = "done"
          /\ Set(l, Gone(app[l], "exited"))

(* shutDown has awaited the startup: it stops a runtime that came to be,   *)
(* and exits when there is none, or when it is stopped.                    *)
ShutDown(l) ==
    /\ Up(l) /\ app[l].quit # "no" /\ Keep
    /\ \/ /\ app[l].quit = "asked" /\ app[l].pc = "running"
          /\ Set(l, [app[l] EXCEPT !.quit = "stopping"])
       \/ /\ \/ app[l].quit = "asked" /\ app[l].pc \in {"idle", "failed"}
             \/ app[l].quit = "stopping" /\ app[l].close = "done"
          /\ Set(l, Gone(app[l], "exited"))

(* A second request to quit, or the last window closing meanwhile, is not  *)
(* held back: the main process leaves what it was stopping.                *)
QuitAgain(l) ==
    /\ Up(l) /\ app[l].quit # "no" /\ Mishap
    /\ Set(l, Gone([app[l] EXCEPT !.excused = @ \cup {"again"}], "exited"))
    /\ UNCHANGED <<host, data, lease>>

CloseWindow(l) ==
    /\ Up(l) /\ app[l].window = "open" /\ app[l].quit = "no"
    /\ Set(l, [app[l] EXCEPT !.window = "closed", !.quit = "asked"])
    /\ Keep

Killed(l) ==
    /\ Up(l) /\ Mishap
    /\ Set(l, Gone(app[l], "killed"))
    /\ UNCHANGED <<host, data, lease>>

-----------------------------------------------------------------------------
(* The processes.                                                          *)

Spawned(l) == app[l].server = "forked" /\ Set(l, [app[l] EXCEPT !.server = "up"]) /\ Keep

Binds(l) == app[l].server = "up" /\ Set(l, [app[l] EXCEPT !.server = "ready"]) /\ Keep

WorkerStarts(l) ==
    /\ Serving(l) /\ app[l].worker = "none"
    /\ Set(l, [app[l] EXCEPT !.worker = "alive"]) /\ Keep

WorkerEnds(l) ==
    /\ app[l].worker = "alive"
    /\ Set(l, [app[l] EXCEPT !.worker = "dead"]) /\ Keep

Signalled(l) == app[l].stop \in {"bare", "graceful", "stuck", "forced"}

(* The server exits because it is told to, or its main process is gone.    *)
ServerEnds(l) ==
    /\ Alive(l) /\ (Signalled(l) \/ ~Up(l))
    /\ Set(l, [app[l] EXCEPT !.server = "dead"]) /\ Keep

ServerCrashes(l) ==
    /\ Alive(l) /\ Up(l) /\ Mishap
    /\ Set(l, [app[l] EXCEPT !.server = "dead"])
    /\ UNCHANGED <<host, data, lease>>

-----------------------------------------------------------------------------
Startup(l) == StartRuntime(l) \/ ModelSettles(l) \/ Fork(l) \/ Forked(l)
                \/ Unwind(l) \/ Probe(l) \/ Load(l) \/ Fail(l)
Shutdown(l) == ShutDown(l) \/ Close(l) \/ StopWaits(l)
Processes(l) == Spawned(l) \/ Binds(l) \/ WorkerStarts(l) \/ WorkerEnds(l)
                \/ ServerEnds(l) \/ ServerCrashes(l)

Next == \E l \in Launches :
    \/ Untrusted(l) \/ Unbound(l) \/ Launch(l) \/ Startup(l) \/ Shutdown(l) \/ StopFails(l)
    \/ Quit(l) \/ QuitAgain(l) \/ CloseWindow(l) \/ Killed(l) \/ Processes(l)

Spec == Init /\ [][Next]_vars

(* The functions of the main process are carried on, every wait ends, and  *)
(* a process that was sent SIGKILL dies. TERM alone promises nothing.      *)
Fairness == \A l \in Launches :
    /\ WF_vars(Startup(l)) /\ WF_vars(Shutdown(l)) /\ WF_vars(Spawned(l))
    /\ WF_vars(MustQuit(l) /\ Quit(l))
    /\ WF_vars(app[l].stop = "forced" /\ (ServerEnds(l) \/ (app[l].listed /\ WorkerEnds(l))))

FairSpec == Spec /\ Fairness

-----------------------------------------------------------------------------
(* Properties.                                                             *)

TypeOK ==
    /\ host \in [system : {"mac", "win"}, kind : {"normal", "verification"}]
    /\ data \in {"open", "private", "linked"}
    /\ app \in [Launches -> App]
    /\ lease \in [owner : Launches \cup {Nobody}, registered : BOOLEAN]
    /\ mishaps \in 0..MaxMishaps

(* A registered server that may still write is named by the lease, whether *)
(* or not the launch that forked it is still there.                        *)
LeaseNamesServer ==
    \A l \in Launches :
        app[l].registered /\ Alive(l) => lease = [owner |-> l, registered |-> TRUE]

(* Two servers run at once only if the main process of one of them went    *)
(* away before its server was registered.                                  *)
OneWriter ==
    \A k, l \in Launches :
        k # l /\ Alive(k) /\ Alive(l) =>
            \E x \in {k, l} : ~app[x].registered /\ ~Up(x)

(* Nothing is served from a data root that is not the user's alone.        *)
ServesPrivateData == \A l \in Launches : app[l].server # "none" => data = "private"

(* One application at a time; what the lease says of running servers; and  *)
(* the data root they run on (main.ts:315, process-supervisor.ts:283).     *)
DesktopInv ==
    /\ TypeOK
    /\ Cardinality({l \in Launches : Up(l)}) <= 1
    /\ LeaseNamesServer
    /\ OneWriter
    /\ ServesPrivateData

(* The lease leaves a launch only when its server is dead, and, when the   *)
(* launch gives it up itself, every worker the stop found; the lease of a  *)
(* launch that is gone may be taken while its server is not registered     *)
(* (process-supervisor.ts:277, 322).                                       *)
LeaseOutlivesServer ==
    [][\A l \in Launches : lease.owner = l /\ lease'.owner # l =>
           \/ ~Alive(l) /\ (Up(l) => ListedDead(app[l]))
           \/ ~Up(l) /\ ~lease.registered]_vars

(* A main process that exits, unless it was told to twice, leaves neither  *)
(* its lease nor a server, a model runtime or a worker it had found: but   *)
(* for what could not be killed in the time given, a model runtime on      *)
(* Windows among it, and for the model runtime of a launch that failed to  *)
(* be composed (main.ts:113, 268, 330, model-runtime.ts:79).               *)
NothingLeftRunning ==
    \A l \in Launches :
        LET Excused(why) == why \in app[l].excused
        IN  app[l].main = "exited" /\ ~Excused("again") =>
                /\ Excused("composing") \/ Excused("outlived") \/ app[l].model \in {"none", "dead"}
                /\ Excused("unkillable") \/
                     /\ ~Alive(l)
                     /\ app[l].listed => app[l].worker = "dead"
                     /\ lease.owner # l

(* Whatever the startup is doing when the user quits, and whatever fails   *)
(* then, the main process ends (main.ts:330).                              *)
QuitEnds == \A l \in Launches : app[l].quit # "no" ~> ~Up(l)

(* A launch that found the application starting gets to see its window,    *)
(* unless the application is being left (lifecycle.ts:18).                 *)
SecondLaunchSeesWindow ==
    \A l \in Launches : app[l].asked ~> ~app[l].asked \/ app[l].quit # "no" \/ ~Up(l)
=============================================================================
