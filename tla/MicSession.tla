------------------------------ MODULE MicSession ------------------------------
(***************************************************************************)
(* The life of microphone sessions in the node service: /mic/start and     *)
(* /mic/stop (router/mic.ts), the sockets that bring the audio and the     *)
(* grace timers that tear down a session whose socket closed               *)
(* (micWebSocket.ts), the stores both share (sessionRuntimeStore.ts,       *)
(* ports/sessionStore.ts) and the runtime they start and stop              *)
(* (runMicPipeline.ts).                                                    *)
(*                                                                         *)
(* One event loop: an action is the code between two awaits that suspend.  *)
(* Every start makes a session of its own (a uuid), which its client knows *)
(* from the answer.  The network, the pipeline behind a runtime and the    *)
(* python service are external; a request to the latter that fails may or  *)
(* may not have been carried out.                                          *)
(* Definitions introduced as mutants are not part of the specification     *)
(* (README, "Mutants").                                                    *)
(***************************************************************************)
EXTENDS Naturals, FiniteSets

CONSTANTS
    Sessions,  \* bound: the requests to start, each with its session
    Sockets,   \* bound: the sockets open at once
    Calls,     \* bound: the calls of stopMicSession under way at once
    None

ASSUME MicAssumption == None \notin Sessions

VARIABLES
    start,    \* where the start handler of a session is
    prev,     \* the active session it stops first
    stops,    \* the calls of stopMicSession: where each is, and its session
    store,    \* the sessions in runtimeStore.runtimes
    active,   \* runtimeStore.activeSessionId
    current,  \* currentSessionId of sessionStore
    run,      \* what the runtime of a session does
    py,       \* external: the session in the python service
    sock,     \* a socket (half: its client is gone and the server does not
              \* know) and its session
    timer,    \* whether pendingTeardowns has a timer for a session
    seen,     \* whether a client of the session ever connected
    doubled,  \* whether a session ever had two sockets at once
    raced,    \* whether two starts ever overlapped
    failed    \* sessions whose stop raised, or was not answered

vars == <<start, prev, stops, store, active, current, run, py, sock, timer,
          seen, doubled, raced, failed>>
storeVars == <<store, active>>
sockVars == <<sock, timer, seen, doubled>>
startVars == <<start, prev, raced>>

Closed == [at |-> "closed", sess |-> None]
NoStop == [pc |-> "idle", sess |-> None]

TypeOK ==
    /\ start \in [Sessions -> {"new", "stopOld", "pyStopOld", "pyStart", "pipeline",
                               "undo", "done", "failed"}]
    /\ prev \in [Sessions -> Sessions \cup {None}]
    /\ stops \in [Calls -> [pc : {"idle", "runtime", "python"},
                            sess : Sessions \cup {None}]]
    /\ \A c \in Calls : stops[c].sess = None <=> stops[c].pc = "idle"
    /\ store \subseteq Sessions /\ active \in store \cup {None}
    /\ current \in Sessions \cup {None}
    /\ run \in [Sessions -> {"none", "running", "stopping", "stopped"}]
    /\ py \in [Sessions -> {"none", "open", "ended"}]
    /\ sock \in [Sockets -> [at : {"open", "half", "closed"},
                             sess : Sessions \cup {None}]]
    /\ \A w \in Sockets : sock[w].sess = None <=> sock[w].at = "closed"
    /\ timer \in [Sessions -> BOOLEAN] /\ seen \in [Sessions -> BOOLEAN]
    /\ doubled \in [Sessions -> BOOLEAN] /\ raced \in BOOLEAN
    /\ failed \subseteq Sessions

Init ==
    /\ start = [s \in Sessions |-> "new"] /\ prev = [s \in Sessions |-> None]
    /\ stops = [c \in Calls |-> NoStop]
    /\ store = {} /\ active = None /\ current = None
    /\ run = [s \in Sessions |-> "none"] /\ py = [s \in Sessions |-> "none"]
    /\ sock = [w \in Sockets |-> Closed]
    /\ timer = [s \in Sessions |-> FALSE] /\ seen = [s \in Sessions |-> FALSE]
    /\ doubled = [s \in Sessions |-> FALSE] /\ raced = FALSE /\ failed = {}

-----------------------------------------------------------------------------
(* runtimeStore.delete.                                                     *)
ActiveWithout(s) == IF active = s THEN None ELSE active
Deleted(s) == store' = store \ {s} /\ active' = ActiveWithout(s)

(* runtime.stop(): the first call stops the pipeline, which takes a while   *)
(* (and may raise at its end); every other returns at once.                 *)
StopsRuntime(s) == s \in store /\ run[s] = "running"
RunAs(s, state) == run' = [run EXCEPT ![s] = state]

(* A request to python for session s fails, or is answered.                 *)
PyAnswers(s, state) == py' = [py EXCEPT ![s] = state] /\ UNCHANGED failed
PyFails(s, state) ==
    /\ py' = [py EXCEPT ![s] = state] \/ UNCHANGED py
    /\ failed' = failed \cup {s}

-----------------------------------------------------------------------------
(* /mic/start: stopExistingMicSession stops the active runtime, forgets it  *)
(* and tells python ...                                                     *)
InProgress(s) == start[s] \notin {"new", "done", "failed"}
StartGoesTo(s, pc) == start' = [start EXCEPT ![s] = pc]

StartRequest(s) ==
    /\ start[s] = "new"
    /\ raced' = (raced \/ \E r \in Sessions : InProgress(r))
    /\ prev' = [prev EXCEPT ![s] = active]
    /\ \/ /\ active = None
          /\ StartGoesTo(s, "pyStart")
          /\ UNCHANGED <<storeVars, current, run>>
       \/ /\ active # None /\ StopsRuntime(active)
          /\ current' = None
          /\ RunAs(active, "stopping") /\ StartGoesTo(s, "stopOld")
          /\ UNCHANGED storeVars
       \/ /\ active # None /\ ~StopsRuntime(active)
          /\ current' = None
          /\ Deleted(active) /\ StartGoesTo(s, "pyStopOld")
          /\ UNCHANGED run
    /\ UNCHANGED <<stops, py, sockVars, failed>>

StopOldReturns(s) ==
    /\ start[s] = "stopOld"
    /\ RunAs(prev[s], "stopped") /\ Deleted(prev[s])
    /\ StartGoesTo(s, "pyStopOld")
    /\ UNCHANGED <<prev, raced, stops, current, py, sockVars, failed>>

(* ... but goes on with the start when that raises.                         *)
StopOldRaises(s) ==
    /\ start[s] = "stopOld"
    /\ RunAs(prev[s], "stopped") /\ failed' = failed \cup {prev[s]}
    /\ StartGoesTo(s, "pyStart")
    /\ UNCHANGED <<prev, raced, stops, storeVars, current, py, sockVars>>

PyStopOldReturns(s) ==
    /\ start[s] = "pyStopOld"
    /\ PyAnswers(prev[s], "ended") \/ PyFails(prev[s], "ended")
    /\ StartGoesTo(s, "pyStart")
    /\ UNCHANGED <<prev, raced, stops, storeVars, current, run, sockVars>>

(* Python answers the start, or fails it: then the handler answers 500.     *)
PyStarts(s) ==
    /\ start[s] = "pyStart"
    /\ PyAnswers(s, "open")
    /\ current' = s /\ StartGoesTo(s, "pipeline")
    /\ UNCHANGED <<prev, raced, stops, storeVars, run, sockVars>>

PyStartFails(s) ==
    /\ start[s] = "pyStart"
    /\ PyFails(s, "open")
    /\ Deleted(s) /\ StartGoesTo(s, "failed")
    /\ UNCHANGED <<prev, raced, stops, current, run, sockVars>>

(* Mutant: the active session is not set.                                   *)
StaysActive(s) == active
MadeActive(s) == s

(* The pipeline is up: the runtime is registered and made the active one.   *)
PipelineStarts(s) ==
    /\ start[s] = "pipeline"
    /\ RunAs(s, "running")
    /\ store' = store \cup {s} /\ active' = MadeActive(s)
    /\ StartGoesTo(s, "done")
    /\ UNCHANGED <<prev, raced, stops, current, py, sockVars, failed>>

(* It does not come up: undo the start.                                     *)
PipelineFails(s) ==
    /\ start[s] = "pipeline"
    /\ current' = None /\ StartGoesTo(s, "undo")
    /\ UNCHANGED <<prev, raced, stops, storeVars, run, py, sockVars, failed>>

StartUndone(s) ==
    /\ start[s] = "undo"
    /\ PyAnswers(s, "ended") \/ PyFails(s, "ended")
    /\ Deleted(s) /\ StartGoesTo(s, "failed")
    /\ UNCHANGED <<prev, raced, stops, current, run, sockVars>>

-----------------------------------------------------------------------------
(* stopMicSession(s) as far as its first await.                             *)
StopBegins(c, s) ==
    /\ stops[c].pc = "idle"
    /\ \/ /\ StopsRuntime(s)
          /\ RunAs(s, "stopping")
          /\ stops' = [stops EXCEPT ![c] = [pc |-> "runtime", sess |-> s]]
          /\ UNCHANGED <<storeVars, current>>
       \/ /\ ~StopsRuntime(s)
          /\ IF s \in store THEN Deleted(s) ELSE UNCHANGED storeVars
          /\ current' = None
          /\ stops' = [stops EXCEPT ![c] = [pc |-> "python", sess |-> s]]
          /\ UNCHANGED run

(* /mic/stop, from a client that was told its session.                      *)
StopRequest(c, s) ==
    /\ start[s] = "done" /\ StopBegins(c, s)
    /\ UNCHANGED <<startVars, py, sockVars, failed>>

(* Mutant: python is not told.                                              *)
NothingElse(s) == NoStop
PythonIsTold(s) == [pc |-> "python", sess |-> s]

StopRuntimeReturns(c) ==
    /\ stops[c].pc = "runtime"
    /\ LET s == stops[c].sess IN
         /\ RunAs(s, "stopped") /\ Deleted(s)
         /\ stops' = [stops EXCEPT ![c] = PythonIsTold(s)]
    /\ current' = None
    /\ UNCHANGED <<startVars, py, sockVars, failed>>

StopRuntimeRaises(c) ==
    /\ stops[c].pc = "runtime"
    /\ RunAs(stops[c].sess, "stopped") /\ failed' = failed \cup {stops[c].sess}
    /\ stops' = [stops EXCEPT ![c] = NoStop]
    /\ UNCHANGED <<startVars, storeVars, current, py, sockVars>>

StopReturns(c) ==
    /\ stops[c].pc = "python"
    /\ PyAnswers(stops[c].sess, "ended") \/ PyFails(stops[c].sess, "ended")
    /\ stops' = [stops EXCEPT ![c] = NoStop]
    /\ UNCHANGED <<startVars, storeVars, current, run, sockVars>>

-----------------------------------------------------------------------------
Of(s) == {w \in Sockets : sock[w].sess = s}
Live(s) == \E w \in Of(s) : sock[w].at = "open"

(* A client connects: a teardown pending for its session is cancelled.      *)
(* Mutant: it is not.                                                       *)
TimerKept(s) == timer
TimerCancelled(s) == [timer EXCEPT ![s] = FALSE]

SocketOpens(w, s) ==
    /\ sock[w].at = "closed" /\ start[s] = "done"
    /\ sock' = [sock EXCEPT ![w] = [at |-> "open", sess |-> s]]
    /\ timer' = TimerCancelled(s)
    /\ seen' = [seen EXCEPT ![s] = TRUE]
    /\ doubled' = [doubled EXCEPT ![s] = @ \/ Of(s) # {}]
    /\ UNCHANGED <<startVars, stops, storeVars, current, run, py, failed>>

(* The client is gone and the server has no notice of it.                   *)
ClientVanishes(w) ==
    /\ sock[w].at = "open"
    /\ sock' = [sock EXCEPT ![w].at = "half"]
    /\ UNCHANGED <<startVars, stops, storeVars, current, run, py, timer, seen, doubled,
                   failed>>

(* Whether a timer runs for s after a socket of it closed.  Mutant: only    *)
(* the active session gets one.                                             *)
ArmedIfActive(s) == timer[s] \/ s = active
Armed(s) == timer[s] \/ s \in store

(* The socket closes: by its client, by the heartbeat once pongs are        *)
(* missing, or because audio came for a session without a runtime.          *)
Closes(w) ==
    LET s == sock[w].sess IN
      /\ sock' = [sock EXCEPT ![w] = Closed]
      /\ timer' = [timer EXCEPT ![s] = Armed(s)]
      /\ UNCHANGED <<startVars, stops, storeVars, current, run, py, seen, doubled,
                     failed>>

ClientCloses(w) == sock[w].at = "open" /\ Closes(w)
HeartbeatTerminates(w) == sock[w].at = "half" /\ Closes(w)
AudioRefused(w) == sock[w].at = "open" /\ sock[w].sess \notin store /\ Closes(w)

(* The grace window is over: a session that still has a runtime is stopped. *)
TeardownIgnored(s) ==
    /\ timer[s] /\ s \notin store
    /\ timer' = [timer EXCEPT ![s] = FALSE]
    /\ UNCHANGED <<startVars, stops, storeVars, current, run, py, sock, seen, doubled,
                   failed>>

TeardownBegins(c, s) ==
    /\ timer[s] /\ s \in store
    /\ timer' = [timer EXCEPT ![s] = FALSE]
    /\ StopBegins(c, s)
    /\ UNCHANGED <<startVars, py, sock, seen, doubled, failed>>

-----------------------------------------------------------------------------
StartSteps(s) == \/ StopOldReturns(s) \/ StopOldRaises(s) \/ PyStopOldReturns(s)
                 \/ PyStarts(s) \/ PyStartFails(s)
                 \/ PipelineStarts(s) \/ PipelineFails(s) \/ StartUndone(s)
StopSteps(c) == StopRuntimeReturns(c) \/ StopRuntimeRaises(c) \/ StopReturns(c)
SocketSteps(w) == ClientVanishes(w) \/ ClientCloses(w) \/ HeartbeatTerminates(w)
                    \/ AudioRefused(w)
Teardown(s) == TeardownIgnored(s) \/ \E c \in Calls : TeardownBegins(c, s)

Next ==
    \/ \E s \in Sessions : StartRequest(s) \/ StartSteps(s) \/ Teardown(s)
    \/ \E c \in Calls : StopSteps(c) \/ \E s \in Sessions : StopRequest(c, s)
    \/ \E w \in Sockets : SocketSteps(w) \/ \E s \in Sessions : SocketOpens(w, s)

Spec == Init /\ [][Next]_vars

(* Timers fire, the heartbeat finds dead sockets, and what is awaited       *)
(* returns or raises.                                                       *)
Fairness ==
    /\ \A s \in Sessions : WF_vars(StartSteps(s)) /\ SF_vars(Teardown(s))
    /\ \A c \in Calls : WF_vars(StopSteps(c))
    /\ \A w \in Sockets : WF_vars(HeartbeatTerminates(w))

FairSpec == Spec /\ Fairness

-----------------------------------------------------------------------------
(* A runtime that runs is registered, so that a stop, a takeover or a grace *)
(* timer can still reach it, and python has not been told that its session  *)
(* is over (mic.ts 190-209 and 347-366).                                    *)
RunningIsKnown ==
    \A s \in Sessions : run[s] = "running" => s \in store /\ py[s] # "ended"

(* A start stops the session before it, which it can always reach: unless   *)
(* two starts overlap, a single runtime runs, whatever was stopped, torn    *)
(* down or failed in between (mic.ts 190-209).                              *)
OneRuntime ==
    RunningIsKnown /\
    (~raced => Cardinality({s \in Sessions : run[s] = "running"}) <= 1)

(* The grace timer of s tears it down.                                      *)
TornDown(s) == run[s] = "running" /\ run'[s] = "stopping" /\ timer[s] /\ ~timer'[s]

(* Only a session without a client is torn down (the ghost session of       *)
(* micWebSocket.ts 9-11 and 104-108), unless its client reconnected before  *)
(* the server noticed that the old connection is dead.                      *)
TeardownOnlyAlone ==
    [][ \A s \in Sessions : TornDown(s) => ~Live(s) \/ doubled[s] ]_vars

(* A session whose clients are all gone stops, or one of them returns: its  *)
(* recognition stream does not run, and cost, for ever (micWebSocket.ts     *)
(* 9-15).                                                                   *)
GhostStops ==
    \A s \in Sessions :
      run[s] = "running" /\ seen[s] ~> run[s] # "running" \/ Live(s)

(* Python is told of every runtime that stopped, unless a step of the stop  *)
(* failed.                                                                  *)
PythonIsToldOfEnd ==
    \A s \in Sessions : run[s] = "stopped" ~> py[s] = "ended" \/ s \in failed
=============================================================================
