---------------------------- MODULE SessionRecords ----------------------------
(***************************************************************************)
(* What the python service records of a session and shows to monitors:     *)
(* /internal/sessions/start and stop, /ws/monitor (main.py), the capture   *)
(* tasks of Pusher (pusher.py), MonitorHub (ws/monitor.py) and the writes  *)
(* to app.sessions and app.translations (translation_repository.py).       *)
(*                                                                         *)
(* Handlers and capture tasks run on one event loop; an action is the code *)
(* between two awaits, and every SQL statement commits by itself (asyncpg  *)
(* without a transaction).  The lock of MonitorHub is never held over an   *)
(* await, so what it guards is one step.  A statement that fails raises.   *)
(* The separator and the client's hub, which a stop also calls, have       *)
(* modules of their own: close_session of the separator only enqueues the  *)
(* tail, so what it flushes is a later Pushes.                             *)
(***************************************************************************)
EXTENDS Naturals, FiniteSets

CONSTANTS
    Sessions, NoSession,
    MaxMonitors,  \* bound: connections of dashboards
    MaxStops,     \* bound: requests to stop a session, duplicates included
    MaxPairs,     \* bound: translations pushed
    MaxFaults     \* bound: SQL statements that fail, and restarts

ASSUME RecordsAssumption ==
    /\ NoSession \notin Sessions
    /\ MaxMonitors \in Nat /\ MaxStops \in Nat
    /\ MaxPairs \in Nat /\ MaxFaults \in Nat

VARIABLES
    row,        \* app.sessions: "none", "live" (ended_at NULL) or "ended"
    stored,     \* app.translations: the tasks whose pair is committed
    ensured,    \* Pusher._ensured_sessions
    task,       \* _capture tasks: where each is
    about,      \* the session of each task
    left,       \* subscribers a task has not sent to
    stop,       \* stop handlers: where each is
    stopOf,     \* the session of each handler
    ended,      \* what end_session returned to it
    telling,    \* subscribers it still has to tell and close
    conn,       \* the connection of each monitor
    watches,    \* the session it asked for
    subs,       \* MonitorHub._subscribers
    inbox,      \* how often each monitor received each payload
    faults

tableVars == <<row, stored, ensured>>
taskVars  == <<task, about, left>>
stopVars  == <<stop, stopOf, ended, telling>>
connVars  == <<conn, watches, subs, inbox>>
recordVars == <<tableVars, taskVars, stopVars, connVars, faults>>

Monitors == 1..MaxMonitors        \* each numbered in the order they come
Stops    == 1..MaxStops
Tasks    == 1..MaxPairs
Closed   == 0                     \* the session_closed event
Payloads == Tasks \cup {Closed}

RecordsTypeOK ==
    /\ row \in [Sessions -> {"none", "live", "ended"}]
    /\ stored \subseteq Tasks /\ ensured \subseteq Sessions
    /\ task \in [Tasks -> {"none", "sending", "ensuring", "inserting",
                          "done"}]
    /\ about \in [Tasks -> Sessions \cup {NoSession}]
    /\ left \in [Tasks -> SUBSET Monitors]
    /\ stop \in [Stops -> {"none", "counting", "closing", "telling",
                          "done"}]
    /\ stopOf \in [Stops -> Sessions \cup {NoSession}]
    /\ ended \in [Stops -> BOOLEAN]
    /\ telling \in [Stops -> SUBSET Monitors]
    /\ conn \in [Monitors -> {"new", "open", "told", "left", "gone"}]
    /\ watches \in [Monitors -> Sessions \cup {NoSession}]
    /\ subs \in [Sessions -> SUBSET Monitors]
    /\ inbox \in [Monitors -> [Payloads -> Nat]]
    /\ faults \in 0..MaxFaults

RecordsInit ==
    /\ row = [s \in Sessions |-> "none"] /\ stored = {} /\ ensured = {}
    /\ task = [c \in Tasks |-> "none"] /\ about = [c \in Tasks |-> NoSession]
    /\ left = [c \in Tasks |-> {}]
    /\ stop = [t \in Stops |-> "none"] /\ stopOf = [t \in Stops |-> NoSession]
    /\ ended = [t \in Stops |-> FALSE] /\ telling = [t \in Stops |-> {}]
    /\ conn = [m \in Monitors |-> "new"]
    /\ watches = [m \in Monitors |-> NoSession]
    /\ subs = [s \in Sessions |-> {}]
    /\ inbox = [m \in Monitors |-> [p \in Payloads |-> 0]]
    /\ faults = 0

-----------------------------------------------------------------------------
(* INSERT ... ON CONFLICT DO NOTHING: an ended session stays ended.         *)
EnsureSession(s) ==
    row' = [row EXCEPT ![s] = IF @ = "none" THEN "live" ELSE @]

(* Mutant: WHERE without "AND ended_at IS NULL".                            *)
EndsAny(s) == row[s] # "none"

(* UPDATE ... WHERE session_id = $1 AND ended_at IS NULL finds a row.       *)
EndsRow(s) == row[s] = "live"

Fault == faults < MaxFaults /\ faults' = faults + 1

(* n is the next of the calls whose states pc holds.                        *)
IsNext(n, pc, fresh) == pc[n] = fresh /\ \A k \in 1..n - 1 : pc[k] # fresh

(* Connected as far as either side knows.                                   *)
Open(m) == conn[m] \in {"open", "told"}

-----------------------------------------------------------------------------
(* /internal/sessions/start.  When its statement fails nothing changes.     *)
Start(s) ==
    /\ row[s] = "none" /\ EnsureSession(s)
    /\ UNCHANGED <<stored, ensured, taskVars, stopVars, connVars, faults>>

(* push_to_client: after the client's delivery a capture task is created,   *)
(* which masks the pair and takes the subscribers of the moment.            *)
Pushes(c, s) ==
    /\ IsNext(c, task, "none")
    /\ task' = [task EXCEPT ![c] = "sending"]
    /\ about' = [about EXCEPT ![c] = s]
    /\ left' = [left EXCEPT ![c] = subs[s]]
    /\ UNCHANGED <<tableVars, stopVars, connVars, faults>>

(* MonitorHub.broadcast: one send after the other.                          *)
SendArrives(c, m) ==
    /\ task[c] = "sending" /\ m \in left[c] /\ Open(m)
    /\ inbox' = [inbox EXCEPT ![m][c] = @ + 1]
    /\ left' = [left EXCEPT ![c] = @ \ {m}]
    /\ UNCHANGED <<tableVars, task, about, stopVars, conn, watches, subs,
                   faults>>

(* Mutant: an exception of one send ends the loop.                          *)
LoopAbandoned(rest) == rest = {} \/ \E m \in rest : ~Open(m)

(* A loop over subscribers has only failed sends left.                      *)
LoopOver(rest) == \A m \in rest : ~Open(m)

(* The subscribers that failed are detached (but one whose send was lost    *)
(* without an exception is not), and the write begins: with the upsert the  *)
(* first time this process stores a pair of the session.                    *)
FanOutEnds(c) ==
    /\ task[c] = "sending" /\ LoopOver(left[c])
    /\ \E lost \in SUBSET left[c] :
         subs' = [subs EXCEPT ![about[c]] = @ \ (left[c] \ lost)]
    /\ left' = [left EXCEPT ![c] = {}]
    /\ task' = [task EXCEPT ![c] = IF about[c] \in ensured THEN "inserting"
                                   ELSE "ensuring"]
    /\ UNCHANGED <<tableVars, about, stopVars, conn, watches, inbox, faults>>

(* Mutant: the session counts as ensured although its upsert failed.        *)
EnsuredAnyway(s) == ensured \cup {s}

(* A failed upsert ends the task and leaves the session unmarked.           *)
NotEnsured(s) == ensured

EnsureFirst(c) ==
    /\ task[c] = "ensuring"
    /\ \/ /\ EnsureSession(about[c]) /\ ensured' = ensured \cup {about[c]}
          /\ task' = [task EXCEPT ![c] = "inserting"]
          /\ UNCHANGED faults
       \/ /\ Fault /\ ensured' = NotEnsured(about[c])
          /\ task' = [task EXCEPT ![c] = "done"]
          /\ UNCHANGED row
    /\ UNCHANGED <<stored, about, left, stopVars, connVars>>

InsertPair(c) ==
    /\ task[c] = "inserting"
    /\ task' = [task EXCEPT ![c] = "done"]
    /\ \/ stored' = stored \cup {c} /\ UNCHANGED faults
       \/ Fault /\ UNCHANGED stored
    /\ UNCHANGED <<row, ensured, about, left, stopVars, connVars>>

Capture(c) ==
    \/ FanOutEnds(c) \/ EnsureFirst(c) \/ InsertPair(c)
    \/ \E m \in Monitors : SendArrives(c, m)

-----------------------------------------------------------------------------
(* /internal/sessions/stop.  end_session: the guarded UPDATE, then the count *)
(* of the pairs and its write when this call ended the session.  After any  *)
(* failure the handler goes on as if the session had not ended.  The count  *)
(* itself is left out.                                                      *)
EndSession(t, s) ==
    /\ IsNext(t, stop, "none")
    /\ stopOf' = [stopOf EXCEPT ![t] = s]
    /\ \/ /\ EndsRow(s) /\ row' = [row EXCEPT ![s] = "ended"]
          /\ stop' = [stop EXCEPT ![t] = "counting"] /\ UNCHANGED faults
       \/ /\ ~EndsRow(s)
          /\ stop' = [stop EXCEPT ![t] = "done"] /\ UNCHANGED <<row, faults>>
       \/ /\ Fault
          /\ stop' = [stop EXCEPT ![t] = "done"] /\ UNCHANGED row
    /\ UNCHANGED <<stored, ensured, taskVars, ended, telling, connVars>>

RecordCount(t) ==
    /\ stop[t] = "counting"
    /\ \/ /\ stop' = [stop EXCEPT ![t] = "closing"]
          /\ ended' = [ended EXCEPT ![t] = TRUE] /\ UNCHANGED faults
       \/ /\ stop' = [stop EXCEPT ![t] = "done"]
          /\ Fault /\ UNCHANGED ended
    /\ UNCHANGED <<tableVars, taskVars, stopOf, telling, connVars>>

(* close_session, called by the stop that ended the session, takes its      *)
(* subscribers ...                                                          *)
TakeSubscribers(t) ==
    /\ stop[t] = "closing"
    /\ stop' = [stop EXCEPT ![t] = "telling"]
    /\ telling' = [telling EXCEPT ![t] = subs[stopOf[t]]]
    /\ subs' = [subs EXCEPT ![stopOf[t]] = {}]
    /\ UNCHANGED <<tableVars, taskVars, stopOf, ended, conn, watches, inbox,
                   faults>>

(* ... and, one after the other, tells and closes each that is still open.  *)
TellClosed(t, m) ==
    /\ m \in telling[t] /\ conn[m] = "open"
    /\ \A k \in telling[t] : conn[k] # "told"
    /\ inbox' = [inbox EXCEPT ![m][Closed] = @ + 1]
    /\ conn' = [conn EXCEPT ![m] = "told"]
    /\ UNCHANGED <<tableVars, taskVars, stopVars, watches, subs, faults>>

CloseMonitor(t, m) ==
    /\ m \in telling[t] /\ conn[m] = "told"
    /\ conn' = [conn EXCEPT ![m] = "gone"]
    /\ telling' = [telling EXCEPT ![t] = @ \ {m}]
    /\ UNCHANGED <<tableVars, taskVars, stop, stopOf, ended, watches, subs,
                   inbox, faults>>

StopEnds(t) ==
    /\ stop[t] = "telling" /\ LoopOver(telling[t])
    /\ stop' = [stop EXCEPT ![t] = "done"]
    /\ telling' = [telling EXCEPT ![t] = {}]
    /\ UNCHANGED <<tableVars, taskVars, stopOf, ended, connVars, faults>>

StopHandler(t) ==
    \/ RecordCount(t) \/ TakeSubscribers(t)
    \/ StopEnds(t) \/ \E m \in Monitors : TellClosed(t, m) \/ CloseMonitor(t, m)

-----------------------------------------------------------------------------
(* /ws/monitor: accept() and the subscription.                              *)
Attach(m, s) ==
    /\ IsNext(m, conn, "new")
    /\ conn' = [conn EXCEPT ![m] = "open"]
    /\ watches' = [watches EXCEPT ![m] = s]
    /\ subs' = [subs EXCEPT ![s] = @ \cup {m}]
    /\ UNCHANGED <<tableVars, taskVars, stopVars, inbox, faults>>

Leaves(m) ==
    /\ Open(m)
    /\ conn' = [conn EXCEPT ![m] = "left"]
    /\ UNCHANGED <<tableVars, taskVars, stopVars, watches, subs, inbox, faults>>

(* The endpoint notices that the client left.  (It detaches after a close   *)
(* too, when close_session has taken the subscriber already.)               *)
Detach(m) ==
    /\ conn[m] = "left"
    /\ conn' = [conn EXCEPT ![m] = "gone"]
    /\ subs' = [subs EXCEPT ![watches[m]] = @ \ {m}]
    /\ UNCHANGED <<tableVars, taskVars, stopVars, watches, inbox, faults>>

(* The process restarts: tasks, handlers, connections and its memory end.   *)
Restart ==
    /\ Fault
    /\ ensured' = {}
    /\ task' = [c \in Tasks |-> IF task[c] = "none" THEN "none" ELSE "done"]
    /\ left' = [c \in Tasks |-> {}]
    /\ stop' = [t \in Stops |-> IF stop[t] = "none" THEN "none" ELSE "done"]
    /\ telling' = [t \in Stops |-> {}]
    /\ conn' = [m \in Monitors |-> IF conn[m] = "new" THEN "new" ELSE "gone"]
    /\ subs' = [s \in Sessions |-> {}]
    /\ UNCHANGED <<row, stored, about, stopOf, ended, watches, inbox>>

RecordsNext ==
    \/ \E s \in Sessions : Start(s) \/ \E c \in Tasks : Pushes(c, s)
    \/ \E c \in Tasks : Capture(c)
    \/ \E t \in Stops : StopHandler(t) \/ \E s \in Sessions : EndSession(t, s)
    \/ \E m \in Monitors :
         Leaves(m) \/ Detach(m) \/ \E s \in Sessions : Attach(m, s)
    \/ Restart

RecordsSpec == RecordsInit /\ [][RecordsNext]_recordVars

(* The event loop runs every task and handler that can go on.               *)
Fairness ==
    /\ \A c \in Tasks : WF_recordVars(Capture(c))
    /\ \A t \in Stops : WF_recordVars(StopHandler(t))
    /\ \A m \in Monitors : WF_recordVars(Detach(m))

RecordsFairSpec == RecordsSpec /\ Fairness

-----------------------------------------------------------------------------
(* A stored pair always has its session's row, so that a stop finds one to  *)
(* end (translation_repository.py 13-15): whatever fails or restarts, and   *)
(* however the tasks interleave.                                            *)
RowBeforePair == \A c \in stored : row[about[c]] # "none"

(* However many stops, starts and restarts there are, one call at most      *)
(* reports the end of a session, and a monitor hears of it at most once,    *)
(* and only of the session it watches (stop_session 370-372).               *)
EndIsReportedOnce ==
    /\ \A t, u \in Stops : ended[t] /\ ended[u] /\ stopOf[t] = stopOf[u] => t = u
    /\ \A m \in Monitors :
         /\ inbox[m][Closed] > 0 =>
              \E t \in Stops : ended[t] /\ stopOf[t] = watches[m]
         /\ \A p \in Payloads : inbox[m][p] <= 1

(* No task gives up a subscriber that stays connected without sending to    *)
(* it, whichever other subscribers fail or leave (MonitorHub.broadcast: "a  *)
(* single failing subscriber never blocks the others").                     *)
NoSubscriberMissed ==
    [][faults' = faults =>
         \A c \in Tasks : \A m \in left[c] \ left'[c] :
           Open(m) => inbox'[m][c] > inbox[m][c]]_recordVars

(* When a stop ends a session, every monitor that is subscribed by then     *)
(* hears of it, or leaves, unless the database failed or the process        *)
(* restarted: also when another monitor leaves while it is being told.      *)
EndIsTold ==
    \A m \in Monitors, s \in Sessions :
      (m \in subs[s] /\ \E t \in Stops : stopOf[t] = s /\ stop[t] = "counting")
        ~> inbox[m][Closed] > 0 \/ ~Open(m) \/ faults > 0
=============================================================================
