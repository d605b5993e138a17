--------------------------- MODULE MicSession_proofs ---------------------------
(***************************************************************************)
(* The safety properties of microphone sessions, for any numbers of        *)
(* sessions, sockets and stops under way.  A session runs at most once,    *)
(* after its own start: what is stopped never runs again.  As long as      *)
(* starts do not overlap, what runs is the active session, and nothing     *)
(* runs while a start is under way.  A timer beside a socket means that    *)
(* the session had two.                                                    *)
(***************************************************************************)
EXTENDS MicSession, TLAPS, FiniteSetTheorems

Running(s) == run[s] = "running"

(* Before the end of its start nothing of a session runs, and python was    *)
(* not told of an end before the start is undone.                           *)
StartInv ==
    \A s \in Sessions :
      /\ start[s] # "done" => s \notin store /\ run[s] = "none"
      /\ start[s] \notin {"done", "undo", "failed"} => py[s] # "ended"
      /\ start[s] \in {"stopOld", "pyStopOld"} =>
           prev[s] \in Sessions /\ start[prev[s]] = "done" /\ ~Running(prev[s])

StopInv ==
    \A c \in Calls : stops[c].pc # "idle" =>
      start[stops[c].sess] = "done" /\ ~Running(stops[c].sess)

SingleInv ==
    ~raced =>
      /\ \A s \in Sessions : Running(s) => active = s
      /\ \A s, r \in Sessions : InProgress(s) /\ InProgress(r) => s = r
      /\ (\E s \in Sessions : InProgress(s)) => \A r \in Sessions : ~Running(r)

SocketInv ==
    \A s \in Sessions :
      /\ \A v, w \in Of(s) : v # w => doubled[s]
      /\ timer[s] /\ Of(s) # {} => doubled[s]

IInv == TypeOK /\ RunningIsKnown /\ StartInv /\ StopInv /\ SingleInv /\ SocketInv

Control == RunningIsKnown /\ StartInv /\ StopInv /\ SingleInv

-----------------------------------------------------------------------------
LEMMA InitIInv ==
    ASSUME Init
    PROVE  IInv
<1>1. TypeOK
  BY MicAssumption DEF Init, TypeOK, NoStop, Closed
<1>2. Control
  BY DEF Init, Control, RunningIsKnown, StartInv, StopInv, SingleInv, Running, NoStop,
         InProgress
<1>3. SocketInv
  BY MicAssumption DEF Init, SocketInv, Of, Closed
<1> QED BY <1>1, <1>2, <1>3 DEF IInv, Control

(* Sockets and timers do not matter to the rest, and the rest not to them.  *)
LEMMA SocketsApart ==
    ASSUME IInv, UNCHANGED sockVars
    PROVE  SocketInv'
BY DEF IInv, SocketInv, Of, sockVars

LEMMA ControlApart ==
    ASSUME IInv, UNCHANGED <<startVars, start, stops, storeVars, run, py>>
    PROVE  Control'
BY DEF IInv, Control, RunningIsKnown, StartInv, StopInv, SingleInv, Running, InProgress,
       startVars, storeVars

-----------------------------------------------------------------------------
(* /mic/start.                                                             *)
LEMMA StartRequestKeeps ==
    ASSUME IInv, NEW s \in Sessions, StartRequest(s)
    PROVE  IInv'
<1> USE DEF IInv
<1>1. /\ start[s] = "new" /\ prev' = [prev EXCEPT ![s] = active]
      /\ raced' = (raced \/ \E r \in Sessions : InProgress(r))
      /\ UNCHANGED <<stops, py, sockVars, failed>>
  BY DEF StartRequest
<1>2. \/ /\ active = None /\ start' = [start EXCEPT ![s] = "pyStart"]
         /\ UNCHANGED <<storeVars, run, current>>
      \/ /\ active \in store /\ run[active] = "running" /\ current' = None
         /\ run' = [run EXCEPT ![active] = "stopping"]
         /\ start' = [start EXCEPT ![s] = "stopOld"]
         /\ UNCHANGED storeVars
      \/ /\ active \in store /\ run[active] # "running" /\ current' = None
         /\ store' = store \ {active} /\ active' = None
         /\ start' = [start EXCEPT ![s] = "pyStopOld"]
         /\ UNCHANGED run
  BY DEF StartRequest, StartGoesTo, StopsRuntime, RunAs, Deleted, ActiveWithout, TypeOK
<1>3. TypeOK'
  <2>1. raced' \in BOOLEAN
    BY <1>1, Zenon
  <2>2. prev' \in [Sessions -> Sessions \cup {None}]
    BY <1>1 DEF TypeOK
  <2>3. /\ start' \in [Sessions -> {"new", "stopOld", "pyStopOld", "pyStart", "pipeline",
                                    "undo", "done", "failed"}]
        /\ run' \in [Sessions -> {"none", "running", "stopping", "stopped"}]
        /\ store' \subseteq Sessions /\ active' \in store' \cup {None}
        /\ current' \in Sessions \cup {None}
    BY <1>2 DEF TypeOK, storeVars
  <2> QED BY <1>1, <2>1, <2>2, <2>3 DEF TypeOK, sockVars
<1>4. active # None => active \in Sessions /\ start[active] = "done" /\ active # s
  BY <1>1 DEF TypeOK, StartInv
<1>5. \A r \in Sessions : Running(r)' => Running(r)
  BY <1>2 DEF Running, TypeOK
<1>6. RunningIsKnown'
  BY <1>1, <1>2, <1>5 DEF RunningIsKnown, Running, storeVars, TypeOK
<1>7. StartInv'
  <2>1. \A r \in Sessions : r # s => start'[r] = start[r] /\ prev'[r] = prev[r]
    BY <1>1, <1>2 DEF TypeOK
  <2>2. start'[s] \in {"pyStart", "stopOld", "pyStopOld"} /\ prev'[s] = active
    BY <1>1, <1>2 DEF TypeOK
  <2>3. start'[s] \in {"stopOld", "pyStopOld"} => active # None /\ run'[active] # "running"
    BY <1>2, MicAssumption DEF TypeOK, Running
  <2>4. \A r \in Sessions : start[r] # "done" => run'[r] = run[r] /\ r \notin store'
    BY <1>2, <1>4 DEF StartInv, TypeOK, storeVars
  <2>5. ASSUME NEW r \in Sessions
        PROVE  /\ start'[r] # "done" => r \notin store' /\ run'[r] = "none"
               /\ start'[r] \notin {"done", "undo", "failed"} => py'[r] # "ended"
    BY <1>1, <2>1, <2>2, <2>4 DEF StartInv
  <2>6. ASSUME NEW r \in Sessions, start'[r] \in {"stopOld", "pyStopOld"}
        PROVE  prev'[r] \in Sessions /\ start'[prev'[r]] = "done" /\ ~(run'[prev'[r]] = "running")
    <3>1. CASE r = s
      BY <1>4, <2>1, <2>2, <2>3, <2>6, <3>1
    <3>2. CASE r # s
      <4>1. prev[r] \in Sessions /\ start[prev[r]] = "done" /\ ~Running(prev[r])
        BY <2>1, <2>6, <3>2 DEF StartInv
      <4> QED BY <1>1, <1>5, <2>1, <3>2, <4>1 DEF Running
    <3> QED BY <3>1, <3>2
  <2> QED BY <2>5, <2>6 DEF StartInv, Running
<1>8. StopInv'
  <2>1. \A r \in Sessions : start[r] = "done" => start'[r] = "done"
    BY <1>1, <1>2 DEF TypeOK
  <2>2. \A c \in Calls : stops[c].pc # "idle" => stops[c].sess \in Sessions
    BY DEF TypeOK
  <2> QED BY <1>1, <1>5, <2>1, <2>2 DEF StopInv
<1>9. SingleInv'
  <2> SUFFICES ASSUME ~raced' PROVE SingleInv'
    BY DEF SingleInv
  <2>1. ~raced /\ \A r \in Sessions : ~InProgress(r)
    BY <1>1
  <2>2. \A r \in Sessions : InProgress(r)' => r = s
    BY <1>1, <1>2, <2>1 DEF InProgress, TypeOK
  <2>3. \A r \in Sessions : ~Running(r)'
    BY <1>2, <1>5, <2>1, MicAssumption DEF SingleInv, Running, TypeOK
  <2> QED BY <2>2, <2>3 DEF SingleInv
<1>10. SocketInv'
  BY <1>1, SocketsApart
<1> QED BY <1>3, <1>6, <1>7, <1>8, <1>9, <1>10

(* The later steps of a start, but the last: what they have in common.      *)
LEMMA StartGoesOn ==
    ASSUME IInv, NEW s \in Sessions, InProgress(s),
           start' \in [Sessions -> {"new", "stopOld", "pyStopOld", "pyStart", "pipeline",
                                    "undo", "done", "failed"}],
           \A r \in Sessions \ {s} : start'[r] = start[r],
           start'[s] \notin {"new", "stopOld", "done"},
           start'[s] = "pyStopOld" => start[s] = "stopOld",
           start[s] \in {"undo", "failed"} => start'[s] \in {"undo", "failed"},
           \A r \in Sessions : Running(r)' <=> Running(r),
           \A r \in Sessions : start[r] # "done" => run'[r] = run[r],
           \A r \in Sessions : py'[r] = "ended" /\ py[r] # "ended" =>
             ~Running(r) /\ (start[r] = "done" \/ start'[r] = "failed"),
           store' \subseteq store, \A r \in Sessions : Running(r) /\ r \in store => r \in store',
           \A r \in Sessions : Running(r) => active' = active \/ active # r,
           UNCHANGED <<prev, raced, stops, sockVars>>
    PROVE  Control' /\ SocketInv'
<1> USE DEF IInv
<1>1. start[s] # "done" /\ start[s] # "new"
  BY DEF InProgress
<1>2. RunningIsKnown'
  BY DEF RunningIsKnown, Running
<1>3. StartInv'
  <2>1. \A r \in Sessions : start'[r] # "done" => start[r] # "done"
    BY <1>1
  <2>2. \A r \in Sessions : start[r] = "done" => start'[r] = "done"
    BY <1>1
  <2>3. \A r \in Sessions : start'[r] # "done" => r \notin store' /\ run'[r] = "none"
    BY <2>1 DEF StartInv
  <2>4. \A r \in Sessions : start'[r] \notin {"done", "undo", "failed"} => py'[r] # "ended"
    BY <1>1 DEF StartInv, InProgress
  <2>5. \A r \in Sessions : start'[r] \in {"stopOld", "pyStopOld"} =>
          prev'[r] \in Sessions /\ start'[prev'[r]] = "done" /\ run'[prev'[r]] # "running"
    <3>1. ASSUME NEW r \in Sessions, start'[r] \in {"stopOld", "pyStopOld"}
          PROVE  start[r] \in {"stopOld", "pyStopOld"}
      BY <3>1
    <3>2. \A r \in Sessions : start[r] \in {"stopOld", "pyStopOld"} =>
            prev[r] \in Sessions /\ start[prev[r]] = "done" /\ ~Running(prev[r])
      BY DEF StartInv
    <3>3. \A q \in Sessions : ~Running(q) => ~Running(q)'
      OBVIOUS
    <3>4. prev' = prev
      OBVIOUS
    <3> QED BY <2>2, <3>1, <3>2, <3>3, <3>4 DEF Running
  <2> QED BY <2>3, <2>4, <2>5 DEF StartInv
<1>4. StopInv'
  <2>1. \A c \in Calls : stops[c].pc # "idle" => stops[c].sess \in Sessions
    BY DEF TypeOK
  <2> QED BY <1>1, <2>1 DEF StopInv, Running
<1>5. SingleInv'
  <2>1. \A r \in Sessions : InProgress(r)' => InProgress(r)
    BY DEF InProgress
  <2> QED BY <2>1 DEF SingleInv, Running
<1>6. SocketInv'
  BY SocketsApart
<1> QED BY <1>2, <1>3, <1>4, <1>5, <1>6 DEF Control

LEMMA PyEnds ==
    ASSUME TypeOK, NEW s \in Sessions, NEW to \in {"open", "ended"},
           PyAnswers(s, to) \/ PyFails(s, to)
    PROVE  /\ py' \in [Sessions -> {"none", "open", "ended"}] /\ failed' \subseteq Sessions
           /\ \A r \in Sessions : py'[r] # py[r] => r = s /\ py'[r] = to
BY DEF TypeOK, PyAnswers, PyFails

LEMMA StartStepsKeep ==
    ASSUME IInv, NEW s \in Sessions, StartSteps(s), ~PipelineStarts(s)
    PROVE  IInv'
<1> USE DEF IInv
<1>1. InProgress(s)
  BY DEF StartSteps, StopOldReturns, StopOldRaises, PyStopOldReturns, PyStarts,
         PyStartFails, PipelineFails, StartUndone, InProgress
<1>2. \A r \in store : start[r] = "done"
  BY DEF StartInv, TypeOK
<1>3. CASE StopOldReturns(s) \/ StopOldRaises(s)
  <2>1. /\ prev[s] \in Sessions /\ ~Running(prev[s]) /\ start[prev[s]] = "done"
        /\ start[s] = "stopOld" /\ run' = [run EXCEPT ![prev[s]] = "stopped"]
    BY <1>3 DEF StartInv, StopOldReturns, StopOldRaises, RunAs
  <2>2. /\ start' \in [Sessions -> {"new", "stopOld", "pyStopOld", "pyStart", "pipeline",
                                     "undo", "done", "failed"}]
        /\ start'[s] \in {"pyStopOld", "pyStart"}
        /\ \A r \in Sessions \ {s} : start'[r] = start[r]
    BY <1>3 DEF StopOldReturns, StopOldRaises, StartGoesTo, TypeOK
  <2>3. /\ UNCHANGED <<prev, raced, stops, current, py, sockVars>>
        /\ failed' \subseteq Sessions
    BY <1>3, <2>1 DEF StopOldReturns, StopOldRaises, TypeOK
  <2>4. /\ store' \subseteq store /\ store \ {prev[s]} \subseteq store'
        /\ active' \in store' \cup {None}
        /\ (active' = active \/ (active' = None /\ active = prev[s]))
    <3>1. /\ store \subseteq Sessions /\ active \in Sessions \cup {None} /\ None \notin Sessions
          /\ (active # None => active \in store)
      BY MicAssumption DEF TypeOK, StartInv
    <3>2. CASE StopOldReturns(s)
      <4>1. /\ store' = store \ {prev[s]}
            /\ active' = (IF active = prev[s] THEN None ELSE active)
        BY <3>2 DEF StopOldReturns, Deleted, ActiveWithout
      <4> QED BY <4>1, <3>1
    <3>3. CASE StopOldRaises(s)
      <4>1. store' = store /\ active' = active
        BY <3>3 DEF StopOldRaises, storeVars
      <4> QED BY <4>1, <3>1
    <3> QED BY <1>3, <3>2, <3>3
  <2>5. /\ run' \in [Sessions -> {"none", "running", "stopping", "stopped"}]
        /\ \A r \in Sessions : Running(r)' <=> Running(r)
        /\ \A r \in Sessions : start[r] # "done" => run'[r] = run[r]
    BY <2>1 DEF TypeOK, Running
  <2>6. TypeOK'
    BY <2>2, <2>3, <2>4, <2>5 DEF TypeOK, sockVars
  <2> QED BY <1>1, <2>1, <2>2, <2>3, <2>4, <2>5, <2>6, StartGoesOn DEF Control
<1>4. CASE PyStopOldReturns(s)
  <2>1. /\ prev[s] \in Sessions /\ ~Running(prev[s]) /\ start[prev[s]] = "done"
        /\ start[s] = "pyStopOld" /\ start' = [start EXCEPT ![s] = "pyStart"]
        /\ UNCHANGED <<prev, raced, stops, storeVars, current, run, sockVars>>
    BY <1>4 DEF StartInv, PyStopOldReturns, StartGoesTo
  <2>2. /\ py' \in [Sessions -> {"none", "open", "ended"}] /\ failed' \subseteq Sessions
        /\ \A r \in Sessions : py'[r] # py[r] => r = prev[s]
    BY <1>4, <2>1, PyEnds DEF PyStopOldReturns
  <2>3. TypeOK'
    BY <2>1, <2>2 DEF TypeOK, storeVars, sockVars
  <2> QED
    BY <1>1, <2>1, <2>2, <2>3, StartGoesOn DEF Control, TypeOK, Running, storeVars
<1>5. CASE PyStarts(s) \/ PipelineFails(s)
  <2>1. /\ start' \in [Sessions -> {"new", "stopOld", "pyStopOld", "pyStart", "pipeline",
                                     "undo", "done", "failed"}]
        /\ start'[s] \in {"pipeline", "undo"} /\ start[s] \in {"pyStart", "pipeline"}
        /\ \A r \in Sessions \ {s} : start'[r] = start[r]
        /\ current' \in Sessions \cup {None}
        /\ UNCHANGED <<prev, raced, stops, storeVars, run, sockVars>>
    BY <1>5 DEF PyStarts, PipelineFails, StartGoesTo, TypeOK
  <2>2. /\ py' \in [Sessions -> {"none", "open", "ended"}] /\ failed' \subseteq Sessions
        /\ \A r \in Sessions : py'[r] # py[r] => py'[r] = "open"
    BY <1>5, PyEnds DEF PyStarts, PipelineFails, TypeOK
  <2>3. TypeOK'
    BY <2>1, <2>2 DEF TypeOK, storeVars, sockVars
  <2> QED BY <1>1, <2>1, <2>2, <2>3, StartGoesOn DEF Control, Running, storeVars
<1>6. CASE PyStartFails(s) \/ StartUndone(s)
  <2>1. /\ start[s] \in {"pyStart", "undo"} /\ start' = [start EXCEPT ![s] = "failed"]
        /\ Deleted(s)
        /\ UNCHANGED <<prev, raced, stops, current, run, sockVars>>
    BY <1>6 DEF PyStartFails, StartUndone, StartGoesTo
  <2>2. s \notin store /\ active # s
    BY <2>1, MicAssumption DEF StartInv, TypeOK
  <2>3. store' = store /\ active' = active
    BY <2>1, <2>2 DEF Deleted, ActiveWithout
  <2>4. /\ py' \in [Sessions -> {"none", "open", "ended"}] /\ failed' \subseteq Sessions
        /\ \A r \in Sessions : py'[r] # py[r] => r = s
    BY <1>6, PyEnds DEF PyStartFails, StartUndone
  <2>5. TypeOK'
    BY <2>1, <2>3, <2>4 DEF TypeOK, sockVars
  <2>6. ~Running(s) /\ start'[s] = "failed"
    BY <2>1 DEF StartInv, Running, TypeOK
  <2> QED BY <1>1, <2>1, <2>3, <2>4, <2>5, <2>6, StartGoesOn DEF Control, Running, TypeOK
<1> QED BY <1>3, <1>4, <1>5, <1>6 DEF StartSteps

LEMMA PipelineStartsKeeps ==
    ASSUME IInv, NEW s \in Sessions, PipelineStarts(s)
    PROVE  IInv'
<1> USE DEF IInv
<1>1. /\ start[s] = "pipeline" /\ start' = [start EXCEPT ![s] = "done"]
      /\ run' = [run EXCEPT ![s] = "running"]
      /\ store' = store \cup {s} /\ active' = s
      /\ UNCHANGED <<prev, raced, stops, current, py, sockVars, failed>>
  BY DEF PipelineStarts, StartGoesTo, RunAs, MadeActive
<1>2. TypeOK'
  BY <1>1 DEF TypeOK, sockVars
<1>3. RunningIsKnown'
  BY <1>1 DEF RunningIsKnown, StartInv, TypeOK
<1>4. StartInv'
  <2>1. \A r \in Sessions : start'[r] # "done" => r # s /\ start'[r] = start[r]
    BY <1>1 DEF TypeOK
  <2>2. \A r \in Sessions : start[r] = "done" => start'[r] = "done" /\ r # s
    BY <1>1 DEF TypeOK
  <2> QED BY <1>1, <2>1, <2>2 DEF StartInv, Running, TypeOK
<1>5. StopInv'
  <2>1. \A c \in Calls : stops[c].pc # "idle" => stops[c].sess \in Sessions
    BY DEF TypeOK
  <2> QED BY <1>1, <2>1 DEF StopInv, Running, TypeOK
<1>6. SingleInv'
  <2> SUFFICES ASSUME ~raced PROVE SingleInv'
    BY <1>1 DEF SingleInv
  <2>1. InProgress(s)
    BY <1>1 DEF InProgress
  <2>2. \A r \in Sessions : ~InProgress(r)'
    BY <1>1, <2>1 DEF SingleInv, InProgress, TypeOK
  <2>3. \A r \in Sessions : Running(r)' => r = s
    BY <1>1, <2>1 DEF SingleInv, Running, TypeOK
  <2> QED BY <1>1, <2>2, <2>3 DEF SingleInv
<1> QED BY <1>1, <1>2, <1>3, <1>4, <1>5, <1>6, SocketsApart

-----------------------------------------------------------------------------
(* stopMicSession.                                                         *)

(* What each step of a stop may do.                                         *)
LEMMA StopGoesOn ==
    ASSUME IInv, TypeOK',
           \A r \in Sessions : Running(r)' => Running(r),
           \A r \in Sessions : start[r] # "done" => run'[r] = run[r],
           \A r \in Sessions : py'[r] = "ended" /\ py[r] # "ended" =>
             ~Running(r) /\ start[r] = "done",
           store' \subseteq store, \A r \in Sessions : Running(r)' => r \in store',
           \A r \in Sessions : Running(r)' => active' = active \/ active # r,
           \A c \in Calls : stops'[c].pc # "idle" =>
             start[stops'[c].sess] = "done" /\ run'[stops'[c].sess] # "running",
           UNCHANGED startVars
    PROVE  Control'
<1> USE DEF IInv, startVars
<1>1. RunningIsKnown'
  BY DEF RunningIsKnown, Running
<1>2. StartInv'
  BY DEF StartInv, Running
<1>3. StopInv'
  BY DEF StopInv, Running
<1>4. SingleInv'
  <2>1. \A r \in Sessions : InProgress(r)' <=> InProgress(r)
    BY DEF InProgress
  <2> QED BY <2>1 DEF SingleInv, Running
<1> QED BY <1>1, <1>2, <1>3, <1>4 DEF Control

LEMMA StopBeginsKeeps ==
    ASSUME IInv, NEW c \in Calls, NEW s \in Sessions, start[s] = "done", StopBegins(c, s),
           UNCHANGED <<startVars, py, sock, seen, doubled, failed>>,
           timer' \in [Sessions -> BOOLEAN]
    PROVE  TypeOK' /\ Control'
<1> USE DEF IInv
<1>1. /\ stops' = [stops EXCEPT ![c] = [pc |-> stops'[c].pc, sess |-> s]]
      /\ stops'[c].pc \in {"runtime", "python"} /\ stops'[c].sess = s
      /\ \A d \in Calls \ {c} : stops'[d] = stops[d]
  BY DEF StopBegins, TypeOK
<1>2. \/ /\ run[s] = "running" /\ run' = [run EXCEPT ![s] = "stopping"]
         /\ UNCHANGED <<storeVars, current>>
      \/ /\ run[s] # "running" /\ store' \subseteq store /\ store \ {s} \subseteq store'
         /\ active' \in store' \cup {None}
         /\ active' = active \/ (active' = None /\ active = s)
         /\ current' = None /\ run' = run
  BY DEF StopBegins, StopsRuntime, RunAs, Deleted, ActiveWithout, storeVars, TypeOK,
         RunningIsKnown
<1>3. TypeOK'
  <2>1. stops' \in [Calls -> [pc : {"idle", "runtime", "python"},
                              sess : Sessions \cup {None}]]
    BY <1>1 DEF TypeOK
  <2>2. \A d \in Calls : stops'[d].sess = None <=> stops'[d].pc = "idle"
    BY <1>1, MicAssumption DEF TypeOK
  <2>3. /\ run' \in [Sessions -> {"none", "running", "stopping", "stopped"}]
        /\ store' \subseteq Sessions /\ active' \in store' \cup {None}
        /\ current' \in Sessions \cup {None}
    BY <1>2 DEF TypeOK, storeVars
  <2> QED BY <2>1, <2>2, <2>3 DEF TypeOK, startVars
<1>4. run'[s] # "running" /\ \A r \in Sessions \ {s} : run'[r] = run[r]
  BY <1>2 DEF TypeOK
<1>5. \A d \in Calls : stops'[d].pc # "idle" =>
        start[stops'[d].sess] = "done" /\ run'[stops'[d].sess] # "running"
  <2>1. \A d \in Calls : stops[d].pc # "idle" => stops[d].sess \in Sessions
    BY DEF TypeOK
  <2> QED BY <1>1, <1>4, <2>1 DEF StopInv, Running
<1>6. /\ store' \subseteq store /\ store \ {s} \subseteq store'
      /\ active' = active \/ (active' = None /\ active = s)
  BY <1>2 DEF storeVars
<1>7. Control'
  BY <1>3, <1>4, <1>5, <1>6, StopGoesOn DEF Running, RunningIsKnown
<1> QED BY <1>3, <1>7

LEMMA StopStepsKeep ==
    ASSUME IInv, NEW c \in Calls, StopSteps(c)
    PROVE  IInv'
<1> USE DEF IInv
<1> DEFINE s == stops[c].sess
<1>1. /\ s \in Sessions /\ start[s] = "done" /\ run[s] # "running"
      /\ UNCHANGED <<startVars, sockVars>>
  BY DEF StopSteps, StopRuntimeReturns, StopRuntimeRaises, StopReturns, StopInv, TypeOK,
         Running
<1>2. /\ \A d \in Calls \ {c} : stops'[d] = stops[d]
      /\ stops'[c] \in {[pc |-> "python", sess |-> s], NoStop}
      /\ stops' \in [Calls -> [pc : {"idle", "runtime", "python"},
                               sess : Sessions \cup {None}]]
  BY <1>1
     DEF StopSteps, StopRuntimeReturns, StopRuntimeRaises, StopReturns, PythonIsTold,
         NoStop, TypeOK
<1>3. /\ run' \in [Sessions -> {"none", "running", "stopping", "stopped"}]
      /\ run'[s] # "running" /\ \A r \in Sessions \ {s} : run'[r] = run[r]
  BY <1>1 DEF StopSteps, StopRuntimeReturns, StopRuntimeRaises, StopReturns, RunAs, TypeOK
<1>4. /\ store' \subseteq store /\ store \ {s} \subseteq store'
      /\ active' \in store' \cup {None}
      /\ active' = active \/ (active' = None /\ active = s)
      /\ current' \in Sessions \cup {None}
  BY <1>1
     DEF StopSteps, StopRuntimeReturns, StopRuntimeRaises, StopReturns, Deleted,
         ActiveWithout, storeVars, TypeOK
<1>5. /\ py' \in [Sessions -> {"none", "open", "ended"}] /\ failed' \subseteq Sessions
      /\ \A r \in Sessions : py'[r] # py[r] => r = s
  <2>1. CASE StopReturns(c)
    BY <1>1, <2>1, PyEnds DEF StopReturns
  <2>2. CASE StopRuntimeReturns(c) \/ StopRuntimeRaises(c)
    BY <1>1, <2>2 DEF StopRuntimeReturns, StopRuntimeRaises, TypeOK
  <2> QED BY <2>1, <2>2 DEF StopSteps
<1> HIDE DEF s
<1>6. TypeOK'
  <2>1. \A d \in Calls : stops'[d].sess = None <=> stops'[d].pc = "idle"
    BY <1>1, <1>2, MicAssumption DEF NoStop, TypeOK
  <2> QED BY <1>1, <1>2, <1>3, <1>4, <1>5, <2>1 DEF TypeOK, startVars, sockVars
<1>7. \A d \in Calls : stops'[d].pc # "idle" =>
        start[stops'[d].sess] = "done" /\ run'[stops'[d].sess] # "running"
  <2>1. \A d \in Calls : stops[d].pc # "idle" => stops[d].sess \in Sessions
    BY DEF TypeOK
  <2>2. stops'[c].pc # "idle" => stops'[c].sess = s
    BY <1>2 DEF NoStop
  <2> QED BY <1>1, <1>2, <1>3, <2>1, <2>2 DEF StopInv, Running
<1>8. \A r \in Sessions : start[r] # "done" => run'[r] = run[r]
  BY <1>1, <1>3
<1>9. Control'
  BY <1>1, <1>3, <1>4, <1>5, <1>6, <1>7, <1>8, StopGoesOn DEF Running, RunningIsKnown
<1> QED BY <1>1, <1>6, <1>9, SocketsApart DEF Control

-----------------------------------------------------------------------------
(* Sockets and timers.                                                     *)
LEMMA SocketOpensKeeps ==
    ASSUME IInv, NEW w \in Sockets, NEW s \in Sessions, SocketOpens(w, s)
    PROVE  IInv'
<1> USE DEF IInv
<1>1. /\ sock[w].at = "closed" /\ sock' = [sock EXCEPT ![w] = [at |-> "open", sess |-> s]]
      /\ timer' = [timer EXCEPT ![s] = FALSE]
      /\ seen' = [seen EXCEPT ![s] = TRUE]
      /\ doubled' = [doubled EXCEPT ![s] = @ \/ Of(s) # {}]
      /\ UNCHANGED <<startVars, stops, storeVars, current, run, py, failed>>
  BY DEF SocketOpens, TimerCancelled
<1>2. TypeOK'
  <2>1. /\ sock' \in [Sockets -> [at : {"open", "half", "closed"},
                                  sess : Sessions \cup {None}]]
        /\ \A v \in Sockets : sock'[v].sess = None <=> sock'[v].at = "closed"
    BY <1>1, MicAssumption DEF TypeOK
  <2>2. timer' \in [Sessions -> BOOLEAN] /\ seen' \in [Sessions -> BOOLEAN]
    BY <1>1 DEF TypeOK
  <2>3. doubled' \in [Sessions -> BOOLEAN]
    <3>1. (doubled[s] \/ Of(s) # {}) \in BOOLEAN
      BY Zenon
    <3> QED BY <1>1, <3>1 DEF TypeOK
  <2> QED BY <1>1, <2>1, <2>2, <2>3 DEF TypeOK, startVars, storeVars
<1>3. SocketInv'
  <2>1. Of(s)' = Of(s) \cup {w} /\ \A r \in Sessions \ {s} : Of(r)' \subseteq Of(r)
    BY <1>1 DEF Of, TypeOK
  <2>2. ~timer'[s] /\ \A r \in Sessions \ {s} : timer'[r] = timer[r]
    BY <1>1 DEF TypeOK
  <2>3. /\ \A r \in Sessions \ {s} : doubled'[r] = doubled[r]
        /\ Of(s) # {} => doubled'[s]
    BY <1>1 DEF TypeOK
  <2> QED BY <2>1, <2>2, <2>3 DEF SocketInv
<1> QED BY <1>1, <1>2, <1>3, ControlApart DEF Control, startVars

LEMMA ClosesKeeps ==
    ASSUME IInv, NEW w \in Sockets, SocketSteps(w)
    PROVE  IInv'
<1> USE DEF IInv
<1>1. CASE ClientVanishes(w)
  <2>1. /\ sock[w].at = "open" /\ sock' = [sock EXCEPT ![w].at = "half"]
        /\ UNCHANGED <<startVars, stops, storeVars, current, run, py, timer, seen, doubled,
                       failed>>
    BY <1>1 DEF ClientVanishes
  <2>2. \A v \in Sockets : sock'[v].sess = sock[v].sess
    BY <2>1 DEF TypeOK
  <2>3. TypeOK'
    <3>1. /\ sock' \in [Sockets -> [at : {"open", "half", "closed"},
                                    sess : Sessions \cup {None}]]
          /\ \A v \in Sockets : sock'[v].sess = None <=> sock'[v].at = "closed"
      BY <2>1 DEF TypeOK
    <3> QED BY <2>1, <3>1 DEF TypeOK, startVars, storeVars
  <2>4. SocketInv'
    <3>1. \A r \in Sessions : Of(r)' = Of(r)
      BY <2>2 DEF Of
    <3> QED BY <2>1, <3>1 DEF SocketInv
  <2> QED BY <2>1, <2>3, <2>4, ControlApart DEF Control, startVars
<1>2. CASE Closes(w) /\ sock[w].at # "closed"
  <2> DEFINE s == sock[w].sess
  <2>1. /\ s \in Sessions /\ sock' = [sock EXCEPT ![w] = Closed]
        /\ timer' = [timer EXCEPT ![s] = Armed(s)]
        /\ UNCHANGED <<startVars, stops, storeVars, current, run, py, seen, doubled, failed>>
    BY <1>2 DEF Closes, TypeOK
  <2> HIDE DEF s
  <2>2. TypeOK'
    <3>1. /\ sock' \in [Sockets -> [at : {"open", "half", "closed"},
                                    sess : Sessions \cup {None}]]
          /\ \A v \in Sockets : sock'[v].sess = None <=> sock'[v].at = "closed"
      BY <2>1 DEF TypeOK, Closed
    <3>2. timer' \in [Sessions -> BOOLEAN]
      <4>1. Armed(s) \in BOOLEAN
        BY Zenon DEF Armed
      <4> QED BY <2>1, <4>1 DEF TypeOK
    <3> QED BY <2>1, <3>1, <3>2 DEF TypeOK, startVars, storeVars
  <2>3. SocketInv'
    <3>1. \A r \in Sessions : Of(r)' = Of(r) \ {w}
      BY <2>1, MicAssumption DEF Of, TypeOK, Closed
    <3>2. \A r \in Sessions \ {s} : timer'[r] = timer[r]
      BY <2>1 DEF TypeOK
    <3>3. w \in Of(s)
      BY DEF Of, s
    <3> QED BY <2>1, <3>1, <3>2, <3>3 DEF SocketInv
  <2> QED BY <2>1, <2>2, <2>3, ControlApart DEF Control, startVars
<1> QED
  BY <1>1, <1>2 DEF SocketSteps, ClientCloses, HeartbeatTerminates, AudioRefused

LEMMA TeardownKeeps ==
    ASSUME IInv, NEW s \in Sessions, Teardown(s)
    PROVE  IInv'
<1> USE DEF IInv
<1>1. /\ timer' = [timer EXCEPT ![s] = FALSE]
      /\ UNCHANGED <<startVars, py, sock, seen, doubled, failed>>
  BY DEF Teardown, TeardownIgnored, TeardownBegins
<1>2. timer' \in [Sessions -> BOOLEAN]
  BY <1>1 DEF TypeOK
<1>3. SocketInv'
  <2>1. \A r \in Sessions : timer'[r] => timer[r]
    BY <1>1 DEF TypeOK
  <2> QED BY <1>1, <2>1 DEF SocketInv, Of
<1>4. CASE TeardownIgnored(s)
  <2>1. UNCHANGED <<stops, storeVars, current, run>>
    BY <1>4 DEF TeardownIgnored
  <2>2. TypeOK'
    BY <1>1, <1>2, <2>1 DEF TypeOK, startVars, storeVars
  <2> QED BY <1>1, <1>3, <2>1, <2>2, ControlApart DEF Control, startVars
<1>5. CASE \E c \in Calls : TeardownBegins(c, s)
  <2>1. PICK c \in Calls : TeardownBegins(c, s)
    BY <1>5
  <2>2. start[s] = "done" /\ StopBegins(c, s)
    BY <2>1 DEF TeardownBegins, StartInv
  <2> QED BY <1>1, <1>2, <1>3, <2>2, StopBeginsKeeps DEF Control
<1> QED BY <1>4, <1>5 DEF Teardown

LEMMA StopRequestKeeps ==
    ASSUME IInv, NEW c \in Calls, NEW s \in Sessions, StopRequest(c, s)
    PROVE  IInv'
<1>1. /\ start[s] = "done" /\ StopBegins(c, s)
      /\ UNCHANGED <<startVars, py, sockVars, failed>>
  BY DEF StopRequest
<1>2. timer' \in [Sessions -> BOOLEAN]
  BY <1>1 DEF IInv, TypeOK, sockVars
<1>3. TypeOK' /\ Control'
  BY <1>1, <1>2, StopBeginsKeeps DEF sockVars
<1> QED BY <1>1, <1>3, SocketsApart DEF IInv, Control

LEMMA StutterKeeps ==
    ASSUME IInv, UNCHANGED vars
    PROVE  IInv'
<1>1. TypeOK'
  BY DEF IInv, TypeOK, vars
<1>2. Control' /\ SocketInv'
  BY ControlApart, SocketsApart DEF vars, startVars, storeVars, sockVars
<1> QED BY <1>1, <1>2 DEF IInv, Control

LEMMA NextKeeps ==
    ASSUME IInv, [Next]_vars
    PROVE  IInv'
<1>1. CASE \E s \in Sessions : StartRequest(s) \/ StartSteps(s) \/ Teardown(s)
  BY <1>1, StartRequestKeeps, StartStepsKeep, PipelineStartsKeeps, TeardownKeeps
<1>2. CASE \E c \in Calls : StopSteps(c) \/ \E s \in Sessions : StopRequest(c, s)
  BY <1>2, StopStepsKeep, StopRequestKeeps
<1>3. CASE \E w \in Sockets : SocketSteps(w) \/ \E s \in Sessions : SocketOpens(w, s)
  BY <1>3, ClosesKeeps, SocketOpensKeeps
<1> QED BY <1>1, <1>2, <1>3, StutterKeeps DEF Next

THEOREM Inductive == Spec => []IInv
BY InitIInv, NextKeeps, PTL DEF Spec

-----------------------------------------------------------------------------
(* The variables keep their types.                                         *)
THEOREM MicTypeCorrect == Spec => []TypeOK
BY Inductive, PTL DEF IInv

(* A runtime that runs is registered and known to python, and unless two   *)
(* starts overlapped it is the only one.                                   *)
THEOREM MicOneRuntime == Spec => []OneRuntime
<1>1. ASSUME IInv PROVE OneRuntime
  <2> DEFINE R == {s \in Sessions : run[s] = "running"}
  <2>1. ASSUME ~raced PROVE Cardinality(R) <= 1
    <3>1. R \subseteq {active}
      BY <1>1, <2>1 DEF IInv, SingleInv, Running
    <3>2. IsFiniteSet({active}) /\ Cardinality({active}) = 1
      BY FS_Singleton
    <3> HIDE DEF R
    <3>3. Cardinality(R) <= Cardinality({active})
      BY <3>1, <3>2, FS_Subset
    <3> QED BY <3>2, <3>3
  <2> QED BY <1>1, <2>1 DEF IInv, OneRuntime
<1> QED BY <1>1, Inductive, PTL

(* A grace timer tears a session down only when no client is connected to  *)
(* it, or it had two sockets at once.                                      *)
THEOREM MicTeardown == Spec => TeardownOnlyAlone
<1> DEFINE Alone == \A s \in Sessions : TornDown(s) => ~Live(s) \/ doubled[s]
<1>1. IInv => Alone
  BY DEF IInv, SocketInv, TornDown, Live, Of
<1>2. IInv /\ [Next]_vars => [Alone]_vars
  BY <1>1
<1> QED BY <1>2, Inductive, PTL DEF Spec, TeardownOnlyAlone
-----------------------------------------------------------------------------
(***************************************************************************)
(* What the liveness of a stop rests on: no wake-up is lost.  A runtime    *)
(* whose client went away has a timer, and a runtime that stops is awaited *)
(* by the call that will tell python.  Fairness does the rest, which is    *)
(* TLC's.                                                                  *)
(***************************************************************************)

GhostIsWatched ==
    \A s \in Sessions : Running(s) /\ seen[s] => Of(s) # {} \/ timer[s]

SeenInv == \A s \in Sessions : seen[s] => start[s] = "done"

Awaited(s) ==
    \/ \E c \in Calls : stops[c].pc = "runtime" /\ stops[c].sess = s
    \/ \E r \in Sessions : start[r] = "stopOld" /\ prev[r] = s

Owed(s) ==
    \/ \E c \in Calls : stops[c].pc = "python" /\ stops[c].sess = s
    \/ \E r \in Sessions : start[r] = "pyStopOld" /\ prev[r] = s

EndIsOwed ==
    \A s \in Sessions :
      /\ run[s] = "stopping" => Awaited(s)
      /\ run[s] = "stopped" => py[s] = "ended" \/ s \in failed \/ Owed(s)

WatchInv == SeenInv /\ GhostIsWatched

(* What does not touch a socket, a timer or a runtime that starts.          *)
LEMMA WatchApart ==
    ASSUME IInv, WatchInv, \A s \in Sessions : Running(s)' => Running(s),
           \A s \in Sessions : start[s] = "done" => start'[s] = "done",
           UNCHANGED sockVars
    PROVE  WatchInv'
BY DEF WatchInv, SeenInv, GhostIsWatched, Running, Of, sockVars

LEMMA WatchStep ==
    ASSUME IInv, WatchInv, [Next]_vars
    PROVE  WatchInv'
<1> USE DEF IInv
<1>1. CASE \E s \in Sessions : StartRequest(s)
  <2>1. PICK s \in Sessions : StartRequest(s)
    BY <1>1
  <2>2. /\ start[s] = "new" /\ \E pc : StartGoesTo(s, pc)
        /\ run' = run \/ RunAs(active, "stopping")
        /\ UNCHANGED sockVars
    BY <2>1 DEF StartRequest
  <2> QED BY <2>2, WatchApart DEF StartGoesTo, RunAs, Running, TypeOK
<1>2. CASE \E s \in Sessions : StartSteps(s)
  <2>1. PICK s \in Sessions : StartSteps(s)
    BY <1>2
  <2>2. start[s] # "done" /\ (\E pc : StartGoesTo(s, pc)) /\ UNCHANGED sockVars
    BY <2>1
       DEF StartSteps, StopOldReturns, StopOldRaises, PyStopOldReturns, PyStarts, PyStartFails,
           PipelineStarts, PipelineFails, StartUndone
  <2>3. \A r \in Sessions : start[r] = "done" => start'[r] = "done" /\ r # s
    BY <2>2 DEF StartGoesTo, TypeOK
  <2>4. \A r \in Sessions : start[r] = "done" /\ Running(r)' => Running(r)
    BY <2>1, <2>3
       DEF StartSteps, StopOldReturns, StopOldRaises, PyStopOldReturns, PyStarts, PyStartFails,
           PipelineStarts, PipelineFails, StartUndone, RunAs, Running, TypeOK
  <2> QED BY <2>2, <2>3, <2>4 DEF WatchInv, SeenInv, GhostIsWatched, Of, sockVars
<1>3. CASE \E s \in Sessions : Teardown(s)
  <2>1. PICK s \in Sessions : Teardown(s)
    BY <1>3
  <2>2. /\ timer' = [timer EXCEPT ![s] = FALSE]
        /\ UNCHANGED <<startVars, sock, seen>>
        /\ \/ Running(s) /\ RunAs(s, "stopping")
           \/ (s \in store => ~Running(s)) /\ run' = run
    <3>1. CASE TeardownIgnored(s)
      BY <3>1 DEF TeardownIgnored
    <3>2. CASE \E c \in Calls : TeardownBegins(c, s)
      BY <3>2 DEF TeardownBegins, StopBegins, StopsRuntime, Running
    <3> QED BY <2>1, <3>1, <3>2 DEF Teardown
  <2>3. ~Running(s)' /\ \A r \in Sessions \ {s} : run'[r] = run[r] /\ timer'[r] = timer[r]
    BY <2>2 DEF RunAs, Running, RunningIsKnown, TypeOK
  <2> QED BY <2>2, <2>3 DEF WatchInv, SeenInv, GhostIsWatched, Running, Of, startVars
<1>4. CASE \E c \in Calls : StopSteps(c) \/ \E s \in Sessions : StopRequest(c, s)
  <2>1. UNCHANGED <<startVars, sockVars>>
    BY <1>4
       DEF StopSteps, StopRuntimeReturns, StopRuntimeRaises, StopReturns, StopRequest
  <2>2. \A r \in Sessions : Running(r)' => Running(r)
    BY <1>4
       DEF StopSteps, StopRuntimeReturns, StopRuntimeRaises, StopReturns, StopRequest,
           StopBegins, RunAs, Running, TypeOK
  <2> QED BY <2>1, <2>2, WatchApart DEF startVars
<1>5. CASE \E w \in Sockets, s \in Sessions : SocketOpens(w, s)
  <2>1. PICK w \in Sockets, s \in Sessions : SocketOpens(w, s)
    BY <1>5
  <2>2. /\ sock[w].at = "closed" /\ sock' = [sock EXCEPT ![w] = [at |-> "open", sess |-> s]]
        /\ timer' = [timer EXCEPT ![s] = FALSE] /\ seen' = [seen EXCEPT ![s] = TRUE]
        /\ start[s] = "done" /\ UNCHANGED <<startVars, run>>
    BY <2>1 DEF SocketOpens, TimerCancelled
  <2>3. Of(s)' # {} /\ \A r \in Sessions \ {s} : Of(r) \subseteq Of(r)'
    BY <2>2, MicAssumption DEF Of, TypeOK
  <2>4. \A r \in Sessions \ {s} : timer'[r] = timer[r] /\ seen'[r] = seen[r]
    BY <2>2 DEF TypeOK
  <2> QED BY <2>2, <2>3, <2>4 DEF WatchInv, SeenInv, GhostIsWatched, Running, startVars
<1>6. CASE \E w \in Sockets : SocketSteps(w)
  <2>1. PICK w \in Sockets : SocketSteps(w)
    BY <1>6
  <2>2. UNCHANGED <<startVars, run, seen, store>>
    BY <2>1
       DEF SocketSteps, ClientVanishes, ClientCloses, HeartbeatTerminates, AudioRefused, Closes,
           storeVars
  <2>3. CASE ClientVanishes(w)
    <3>1. UNCHANGED timer /\ \A v \in Sockets : sock'[v].sess = sock[v].sess
      BY <2>3 DEF ClientVanishes, TypeOK
    <3>2. \A r \in Sessions : Of(r)' = Of(r)
      BY <3>1 DEF Of
    <3> QED BY <2>2, <3>1, <3>2 DEF WatchInv, SeenInv, GhostIsWatched, Running, startVars
  <2>4. CASE Closes(w) /\ sock[w].at # "closed"
    <3> DEFINE s == sock[w].sess
    <3>1. /\ s \in Sessions /\ sock' = [sock EXCEPT ![w] = Closed]
          /\ timer' = [timer EXCEPT ![s] = Armed(s)]
      BY <2>4 DEF Closes, TypeOK
    <3>2. \A r \in Sessions \ {s} : Of(r) \subseteq Of(r)'
      BY <3>1 DEF Of, TypeOK
    <3> HIDE DEF s
    <3>3. \A r \in Sessions \ {s} : timer'[r] = timer[r]
      BY <3>1 DEF TypeOK
    <3>4. Running(s) => timer'[s]
      <4>1. timer'[s] = Armed(s)
        BY <3>1 DEF TypeOK
      <4>2. Running(s) => Armed(s)
        BY <3>1 DEF RunningIsKnown, Running, Armed
      <4> QED BY <4>1, <4>2, Zenon
    <3> QED BY <2>2, <3>1, <3>2, <3>3, <3>4
            DEF WatchInv, SeenInv, GhostIsWatched, Running, startVars
  <2> QED
    BY <2>1, <2>3, <2>4 DEF SocketSteps, ClientCloses, HeartbeatTerminates, AudioRefused
<1>7. CASE UNCHANGED vars
  BY <1>7, WatchApart DEF vars, startVars, sockVars, Running
<1> QED BY <1>1, <1>2, <1>3, <1>4, <1>5, <1>6, <1>7 DEF Next

(* The stops under way and what they are for.                               *)
LEMMA OwedStep ==
    ASSUME IInv, EndIsOwed, [Next]_vars
    PROVE  EndIsOwed'
<1> USE DEF IInv
<1>0. SUFFICES ASSUME NEW q \in Sessions
               PROVE  /\ run'[q] = "stopping" => Awaited(q)'
                      /\ run'[q] = "stopped" => py'[q] = "ended" \/ q \in failed' \/ Owed(q)'
  BY DEF EndIsOwed
<1> DEFINE Done == /\ run'[q] = "stopping" => Awaited(q)'
                   /\ run'[q] = "stopped" => py'[q] = "ended" \/ q \in failed' \/ Owed(q)'
<1>a. /\ run[q] = "stopping" => Awaited(q)
      /\ run[q] = "stopped" => py[q] = "ended" \/ q \in failed \/ Owed(q)
      /\ run[q] \in {"stopping", "stopped"} => start[q] = "done"
  BY DEF EndIsOwed, StartInv
<1>1. CASE \E s \in Sessions : StartRequest(s)
  <2>1. PICK s \in Sessions : StartRequest(s)
    BY <1>1
  <2>2. /\ start[s] = "new" /\ prev' = [prev EXCEPT ![s] = active]
        /\ UNCHANGED <<stops, py, failed>>
    BY <2>1 DEF StartRequest
  <2>3. /\ \A r \in Sessions \ {s} : start'[r] = start[r] /\ prev'[r] = prev[r]
        /\ prev'[s] = active
    BY <2>1, <2>2 DEF StartRequest, StartGoesTo, TypeOK
  <2>4. (Awaited(q) => Awaited(q)') /\ (Owed(q) => Owed(q)')
    BY <2>2, <2>3 DEF Awaited, Owed
  <2>5. CASE run' = run
    BY <1>a, <2>2, <2>4, <2>5
  <2>6. CASE run' # run
    <3>1. RunAs(active, "stopping") /\ StartGoesTo(s, "stopOld")
      BY <2>1, <2>6 DEF StartRequest
    <3>2. start'[s] = "stopOld" /\ (q # active => run'[q] = run[q])
          /\ (q = active => run'[q] = "stopping")
      BY <3>1 DEF StartGoesTo, RunAs, TypeOK
    <3>3. q = active => Awaited(q)'
      BY <2>3, <3>2 DEF Awaited
    <3> QED BY <1>a, <2>2, <2>4, <3>2, <3>3
  <2> QED BY <2>5, <2>6
<1>2. CASE \E s \in Sessions : StartSteps(s)
  <2>1. PICK s \in Sessions : StartSteps(s)
    BY <1>2
  <2>2. start[s] # "done" /\ UNCHANGED <<prev, stops>>
    BY <2>1
       DEF StartSteps, StopOldReturns, StopOldRaises, PyStopOldReturns, PyStarts, PyStartFails,
           PipelineStarts, PipelineFails, StartUndone
  <2>3. /\ failed \subseteq failed' /\ (q # s /\ py[q] = "ended" => py'[q] = "ended")
        /\ \A r \in Sessions \ {s} : start'[r] = start[r]
    BY <2>1
       DEF StartSteps, StopOldReturns, StopOldRaises, PyStopOldReturns, PyStarts, PyStartFails,
           PipelineStarts, PipelineFails, StartUndone, StartGoesTo, PyAnswers, PyFails, TypeOK
  <2>4. /\ ~(start[s] = "stopOld" /\ prev[s] = q) /\ Awaited(q) => Awaited(q)'
        /\ ~(start[s] = "pyStopOld" /\ prev[s] = q) /\ Owed(q) => Owed(q)'
    BY <2>2, <2>3 DEF Awaited, Owed
  <2>5. CASE start[s] = "stopOld"
    <3>1. /\ RunAs(prev[s], "stopped") /\ prev[s] \in Sessions /\ py' = py
          /\ StartGoesTo(s, "pyStopOld") \/ prev[s] \in failed'
      BY <2>1, <2>5
         DEF StartSteps, StopOldReturns, StopOldRaises, PyStopOldReturns, PyStarts,
             PyStartFails, PipelineStarts, PipelineFails, StartUndone, StartInv
    <3>2. CASE q = prev[s]
      <4>1. run'[q] = "stopped"
        BY <3>1, <3>2 DEF RunAs, TypeOK
      <4>2. q \in failed' \/ Owed(q)'
        BY <2>2, <3>1, <3>2 DEF Owed, StartGoesTo, TypeOK
      <4> QED BY <4>1, <4>2
    <3>3. CASE q # prev[s]
      <4>1. run'[q] = run[q]
        BY <3>1, <3>3 DEF RunAs, TypeOK
      <4> QED BY <1>a, <2>3, <2>4, <2>5, <3>1, <3>3, <4>1
    <3> QED BY <3>2, <3>3
  <2>6. CASE start[s] = "pyStopOld"
    <3>1. PyStopOldReturns(s)
      BY <2>1, <2>6
         DEF StartSteps, StopOldReturns, StopOldRaises, PyStopOldReturns, PyStarts,
             PyStartFails, PipelineStarts, PipelineFails, StartUndone
    <3>2. run' = run /\ (q = prev[s] => py'[q] = "ended" \/ q \in failed')
          /\ (py[q] = "ended" => py'[q] = "ended")
      BY <3>1 DEF PyStopOldReturns, PyAnswers, PyFails, TypeOK
    <3> QED BY <1>a, <2>3, <2>4, <2>6, <3>2
  <2>7. CASE start[s] \notin {"stopOld", "pyStopOld"}
    <3>1. run' = run \/ RunAs(s, "running")
      BY <2>1, <2>7
         DEF StartSteps, StopOldReturns, StopOldRaises, PyStopOldReturns, PyStarts,
             PyStartFails, PipelineStarts, PipelineFails, StartUndone
    <3>2. run'[q] \in {"stopping", "stopped"} => run'[q] = run[q] /\ q # s
      BY <1>a, <2>2, <3>1 DEF RunAs, TypeOK
    <3> QED BY <1>a, <2>3, <2>4, <2>7, <3>2
  <2> QED BY <2>5, <2>6, <2>7
<1>3. ASSUME NEW c \in Calls, NEW s \in Sessions, StopBegins(c, s),
             UNCHANGED <<startVars, py, failed>>
      PROVE  Done
  <2>1. /\ stops[c].pc = "idle" /\ \A d \in Calls \ {c} : stops'[d] = stops[d]
        /\ \/ RunAs(s, "stopping") /\ stops'[c] = [pc |-> "runtime", sess |-> s]
           \/ run' = run
    BY <1>3 DEF StopBegins, TypeOK
  <2>2. (Awaited(q) => Awaited(q)') /\ (Owed(q) => Owed(q)')
    BY <1>3, <2>1 DEF Awaited, Owed, startVars
  <2>3. CASE run' = run
    BY <1>a, <1>3, <2>2, <2>3
  <2>4. CASE RunAs(s, "stopping") /\ stops'[c] = [pc |-> "runtime", sess |-> s]
    <3>1. (q = s => run'[q] = "stopping" /\ Awaited(q)') /\ (q # s => run'[q] = run[q])
      BY <2>4 DEF RunAs, Awaited, TypeOK
    <3> QED BY <1>a, <1>3, <2>2, <3>1
  <2> QED BY <2>1, <2>3, <2>4
<1>4. CASE \E c \in Calls : StopSteps(c)
  <2>1. PICK c \in Calls : StopSteps(c)
    BY <1>4
  <2>2. /\ stops[c].sess \in Sessions /\ UNCHANGED startVars /\ failed \subseteq failed'
        /\ \A d \in Calls \ {c} : stops'[d] = stops[d]
        /\ py[q] = "ended" => py'[q] = "ended"
    BY <2>1
       DEF StopSteps, StopRuntimeReturns, StopRuntimeRaises, StopReturns, PyAnswers, PyFails,
           TypeOK
  <2>3. /\ ~(stops[c].pc = "runtime" /\ stops[c].sess = q) /\ Awaited(q) => Awaited(q)'
        /\ ~(stops[c].pc = "python" /\ stops[c].sess = q) /\ Owed(q) => Owed(q)'
    BY <2>2 DEF Awaited, Owed, startVars
  <2>4. CASE StopRuntimeReturns(c) \/ StopRuntimeRaises(c)
    <3>1. /\ stops[c].pc = "runtime" /\ RunAs(stops[c].sess, "stopped") /\ py' = py
          /\ \/ stops'[c] = [pc |-> "python", sess |-> stops[c].sess]
             \/ stops[c].sess \in failed'
      BY <2>4 DEF StopRuntimeReturns, StopRuntimeRaises, PythonIsTold, TypeOK
    <3>2. CASE q = stops[c].sess
      <4>1. run'[q] = "stopped"
        BY <3>1, <3>2 DEF RunAs, TypeOK
      <4>2. q \in failed' \/ Owed(q)'
        BY <3>1, <3>2 DEF Owed
      <4> QED BY <4>1, <4>2
    <3>3. CASE q # stops[c].sess
      <4>1. run'[q] = run[q]
        BY <2>2, <3>1, <3>3 DEF RunAs, TypeOK
      <4> QED BY <1>a, <2>2, <2>3, <3>1, <3>3, <4>1
    <3> QED BY <3>2, <3>3
  <2>5. CASE StopReturns(c)
    <3>1. /\ stops[c].pc = "python" /\ run' = run
          /\ q = stops[c].sess => py'[q] = "ended" \/ q \in failed'
      BY <2>5 DEF StopReturns, PyAnswers, PyFails, TypeOK
    <3> QED BY <1>a, <2>2, <2>3, <3>1
  <2> QED BY <2>1, <2>4, <2>5 DEF StopSteps
<1>5. CASE \E c \in Calls, s \in Sessions : StopRequest(c, s) \/ TeardownBegins(c, s)
  BY <1>3, <1>5 DEF StopRequest, TeardownBegins
<1>6. ASSUME UNCHANGED <<startVars, stops, run, py, failed>> PROVE Done
  BY <1>a, <1>6 DEF Awaited, Owed, startVars
<1>7. CASE \E s \in Sessions : TeardownIgnored(s)
  BY <1>6, <1>7 DEF TeardownIgnored
<1>8. CASE \E w \in Sockets : SocketSteps(w) \/ \E s \in Sessions : SocketOpens(w, s)
  BY <1>6, <1>8
     DEF SocketSteps, ClientVanishes, ClientCloses, HeartbeatTerminates, AudioRefused, Closes,
         SocketOpens
<1>9. CASE UNCHANGED vars
  BY <1>6, <1>9 DEF vars, startVars
<1> HIDE DEF Done
<1> QED
  BY <1>1, <1>2, <1>4, <1>5, <1>7, <1>8, <1>9 DEF Next, Teardown

(* A runtime that runs and whose client was ever connected has a socket or *)
(* a timer: whatever closes, reconnects or is stopped, none is forgotten   *)
(* to run, and cost, for ever.                                             *)
THEOREM MicGhostIsWatched == Spec => []GhostIsWatched
<1>1. Init => WatchInv
  BY DEF Init, WatchInv, SeenInv, GhostIsWatched
<1>2. IInv /\ WatchInv /\ [Next]_vars => WatchInv'
  BY WatchStep
<1>3. WatchInv => GhostIsWatched
  BY DEF WatchInv
<1> QED BY <1>1, <1>2, <1>3, Inductive, PTL DEF Spec

(* A runtime that is stopping is awaited, and once it stopped somebody is  *)
(* about to tell python, python was told, or a step of the stop failed.    *)
THEOREM MicEndIsOwed == Spec => []EndIsOwed
<1>1. Init => EndIsOwed
  BY DEF Init, EndIsOwed
<1>2. IInv /\ EndIsOwed /\ [Next]_vars => EndIsOwed'
  BY OwedStep
<1> QED BY <1>1, <1>2, Inductive, PTL DEF Spec
=============================================================================
