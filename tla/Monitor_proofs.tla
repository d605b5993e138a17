----------------------------- MODULE Monitor_proofs ----------------------------
(***************************************************************************)
(* The parts that watch the services, one section each: what is stored of  *)
(* a session and told to its dashboards (SessionRecords), the lists that   *)
(* clients read page by page (MonitorQueries) and the sidecar that alerts  *)
(* (MonitorRules).  They share no state; each has its own constants.       *)
(***************************************************************************)
EXTENDS SessionRecords, MonitorQueries, MonitorRules, FiniteSetTheorems, TLAPS

-----------------------------------------------------------------------------
(***************************************************************************)
(* The safety properties of the session records, for any numbers of        *)
(* sessions, monitors, stops, pairs and faults.  The rows: what a process  *)
(* believes of a row (a mark, an insert under way) is true of it.  The     *)
(* ends: who found the row live is the only one, and the row stays ended.  *)
(* The monitors: the end reaches one while it is open, and only once.      *)
(***************************************************************************)

RowInv ==
    /\ \A c \in Tasks : task[c] # "none" => about[c] \in Sessions
    /\ \A c \in stored : task[c] = "done" /\ row[about[c]] # "none"
    /\ \A c \in Tasks : task[c] = "inserting" => row[about[c]] # "none"
    /\ \A s \in ensured : row[s] # "none"

(* The handler that found the row live.                                     *)
Won(t) == ended[t] \/ stop[t] = "counting"

StopInv ==
    /\ \A t \in Stops : stop[t] # "none" => stopOf[t] \in Sessions
    /\ \A t \in Stops : ended[t] => stop[t] # "none"
    /\ \A t \in Stops : stop[t] \in {"closing", "telling"} => ended[t]
    /\ \A t \in Stops : Won(t) => row[stopOf[t]] = "ended"
    /\ \A t, u \in Stops : Won(t) /\ Won(u) /\ stopOf[t] = stopOf[u] => t = u

(* Who is subscribed or being told watches that session.                    *)
SubsInv ==
    /\ \A s \in Sessions : \A m \in subs[s] : watches[m] = s /\ conn[m] # "new"
    /\ \A t \in Stops : telling[t] # {} => stop[t] = "telling"
    /\ \A t \in Stops : \A m \in telling[t] :
         watches[m] = stopOf[t] /\ conn[m] # "new"

ClosedInv ==
    \A m \in Monitors :
      /\ inbox[m][Closed] <= 1
      /\ conn[m] \in {"new", "open"} => inbox[m][Closed] = 0
      /\ inbox[m][Closed] > 0 => \E t \in Stops : ended[t] /\ stopOf[t] = watches[m]

PairsInv ==
    /\ \A c \in Tasks : task[c] = "none" => left[c] = {}
    /\ \A c \in Tasks, m \in Monitors :
         /\ inbox[m][c] <= 1
         /\ task[c] = "none" \/ m \in left[c] => inbox[m][c] = 0

RecordsInv == RecordsTypeOK /\ RowInv /\ StopInv /\ SubsInv /\ ClosedInv /\ PairsInv

-----------------------------------------------------------------------------
LEMMA Numbers ==
    /\ Closed \in Payloads /\ Tasks \subseteq Payloads /\ Closed \notin Tasks
    /\ Tasks \subseteq Nat /\ Stops \subseteq Nat /\ Monitors \subseteq Nat
BY RecordsAssumption DEF Closed, Payloads, Tasks, Stops, Monitors

LEMMA RecordsInitInv ==
    ASSUME RecordsInit
    PROVE  RecordsInv
<1>1. RecordsTypeOK
  BY RecordsAssumption DEF RecordsInit, RecordsTypeOK
<1>2. RowInv /\ StopInv /\ SubsInv
  BY DEF RecordsInit, RowInv, StopInv, SubsInv, Won
<1>3. ClosedInv /\ PairsInv
  BY Numbers DEF RecordsInit, ClosedInv, PairsInv
<1> QED BY <1>1, <1>2, <1>3 DEF RecordsInv

LEMMA StartKeeps ==
    ASSUME RecordsInv, NEW s \in Sessions, Start(s)
    PROVE  RecordsInv'
<1> USE DEF RecordsInv
<1>1. /\ row' = [row EXCEPT ![s] = "live"] /\ row[s] = "none"
      /\ UNCHANGED <<stored, ensured, taskVars, stopVars, connVars, faults>>
  BY DEF Start, EnsureSession, RecordsTypeOK
<1>2. RecordsTypeOK'
  BY <1>1 DEF RecordsTypeOK, taskVars, stopVars, connVars
<1>3. RowInv'
  BY <1>1 DEF RowInv, RecordsTypeOK, taskVars
<1>4. StopInv'
  BY <1>1 DEF StopInv, Won, RecordsTypeOK, stopVars
<1>5. SubsInv' /\ ClosedInv' /\ PairsInv'
  BY <1>1 DEF SubsInv, ClosedInv, PairsInv, taskVars, stopVars, connVars
<1> QED BY <1>2, <1>3, <1>4, <1>5

LEMMA PushesKeep ==
    ASSUME RecordsInv, NEW c \in Tasks, NEW s \in Sessions, Pushes(c, s)
    PROVE  RecordsInv'
<1> USE DEF RecordsInv
<1>1. /\ task[c] = "none"
      /\ task' = [task EXCEPT ![c] = "sending"]
      /\ about' = [about EXCEPT ![c] = s]
      /\ left' = [left EXCEPT ![c] = subs[s]]
      /\ UNCHANGED <<tableVars, stopVars, connVars, faults>>
  BY DEF Pushes, IsNext
<1>2. RecordsTypeOK'
  BY <1>1 DEF RecordsTypeOK, tableVars, stopVars, connVars
<1>3. RowInv'
  BY <1>1 DEF RowInv, RecordsTypeOK, tableVars
<1>4. StopInv' /\ SubsInv' /\ ClosedInv'
  BY <1>1 DEF StopInv, Won, SubsInv, ClosedInv, tableVars, stopVars, connVars
<1>5. PairsInv'
  BY <1>1 DEF PairsInv, RecordsTypeOK, connVars
<1> QED BY <1>2, <1>3, <1>4, <1>5

LEMMA SendArrivesKeeps ==
    ASSUME RecordsInv, NEW c \in Tasks, NEW m \in Monitors, SendArrives(c, m)
    PROVE  RecordsInv'
<1> USE DEF RecordsInv
<1>1. /\ task[c] = "sending" /\ m \in left[c]
      /\ inbox' = [inbox EXCEPT ![m][c] = @ + 1]
      /\ left' = [left EXCEPT ![c] = @ \ {m}]
      /\ UNCHANGED <<tableVars, task, about, stopVars, conn, watches, subs, faults>>
  BY DEF SendArrives
<1>2. /\ inbox' \in [Monitors -> [Payloads -> Nat]]
      /\ \A n \in Monitors : inbox'[n][Closed] = inbox[n][Closed]
      /\ \A n \in Monitors, d \in Tasks :
           inbox'[n][d] = IF n = m /\ d = c THEN inbox[n][d] + 1 ELSE inbox[n][d]
  BY <1>1, Numbers DEF RecordsTypeOK
<1>3. RecordsTypeOK'
  BY <1>1, <1>2 DEF RecordsTypeOK, tableVars, stopVars
<1>4. RowInv' /\ StopInv' /\ SubsInv'
  BY <1>1 DEF RowInv, StopInv, Won, SubsInv, tableVars, stopVars
<1>5. ClosedInv'
  BY <1>1, <1>2 DEF ClosedInv, stopVars
<1>6. PairsInv'
  BY <1>1, <1>2 DEF PairsInv, RecordsTypeOK
<1> QED BY <1>3, <1>4, <1>5, <1>6

LEMMA FanOutEndsKeeps ==
    ASSUME RecordsInv, NEW c \in Tasks, FanOutEnds(c)
    PROVE  RecordsInv'
<1> USE DEF RecordsInv
<1>1. /\ task[c] = "sending" /\ about[c] \in Sessions
      /\ left' = [left EXCEPT ![c] = {}]
      /\ task' = [task EXCEPT ![c] = IF about[c] \in ensured THEN "inserting"
                                     ELSE "ensuring"]
      /\ UNCHANGED <<tableVars, about, stopVars, conn, watches, inbox, faults>>
  BY DEF FanOutEnds, RowInv
<1>2. PICK gone \in SUBSET Monitors : subs' = [subs EXCEPT ![about[c]] = @ \ gone]
  <2>1. PICK missed \in SUBSET left[c] :
          subs' = [subs EXCEPT ![about[c]] = @ \ (left[c] \ missed)]
    BY DEF FanOutEnds
  <2>2. left[c] \ missed \subseteq Monitors
    BY DEF RecordsTypeOK
  <2> QED BY <2>1, <2>2
<1>3. RecordsTypeOK'
  <2>1. subs' \in [Sessions -> SUBSET Monitors]
    BY <1>1, <1>2 DEF RecordsTypeOK
  <2>2. task' \in [Tasks -> {"none", "sending", "ensuring", "inserting", "done"}]
    BY <1>1 DEF RecordsTypeOK
  <2>3. left' \in [Tasks -> SUBSET Monitors]
    BY <1>1 DEF RecordsTypeOK
  <2> QED BY <1>1, <2>1, <2>2, <2>3 DEF RecordsTypeOK, tableVars, stopVars
<1>4. RowInv'
  BY <1>1 DEF RowInv, RecordsTypeOK, tableVars
<1>5. StopInv' /\ ClosedInv'
  BY <1>1 DEF StopInv, Won, ClosedInv, tableVars, stopVars
<1>6. SubsInv'
  <2>1. \A s \in Sessions : subs'[s] \subseteq subs[s]
    BY <1>1, <1>2 DEF RecordsTypeOK
  <2> QED BY <1>1, <2>1 DEF SubsInv, stopVars
<1>7. PairsInv'
  BY <1>1 DEF PairsInv, RecordsTypeOK
<1> QED BY <1>3, <1>4, <1>5, <1>6, <1>7

LEMMA EnsureFirstKeeps ==
    ASSUME RecordsInv, NEW c \in Tasks, EnsureFirst(c)
    PROVE  RecordsInv'
<1> USE DEF RecordsInv
<1>1. /\ task[c] = "ensuring" /\ about[c] \in Sessions
      /\ UNCHANGED <<stored, about, left, stopVars, connVars>>
  BY DEF EnsureFirst, RowInv
<1>2. /\ row' \in [Sessions -> {"none", "live", "ended"}]
      /\ \A s \in Sessions : row[s] # "none" => row'[s] = row[s]
      /\ faults' \in 0 .. MaxFaults
  BY <1>1, RecordsAssumption DEF EnsureFirst, EnsureSession, Fault, RecordsTypeOK
<1>3. \/ /\ ensured' = ensured \cup {about[c]} /\ row'[about[c]] # "none"
         /\ task' = [task EXCEPT ![c] = "inserting"]
      \/ /\ ensured' = ensured
         /\ task' = [task EXCEPT ![c] = "done"]
  BY <1>1 DEF EnsureFirst, EnsureSession, NotEnsured, RecordsTypeOK
<1>4. RecordsTypeOK'
  BY <1>1, <1>2, <1>3 DEF RecordsTypeOK, stopVars, connVars
<1>5. RowInv'
  BY <1>1, <1>2, <1>3 DEF RowInv, RecordsTypeOK
<1>6. StopInv'
  <2>1. \A t \in Stops : Won(t) => stopOf[t] \in Sessions
    BY DEF StopInv, Won
  <2> QED BY <1>1, <1>2, <2>1 DEF StopInv, Won, stopVars
<1>7. SubsInv' /\ ClosedInv'
  BY <1>1 DEF SubsInv, ClosedInv, stopVars, connVars
<1>8. PairsInv'
  BY <1>1, <1>3 DEF PairsInv, RecordsTypeOK, connVars
<1> QED BY <1>4, <1>5, <1>6, <1>7, <1>8

LEMMA InsertPairKeeps ==
    ASSUME RecordsInv, NEW c \in Tasks, InsertPair(c)
    PROVE  RecordsInv'
<1> USE DEF RecordsInv
<1>1. /\ task[c] = "inserting" /\ task' = [task EXCEPT ![c] = "done"]
      /\ stored' = stored \cup {c} \/ stored' = stored
      /\ faults' \in 0 .. MaxFaults
      /\ UNCHANGED <<row, ensured, about, left, stopVars, connVars>>
  BY RecordsAssumption DEF InsertPair, Fault, RecordsTypeOK
<1>2. RecordsTypeOK'
  BY <1>1 DEF RecordsTypeOK, stopVars, connVars
<1>3. RowInv'
  BY <1>1 DEF RowInv, RecordsTypeOK
<1>4. StopInv' /\ SubsInv' /\ ClosedInv'
  BY <1>1 DEF StopInv, Won, SubsInv, ClosedInv, stopVars, connVars
<1>5. PairsInv'
  BY <1>1 DEF PairsInv, RecordsTypeOK, connVars
<1> QED BY <1>2, <1>3, <1>4, <1>5

-----------------------------------------------------------------------------
LEMMA EndSessionKeeps ==
    ASSUME RecordsInv, NEW t \in Stops, NEW s \in Sessions, EndSession(t, s)
    PROVE  RecordsInv'
<1> USE DEF RecordsInv
<1>1. /\ stop[t] = "none" /\ stopOf' = [stopOf EXCEPT ![t] = s]
      /\ \/ /\ row[s] = "live" /\ row' = [row EXCEPT ![s] = "ended"]
            /\ stop' = [stop EXCEPT ![t] = "counting"]
         \/ /\ row' = row /\ stop' = [stop EXCEPT ![t] = "done"]
      /\ UNCHANGED <<stored, ensured, taskVars, ended, telling, connVars>>
  BY DEF EndSession, IsNext, EndsRow
<1>2. ~ended[t] /\ telling[t] = {}
  BY <1>1 DEF StopInv, SubsInv
<1>3. RecordsTypeOK'
  <2>1. faults' \in 0 .. MaxFaults
    BY RecordsAssumption DEF EndSession, Fault, RecordsTypeOK
  <2> QED BY <1>1, <2>1 DEF RecordsTypeOK, taskVars, connVars
<1>4. RowInv'
  BY <1>1 DEF RowInv, RecordsTypeOK, taskVars
<1>5. StopInv'
  <2>1. \A u \in Stops : u # t => stop'[u] = stop[u] /\ stopOf'[u] = stopOf[u]
    BY <1>1 DEF RecordsTypeOK
  <2>2. ended' = ended /\ stopOf'[t] = s /\ stop'[t] \in {"counting", "done"}
    BY <1>1 DEF RecordsTypeOK
  <2>3. \A u \in Stops : Won(u) => stopOf[u] \in Sessions
    BY DEF StopInv, Won
  <2>4. CASE row[s] = "live" /\ row' = [row EXCEPT ![s] = "ended"]
    <3>1. row'[s] = "ended" /\ \A q \in Sessions : row[q] = "ended" => row'[q] = "ended"
      BY <2>4 DEF RecordsTypeOK
    <3>2. \A u \in Stops : Won(u) => stopOf[u] # s /\ row[stopOf[u]] = "ended"
      BY <2>4 DEF StopInv
    <3>3. \A u \in Stops \ {t} : Won(u)' <=> Won(u)
      BY <2>1, <2>2 DEF Won
    <3>4. \A u \in Stops : Won(u)' => row'[stopOf'[u]] = "ended"
      BY <2>1, <2>2, <2>3, <3>1, <3>2, <3>3
    <3>5. \A u, v \in Stops : Won(u)' /\ Won(v)' /\ stopOf'[u] = stopOf'[v] => u = v
      BY <2>1, <2>2, <3>2, <3>3 DEF StopInv
    <3>6. \A u \in Stops : stop'[u] # "none" => stopOf'[u] \in Sessions
      BY <2>1, <2>2 DEF StopInv
    <3>7. /\ \A u \in Stops : ended'[u] => stop'[u] # "none"
          /\ \A u \in Stops : stop'[u] \in {"closing", "telling"} => ended'[u]
      BY <2>1, <2>2 DEF StopInv
    <3> QED BY <3>4, <3>5, <3>6, <3>7 DEF StopInv
  <2>5. CASE row' = row /\ stop' = [stop EXCEPT ![t] = "done"]
    BY <1>2, <2>1, <2>2, <2>3, <2>5 DEF StopInv, Won, RecordsTypeOK
  <2> QED BY <1>1, <2>4, <2>5
<1>6. SubsInv'
  BY <1>1, <1>2 DEF SubsInv, RecordsTypeOK, connVars
<1>7. ClosedInv'
  BY <1>1, <1>2 DEF ClosedInv, RecordsTypeOK, connVars
<1>8. PairsInv'
  BY <1>1 DEF PairsInv, taskVars, connVars
<1> QED BY <1>3, <1>4, <1>5, <1>6, <1>7, <1>8

LEMMA RecordCountKeeps ==
    ASSUME RecordsInv, NEW t \in Stops, RecordCount(t)
    PROVE  RecordsInv'
<1> USE DEF RecordsInv
<1>1. /\ stop[t] = "counting"
      /\ \/ stop' = [stop EXCEPT ![t] = "closing"] /\ ended' = [ended EXCEPT ![t] = TRUE]
         \/ stop' = [stop EXCEPT ![t] = "done"] /\ ended' = ended
      /\ UNCHANGED <<tableVars, taskVars, stopOf, telling, connVars>>
  BY DEF RecordCount
<1>2. RecordsTypeOK'
  <2>1. faults' \in 0 .. MaxFaults
    BY RecordsAssumption DEF RecordCount, Fault, RecordsTypeOK
  <2> QED BY <1>1, <2>1 DEF RecordsTypeOK, tableVars, taskVars, connVars
<1>3. RowInv' /\ PairsInv'
  BY <1>1 DEF RowInv, PairsInv, tableVars, taskVars, connVars
<1>4. StopInv'
  <2>1. \A u \in Stops : Won(u)' => Won(u)
    BY <1>1 DEF Won, RecordsTypeOK
  <2>2. /\ \A u \in Stops : stop'[u] # "none" => stop[u] # "none"
        /\ \A u \in Stops : ended'[u] => stop'[u] # "none"
        /\ \A u \in Stops : stop'[u] \in {"closing", "telling"} => ended'[u]
    BY <1>1, SMTT(20) DEF StopInv, RecordsTypeOK
  <2> QED BY <1>1, <2>1, <2>2 DEF StopInv, tableVars
<1>5. SubsInv'
  BY <1>1 DEF SubsInv, RecordsTypeOK, connVars
<1>6. ClosedInv'
  <2>1. \A u \in Stops : ended[u] => ended'[u]
    BY <1>1 DEF RecordsTypeOK
  <2> QED BY <1>1, <2>1 DEF ClosedInv, connVars
<1> QED BY <1>2, <1>3, <1>4, <1>5, <1>6

LEMMA TakeSubscribersKeeps ==
    ASSUME RecordsInv, NEW t \in Stops, TakeSubscribers(t)
    PROVE  RecordsInv'
<1> USE DEF RecordsInv
<1>1. /\ stop[t] = "closing" /\ stopOf[t] \in Sessions
      /\ stop' = [stop EXCEPT ![t] = "telling"]
      /\ telling' = [telling EXCEPT ![t] = subs[stopOf[t]]]
      /\ subs' = [subs EXCEPT ![stopOf[t]] = {}]
      /\ UNCHANGED <<tableVars, taskVars, stopOf, ended, conn, watches, inbox, faults>>
  BY DEF TakeSubscribers, StopInv
<1>2. RecordsTypeOK'
  BY <1>1 DEF RecordsTypeOK, tableVars, taskVars
<1>3. RowInv' /\ PairsInv' /\ ClosedInv'
  BY <1>1 DEF RowInv, PairsInv, ClosedInv, tableVars, taskVars
<1>4. StopInv'
  <2>1. \A u \in Stops : Won(u)' => Won(u)
    BY <1>1 DEF Won, RecordsTypeOK
  <2> QED BY <1>1, <2>1 DEF StopInv, RecordsTypeOK, tableVars
<1>5. SubsInv'
  BY <1>1 DEF SubsInv, RecordsTypeOK
<1> QED BY <1>2, <1>3, <1>4, <1>5

LEMMA TellClosedKeeps ==
    ASSUME RecordsInv, NEW t \in Stops, NEW m \in Monitors, TellClosed(t, m)
    PROVE  RecordsInv'
<1> USE DEF RecordsInv
<1>1. /\ m \in telling[t] /\ conn[m] = "open"
      /\ inbox' = [inbox EXCEPT ![m][Closed] = @ + 1]
      /\ conn' = [conn EXCEPT ![m] = "told"]
      /\ UNCHANGED <<tableVars, taskVars, stopVars, watches, subs, faults>>
  BY DEF TellClosed
<1>2. /\ inbox' \in [Monitors -> [Payloads -> Nat]]
      /\ \A n \in Monitors, c \in Tasks : inbox'[n][c] = inbox[n][c]
      /\ \A n \in Monitors :
           inbox'[n][Closed] = IF n = m THEN inbox[n][Closed] + 1 ELSE inbox[n][Closed]
  BY <1>1, Numbers DEF RecordsTypeOK
<1>3. ended[t] /\ stopOf[t] = watches[m]
  BY <1>1 DEF StopInv, SubsInv
<1>4. RecordsTypeOK'
  BY <1>1, <1>2 DEF RecordsTypeOK, tableVars, taskVars, stopVars
<1>5. RowInv' /\ StopInv'
  BY <1>1 DEF RowInv, StopInv, Won, tableVars, taskVars, stopVars
<1>6. SubsInv'
  BY <1>1 DEF SubsInv, RecordsTypeOK, stopVars
<1>7. ClosedInv'
  BY <1>1, <1>2, <1>3 DEF ClosedInv, RecordsTypeOK, stopVars
<1>8. PairsInv'
  BY <1>1, <1>2 DEF PairsInv, taskVars
<1> QED BY <1>4, <1>5, <1>6, <1>7, <1>8

LEMMA CloseMonitorKeeps ==
    ASSUME RecordsInv, NEW t \in Stops, NEW m \in Monitors, CloseMonitor(t, m)
    PROVE  RecordsInv'
<1> USE DEF RecordsInv
<1>1. /\ conn[m] = "told" /\ conn' = [conn EXCEPT ![m] = "gone"]
      /\ telling' = [telling EXCEPT ![t] = @ \ {m}]
      /\ UNCHANGED <<tableVars, taskVars, stop, stopOf, ended, watches, subs, inbox, faults>>
  BY DEF CloseMonitor
<1>2. RecordsTypeOK'
  BY <1>1 DEF RecordsTypeOK, tableVars, taskVars
<1>3. RowInv' /\ StopInv' /\ PairsInv'
  BY <1>1 DEF RowInv, StopInv, Won, PairsInv, tableVars, taskVars
<1>4. SubsInv' /\ ClosedInv'
  BY <1>1 DEF SubsInv, ClosedInv, RecordsTypeOK
<1> QED BY <1>2, <1>3, <1>4

LEMMA StopEndsKeeps ==
    ASSUME RecordsInv, NEW t \in Stops, StopEnds(t)
    PROVE  RecordsInv'
<1> USE DEF RecordsInv
<1>1. /\ stop[t] = "telling" /\ stop' = [stop EXCEPT ![t] = "done"]
      /\ telling' = [telling EXCEPT ![t] = {}]
      /\ UNCHANGED <<tableVars, taskVars, stopOf, ended, connVars, faults>>
  BY DEF StopEnds
<1>2. RecordsTypeOK'
  BY <1>1 DEF RecordsTypeOK, tableVars, taskVars, connVars
<1>3. RowInv' /\ ClosedInv' /\ PairsInv'
  BY <1>1 DEF RowInv, ClosedInv, PairsInv, tableVars, taskVars, connVars
<1>4. StopInv'
  <2>1. \A u \in Stops : Won(u)' => Won(u)
    BY <1>1 DEF Won, RecordsTypeOK
  <2> QED BY <1>1, <2>1 DEF StopInv, RecordsTypeOK, tableVars
<1>5. SubsInv'
  BY <1>1 DEF SubsInv, RecordsTypeOK, connVars
<1> QED BY <1>2, <1>3, <1>4, <1>5

-----------------------------------------------------------------------------
LEMMA AttachKeeps ==
    ASSUME RecordsInv, NEW m \in Monitors, NEW s \in Sessions, Attach(m, s)
    PROVE  RecordsInv'
<1> USE DEF RecordsInv
<1>1. /\ conn[m] = "new" /\ conn' = [conn EXCEPT ![m] = "open"]
      /\ watches' = [watches EXCEPT ![m] = s]
      /\ subs' = [subs EXCEPT ![s] = @ \cup {m}]
      /\ UNCHANGED <<tableVars, taskVars, stopVars, inbox, faults>>
  BY DEF Attach, IsNext
<1>2. RecordsTypeOK'
  BY <1>1 DEF RecordsTypeOK, tableVars, taskVars, stopVars
<1>3. RowInv' /\ StopInv' /\ PairsInv'
  BY <1>1 DEF RowInv, StopInv, Won, PairsInv, tableVars, taskVars, stopVars
<1>4. SubsInv'
  BY <1>1 DEF SubsInv, RecordsTypeOK, stopVars
<1>5. ClosedInv'
  <2>1. inbox'[m][Closed] = 0
    BY <1>1 DEF ClosedInv
  <2> QED BY <1>1, <2>1 DEF ClosedInv, RecordsTypeOK, stopVars
<1> QED BY <1>2, <1>3, <1>4, <1>5

LEMMA LeavesKeeps ==
    ASSUME RecordsInv, NEW m \in Monitors, Leaves(m) \/ Detach(m)
    PROVE  RecordsInv'
<1> USE DEF RecordsInv
<1>1. /\ conn' \in [Monitors -> {"new", "open", "told", "left", "gone"}]
      /\ conn'[m] \in {"left", "gone"} /\ \A n \in Monitors \ {m} : conn'[n] = conn[n]
      /\ conn[m] # "new"
      /\ UNCHANGED <<tableVars, taskVars, stopVars, watches, inbox, faults>>
  <2>1. CASE Leaves(m)
    BY <2>1 DEF Leaves, Open, RecordsTypeOK
  <2>2. CASE Detach(m)
    BY <2>2 DEF Detach, RecordsTypeOK
  <2> QED BY <2>1, <2>2
<1>2. /\ subs' \in [Sessions -> SUBSET Monitors]
      /\ \A s \in Sessions : subs'[s] \subseteq subs[s]
  <2>1. CASE Leaves(m)
    BY <2>1 DEF Leaves, RecordsTypeOK
  <2>2. CASE Detach(m)
    BY <2>2 DEF Detach, RecordsTypeOK
  <2> QED BY <2>1, <2>2
<1>3. RecordsTypeOK'
  BY <1>1, <1>2 DEF RecordsTypeOK, tableVars, taskVars, stopVars
<1>4. RowInv' /\ StopInv' /\ PairsInv'
  BY <1>1 DEF RowInv, StopInv, Won, PairsInv, tableVars, taskVars, stopVars
<1>5. SubsInv'
  BY <1>1, <1>2 DEF SubsInv, RecordsTypeOK, stopVars
<1>6. ClosedInv'
  BY <1>1 DEF ClosedInv, stopVars
<1> QED BY <1>3, <1>4, <1>5, <1>6

LEMMA RestartKeeps ==
    ASSUME RecordsInv, Restart
    PROVE  RecordsInv'
<1> USE DEF RecordsInv
<1>1. /\ ensured' = {}
      /\ task' = [c \in Tasks |-> IF task[c] = "none" THEN "none" ELSE "done"]
      /\ left' = [c \in Tasks |-> {}]
      /\ stop' = [t \in Stops |-> IF stop[t] = "none" THEN "none" ELSE "done"]
      /\ telling' = [t \in Stops |-> {}]
      /\ conn' = [m \in Monitors |-> IF conn[m] = "new" THEN "new" ELSE "gone"]
      /\ subs' = [s \in Sessions |-> {}]
      /\ UNCHANGED <<row, stored, about, stopOf, ended, watches, inbox>>
  BY DEF Restart
<1>2. RecordsTypeOK'
  <2>1. faults' \in 0 .. MaxFaults
    BY RecordsAssumption DEF Restart, Fault, RecordsTypeOK
  <2> QED BY <1>1, <2>1 DEF RecordsTypeOK
<1>3. RowInv' /\ PairsInv'
  BY <1>1 DEF RowInv, PairsInv, RecordsTypeOK
<1>4. StopInv'
  <2>1. \A t \in Stops : Won(t)' => Won(t)
    BY <1>1 DEF Won
  <2> QED BY <1>1, <2>1 DEF StopInv
<1>5. SubsInv' /\ ClosedInv'
  BY <1>1 DEF SubsInv, ClosedInv
<1> QED BY <1>2, <1>3, <1>4, <1>5

LEMMA RecordsStutterKeeps ==
    ASSUME RecordsInv, UNCHANGED recordVars
    PROVE  RecordsInv'
<1> USE DEF RecordsInv, recordVars, tableVars, taskVars, stopVars, connVars
<1>1. RecordsTypeOK' /\ RowInv' /\ StopInv'
  BY DEF RecordsTypeOK, RowInv, StopInv, Won
<1>2. SubsInv' /\ ClosedInv' /\ PairsInv'
  BY DEF SubsInv, ClosedInv, PairsInv
<1> QED BY <1>1, <1>2

LEMMA RecordsNextKeeps ==
    ASSUME RecordsInv, [RecordsNext]_recordVars
    PROVE  RecordsInv'
<1>1. CASE \E c \in Tasks : Capture(c)
  BY <1>1, SendArrivesKeeps, FanOutEndsKeeps, EnsureFirstKeeps, InsertPairKeeps DEF Capture
<1>2. CASE \E t \in Stops : StopHandler(t)
  BY <1>2, RecordCountKeeps, TakeSubscribersKeeps, TellClosedKeeps, CloseMonitorKeeps,
     StopEndsKeeps DEF StopHandler
<1> QED
  BY <1>1, <1>2, StartKeeps, PushesKeep, EndSessionKeeps, AttachKeeps, LeavesKeeps,
     RestartKeeps, RecordsStutterKeeps DEF RecordsNext

THEOREM RecordsInductive == RecordsSpec => []RecordsInv
BY RecordsInitInv, RecordsNextKeeps, PTL DEF RecordsSpec

-----------------------------------------------------------------------------
(* The variables keep their types.                                         *)
THEOREM RecordsTypeCorrect == RecordsSpec => []RecordsTypeOK
BY RecordsInductive, PTL DEF RecordsInv

(* No pair is stored without the row of its session.                       *)
THEOREM PairsHaveTheirSession == RecordsSpec => []RowBeforePair
<1>1. RecordsInv => RowBeforePair
  BY DEF RecordsInv, RowInv, RowBeforePair
<1> QED BY <1>1, RecordsInductive, PTL

(* The end of a session is reported, and told to each monitor, at most     *)
(* once.                                                                   *)
THEOREM EndReportedOnce == RecordsSpec => []EndIsReportedOnce
<1>1. ASSUME RecordsInv PROVE EndIsReportedOnce
  <2>1. \A t, u \in Stops : ended[t] /\ ended[u] /\ stopOf[t] = stopOf[u] => t = u
    BY <1>1 DEF RecordsInv, StopInv, Won
  <2>2. \A m \in Monitors, p \in Payloads : inbox[m][p] <= 1
    BY <1>1 DEF RecordsInv, ClosedInv, PairsInv, Payloads
  <2> QED BY <1>1, <2>1, <2>2 DEF RecordsInv, ClosedInv, EndIsReportedOnce
<1> QED BY <1>1, RecordsInductive, PTL

(* A task gives up only subscribers that are gone.                         *)
THEOREM NoneMissed == RecordsSpec => NoSubscriberMissed
<1> DEFINE NoneIsMissed ==
             faults' = faults =>
               \A c \in Tasks : \A m \in left[c] \ left'[c] :
                 Open(m) => inbox'[m][c] > inbox[m][c]
<1>1. ASSUME RecordsInv, RecordsNext, faults' = faults, NEW c \in Tasks, NEW m \in left[c] \ left'[c],
             Open(m)
      PROVE  inbox'[m][c] > inbox[m][c]
  <2>1. CASE \E d \in Tasks, n \in Monitors : SendArrives(d, n)
    <3>1. PICK d \in Tasks, n \in Monitors : SendArrives(d, n)
      BY <2>1
    <3>2. d = c /\ n = m
      BY <1>1, <3>1 DEF SendArrives, RecordsInv, RecordsTypeOK
    <3>3. m \in Monitors /\ c \in Payloads
      BY <1>1, Numbers DEF RecordsInv, RecordsTypeOK
    <3> QED BY <1>1, <3>1, <3>2, <3>3 DEF SendArrives, RecordsInv, RecordsTypeOK
  <2>2. CASE \E d \in Tasks : FanOutEnds(d)
    <3>1. PICK d \in Tasks : FanOutEnds(d)
      BY <2>2
    <3>2. d = c
      BY <1>1, <3>1 DEF FanOutEnds, RecordsInv, RecordsTypeOK
    <3> QED BY <1>1, <3>1, <3>2 DEF FanOutEnds, LoopOver
  <2>3. CASE \E d \in Tasks, s \in Sessions : Pushes(d, s)
    <3>1. PICK d \in Tasks, s \in Sessions : Pushes(d, s)
      BY <2>3
    <3>2. d = c /\ task[d] = "none"
      BY <1>1, <3>1 DEF Pushes, IsNext, RecordsInv, RecordsTypeOK
    <3> QED BY <1>1, <3>2 DEF RecordsInv, PairsInv
  <2>4. left' # left
    BY <1>1
  <2>5. CASE Restart
    BY <1>1, <2>5, RecordsAssumption DEF Restart, Fault, RecordsInv, RecordsTypeOK
  <2>6. CASE \E d \in Tasks : EnsureFirst(d) \/ InsertPair(d)
    BY <2>4, <2>6 DEF EnsureFirst, InsertPair
  <2>7. CASE \E t \in Stops : StopHandler(t) \/ \E s \in Sessions : EndSession(t, s)
    BY <2>4, <2>7
       DEF StopHandler, EndSession, RecordCount, TakeSubscribers, TellClosed, CloseMonitor,
           StopEnds, taskVars
  <2>8. CASE \/ \E s \in Sessions : Start(s)
             \/ \E n \in Monitors :
                  Leaves(n) \/ Detach(n) \/ \E s \in Sessions : Attach(n, s)
    BY <2>4, <2>8 DEF Start, Leaves, Detach, Attach, taskVars
  <2> QED BY <1>1, <2>1, <2>2, <2>3, <2>5, <2>6, <2>7, <2>8 DEF RecordsNext, Capture
<1>2. RecordsInv /\ [RecordsNext]_recordVars => [NoneIsMissed]_recordVars
  BY <1>1
<1> QED BY <1>2, RecordsInductive, PTL DEF RecordsSpec, NoSubscriberMissed

(* What EndIsTold rests on: a subscriber that stays connected leaves the    *)
(* table only into the hands of a stop of its session, and no stop lets go  *)
(* of it before it was told.                                                *)
HandedOn(m) ==
    /\ \A s \in Sessions : m \in subs[s] /\ m \notin subs'[s] =>
         ~Open(m) \/ \E t \in Stops : stopOf[t] = s /\ m \in telling'[t]
    /\ \A t \in Stops : m \in telling[t] /\ m \notin telling'[t] =>
         ~Open(m) \/ inbox[m][Closed] > 0

NoneDroppedUntold == faults' = faults => \A m \in Monitors : HandedOn(m)

ToldInv == \A m \in Monitors : conn[m] = "told" => inbox[m][Closed] > 0

LEMMA ToldStep ==
    ASSUME RecordsInv, ToldInv, [RecordsNext]_recordVars
    PROVE  ToldInv'
<1> USE DEF RecordsInv
<1>1. ASSUME NEW t \in Stops, NEW m \in Monitors, TellClosed(t, m)
      PROVE  ToldInv'
  <2>1. /\ inbox' = [inbox EXCEPT ![m][Closed] = @ + 1]
        /\ conn' = [conn EXCEPT ![m] = "told"]
    BY <1>1 DEF TellClosed
  <2>2. \A n \in Monitors :
           inbox'[n][Closed] = IF n = m THEN inbox[n][Closed] + 1 ELSE inbox[n][Closed]
    BY <2>1, Numbers DEF RecordsTypeOK
  <2>3. inbox[m][Closed] \in Nat
    BY Numbers DEF RecordsTypeOK
  <2> QED BY <2>1, <2>2, <2>3 DEF ToldInv, RecordsTypeOK
<1>2. ASSUME NEW c \in Tasks, NEW m \in Monitors, SendArrives(c, m)
      PROVE  ToldInv'
  <2>1. \A n \in Monitors : inbox'[n][Closed] = inbox[n][Closed]
    BY <1>2, Numbers DEF SendArrives, RecordsTypeOK
  <2> QED BY <1>2, <2>1 DEF SendArrives, ToldInv
<1>3. ASSUME UNCHANGED inbox,
             \A n \in Monitors : conn'[n] = "told" => conn[n] = "told"
      PROVE  ToldInv'
  BY <1>3 DEF ToldInv
<1>4. CASE UNCHANGED <<conn, inbox>>
  BY <1>3, <1>4
<1>5. CASE \E m \in Monitors : \/ Leaves(m) \/ Detach(m) \/ \E s \in Sessions : Attach(m, s)
                               \/ \E t \in Stops : CloseMonitor(t, m)
  BY <1>3, <1>5 DEF Leaves, Detach, Attach, CloseMonitor, RecordsTypeOK
<1>6. CASE Restart
  BY <1>3, <1>6 DEF Restart
<1> QED
  BY <1>1, <1>2, <1>4, <1>5, <1>6
     DEF RecordsNext, Capture, StopHandler, Start, Pushes, FanOutEnds, EnsureFirst,
         InsertPair, EndSession, RecordCount, TakeSubscribers, StopEnds, connVars, recordVars

LEMMA HandedOnStep ==
    ASSUME RecordsInv, ToldInv, [RecordsNext]_recordVars, faults' = faults
    PROVE  \A m \in Monitors : HandedOn(m)
<1> USE DEF RecordsInv
<1>1. CASE UNCHANGED <<subs, telling>>
  BY <1>1 DEF HandedOn
<1>2. CASE \E c \in Tasks : FanOutEnds(c)
  <2>1. PICK c \in Tasks : FanOutEnds(c)
    BY <1>2
  <2>2. \A s \in Sessions : \A m \in subs[s] \ subs'[s] : m \in left[c]
    BY <2>1 DEF FanOutEnds, RecordsTypeOK
  <2>3. telling' = telling /\ \A m \in left[c] : ~Open(m)
    BY <2>1 DEF FanOutEnds, LoopOver, stopVars
  <2> QED BY <2>2, <2>3 DEF HandedOn
<1>3. CASE \E t \in Stops : TakeSubscribers(t)
  <2>1. PICK t \in Stops : TakeSubscribers(t)
    BY <1>3
  <2>2. /\ stop[t] = "closing" /\ stopOf[t] \in Sessions /\ telling[t] = {}
        /\ telling' = [telling EXCEPT ![t] = subs[stopOf[t]]]
        /\ subs' = [subs EXCEPT ![stopOf[t]] = {}]
    BY <2>1 DEF TakeSubscribers, StopInv, SubsInv
  <2>3. \A s \in Sessions : \A m \in subs[s] \ subs'[s] : s = stopOf[t] /\ m \in telling'[t]
    BY <2>2 DEF RecordsTypeOK
  <2>4. \A u \in Stops : telling[u] \subseteq telling'[u]
    BY <2>2 DEF RecordsTypeOK
  <2> QED BY <2>3, <2>4 DEF HandedOn
<1>4. CASE \E t \in Stops : StopEnds(t) \/ \E m \in Monitors : CloseMonitor(t, m)
  <2>1. PICK t \in Stops : StopEnds(t) \/ \E m \in Monitors : CloseMonitor(t, m)
    BY <1>4
  <2>2. subs' = subs
    BY <2>1 DEF StopEnds, CloseMonitor, connVars
  <2>3. \A u \in Stops : \A m \in telling[u] \ telling'[u] : ~Open(m) \/ conn[m] = "told"
    <3>1. CASE StopEnds(t)
      BY <3>1 DEF StopEnds, LoopOver, RecordsTypeOK
    <3>2. ASSUME NEW n \in Monitors, CloseMonitor(t, n)
          PROVE  \A u \in Stops : \A m \in telling[u] \ telling'[u] : conn[m] = "told"
      <4>1. conn[n] = "told" /\ telling' = [telling EXCEPT ![t] = @ \ {n}]
        BY <3>2 DEF CloseMonitor
      <4>2. \A u \in Stops : \A m \in telling[u] \ telling'[u] : m = n
        BY <4>1 DEF RecordsTypeOK
      <4> QED BY <4>1, <4>2
    <3> QED BY <2>1, <3>1, <3>2
  <2> QED BY <2>2, <2>3 DEF HandedOn, ToldInv
<1>5. CASE \E m \in Monitors : Detach(m) \/ \E s \in Sessions : Attach(m, s)
  <2>1. PICK m \in Monitors : Detach(m) \/ \E s \in Sessions : Attach(m, s)
    BY <1>5
  <2>2. /\ telling' = telling
        /\ \A s \in Sessions : \A n \in subs[s] \ subs'[s] : n = m /\ conn[m] = "left"
    <3>1. CASE Detach(m)
      <4>1. /\ telling' = telling /\ conn[m] = "left"
            /\ subs' = [subs EXCEPT ![watches[m]] = @ \ {m}]
        BY <3>1 DEF Detach, stopVars
      <4>2. \A s \in Sessions : subs[s] \ {m} \subseteq subs'[s]
        BY <4>1 DEF RecordsTypeOK
      <4> QED BY <4>1, <4>2
    <3>2. CASE \E s \in Sessions : Attach(m, s)
      BY <3>2 DEF Attach, stopVars, RecordsTypeOK
    <3> QED BY <2>1, <3>1, <3>2
  <2> QED BY <2>2 DEF HandedOn, Open
<1>6. ~Restart
  BY RecordsAssumption DEF Restart, Fault, RecordsTypeOK
<1> QED
  BY <1>1, <1>2, <1>3, <1>4, <1>5, <1>6
     DEF RecordsNext, Capture, StopHandler, Start, Pushes, SendArrives, EnsureFirst,
         InsertPair, EndSession, RecordCount, TellClosed, Leaves, connVars, stopVars, recordVars

(* Unless the database fails or the process restarts, a monitor that stays *)
(* connected is never dropped from a session's subscribers before it was   *)
(* told of the end, whoever else leaves meanwhile.                         *)
THEOREM NoneIsDroppedUntold == RecordsSpec => [][NoneDroppedUntold]_recordVars
<1>1. RecordsInit => ToldInv
  BY DEF RecordsInit, ToldInv
<1>2. RecordsInv /\ ToldInv /\ [RecordsNext]_recordVars => ToldInv'
  BY ToldStep
<1>3. RecordsInv /\ ToldInv /\ [RecordsNext]_recordVars => [NoneDroppedUntold]_recordVars
  BY HandedOnStep DEF NoneDroppedUntold
<1> QED BY <1>1, <1>2, <1>3, RecordsInductive, PTL DEF RecordsSpec

-----------------------------------------------------------------------------
(***************************************************************************)
(* Walks are complete, for any rows, times, filters and limits.  For walks *)
(* by cursor the invariant splits the rows at it: those the client got are *)
(* not past it, and every row owed to it that it did not get is.  For a    *)
(* walk by offset it counts: as long as none is deleted, more rows than    *)
(* the offset come before the end of each that is owed and not got.        *)
(***************************************************************************)

ByCursor == kind \in {"pairs", "search"}

(* What the next page is taken from, in either list.                        *)
Past(i) == IF kind = "search" THEN PastSearch(i) ELSE PastId(i)

Ahead == {i \in Here(pairs) \cap want : Past(i)}

(* The cursor is that of a row.                                             *)
CursorOfRow ==
    ByCursor =>
      \/ position = None
      \/ \E r \in Ids : position = IF kind = "search" THEN SearchCursor(r) ELSE r

(* What is owed is in the table as long as no sweep took it.                *)
OwedIsHere ==
    ByCursor => owed \subseteq want /\ owed \ pruned \subseteq Here(pairs)

BehindCursor ==
    ByCursor =>
      /\ got \subseteq want /\ ~repeated
      /\ ~over => \A i \in got : ~Past(i)
      /\ ~over => \A i \in (owed \ pruned) \ got : Past(i)
      /\ over => owed \ pruned \subseteq got

(* The rows down to s in the list of sessions.                              *)
DownTo(s) == {q \in Here(sessions) : q >= s}

NotReached ==
    kind = "sessions" =>
      /\ owed \subseteq Listed
      /\ ~over => position \in Nat
      /\ pruned = {} => owed \subseteq Here(sessions)
      /\ pruned = {} /\ ~over =>
           \A s \in owed \ got : Cardinality(DownTo(s)) > position
      /\ pruned = {} /\ over => owed \subseteq got

Fresh == kind = "idle" => got = {} /\ ~repeated /\ ~over

QueriesInv == QueriesTypeOK /\ CursorOfRow /\ OwedIsHere /\ BehindCursor /\ NotReached /\ Fresh

-----------------------------------------------------------------------------
(* The orders.                                                             *)

LEMMA RowsOrdered ==
    ASSUME NEW a \in Ids, NEW b \in Ids, NEW k \in {"pairs", "search"}
    PROVE  /\ ~(Precedes(k, a, b) /\ Precedes(k, b, a)) /\ ~Precedes(k, a, a)
           /\ a = b \/ Precedes(k, a, b) \/ Precedes(k, b, a)
<1>1. At[a] \in Nat /\ At[b] \in Nat /\ a \in Nat /\ b \in Nat
  BY QueriesAssumption DEF Ids
<1>2. CASE k = "pairs"
  BY <1>1, <1>2 DEF Precedes
<1>3. CASE k = "search"
  BY <1>1, <1>3 DEF Precedes, RowBelow, SearchCursor
<1> QED BY <1>2, <1>3

LEMMA RowsTransitive ==
    ASSUME NEW a \in Ids, NEW b \in Ids, NEW c \in Ids, NEW k \in {"pairs", "search"},
           Precedes(k, a, b), Precedes(k, b, c)
    PROVE  Precedes(k, a, c)
<1>1. /\ At[a] \in Nat /\ At[b] \in Nat /\ At[c] \in Nat
      /\ a \in Nat /\ b \in Nat /\ c \in Nat
  BY QueriesAssumption DEF Ids
<1>2. CASE k = "pairs"
  BY <1>1, <1>2 DEF Precedes
<1>3. CASE k = "search"
  BY <1>1, <1>3 DEF Precedes, RowBelow, SearchCursor
<1> QED BY <1>2, <1>3

(* Past a cursor is what its row precedes.                                  *)
LEMMA PastRow ==
    ASSUME ByCursor, NEW r \in Ids, NEW i \in Ids,
           position = IF kind = "search" THEN SearchCursor(r) ELSE r
    PROVE  Past(i) <=> Precedes(kind, r, i)
<1>1. position # None
  BY QueriesAssumption DEF SearchCursor, Ids
<1>2. CASE kind = "pairs"
  BY <1>1, <1>2, QueriesAssumption DEF Past, PastId, Precedes, Ids
<1>3. CASE kind = "search"
  BY <1>1, <1>3 DEF Past, PastSearch, Precedes
<1> QED BY <1>2, <1>3 DEF ByCursor

(* A page that is not full holds all the rows.                              *)
LEMMA ShortPage ==
    ASSUME NEW rows, IsFiniteSet(rows), NEW k, NEW n \in Nat,
           NEW page \in FirstRows(k, rows, n), Cardinality(page) # n
    PROVE  page = rows
<1>1. page \subseteq rows
  BY DEF FirstRows
<1>2. Cardinality(page) = Cardinality(rows)
  BY DEF FirstRows
<1> QED BY <1>1, <1>2, FS_Subset

LEMMA AheadIsFinite ==
    ASSUME QueriesTypeOK
    PROVE  IsFiniteSet(Ahead) /\ Ahead \subseteq Ids
<1>1. Ahead \subseteq Ids
  BY DEF Ahead, Here, QueriesTypeOK
<1>2. IsFiniteSet(Ids)
  BY FS_Interval, QueriesAssumption DEF Ids
<1> QED BY <1>1, <1>2, FS_Subset

LEMMA SessionsAreFinite ==
    ASSUME QueriesTypeOK, NEW S \in SUBSET Here(sessions)
    PROVE  /\ IsFiniteSet(S) /\ Cardinality(S) \in Nat
           /\ S \subseteq Listed /\ Listed \subseteq Nat
<1>1. S \subseteq Listed /\ Listed \subseteq Nat
  BY QueriesAssumption DEF Here, QueriesTypeOK, Listed
<1>2. IsFiniteSet(Listed)
  BY FS_Interval, QueriesAssumption DEF Listed
<1> QED BY <1>1, <1>2, FS_Subset, FS_CardinalityType

(* One more row makes a set larger.                                         *)
LEMMA RowsBelow ==
    ASSUME NEW T, IsFiniteSet(T), NEW S \in SUBSET T, NEW x \in T, x \notin S
    PROVE  Cardinality(S) < Cardinality(T)
<1>1. IsFiniteSet(S) /\ Cardinality(S) \in Nat /\ Cardinality(T) \in Nat
  BY FS_Subset, FS_CardinalityType
<1>2. Cardinality(S) <= Cardinality(T) /\ Cardinality(S) # Cardinality(T)
  BY FS_Subset
<1> QED BY <1>1, <1>2

(* The first n sessions hold those down to any of them, and only what is    *)
(* above one they do not hold.                                              *)
LEMMA FirstSessions ==
    ASSUME QueriesTypeOK, NEW n \in Nat, NEW P \in FirstRows("sessions", Here(sessions), n),
           NEW s \in Here(sessions)
    PROVE  /\ P \subseteq Here(sessions) /\ Cardinality(P) \in Nat
           /\ Cardinality(P) <= n
           /\ s \in P => DownTo(s) \subseteq P /\ Cardinality(DownTo(s)) <= n
           /\ s \notin P => /\ P \subseteq DownTo(s) \ {s} /\ Cardinality(P) = n
                            /\ Cardinality(DownTo(s)) > n
<1>1. /\ P \subseteq Here(sessions) /\ IsFiniteSet(P) /\ Cardinality(P) \in Nat
      /\ IsFiniteSet(Here(sessions)) /\ Cardinality(Here(sessions)) \in Nat
      /\ Here(sessions) \subseteq Nat
      /\ IsFiniteSet(DownTo(s)) /\ Cardinality(DownTo(s)) \in Nat
  BY SessionsAreFinite DEF FirstRows, DownTo
<1>2. /\ \A r \in P, q \in Here(sessions) : r < q => q \in P
      /\ Cardinality(P) = IF Cardinality(Here(sessions)) < n
                          THEN Cardinality(Here(sessions)) ELSE n
  BY DEF FirstRows, Precedes
<1>3. Cardinality(P) <= n
  BY <1>1, <1>2
<1>4. ASSUME s \in P PROVE DownTo(s) \subseteq P /\ Cardinality(DownTo(s)) <= n
  <2>1. DownTo(s) \subseteq P
    BY <1>1, <1>2, <1>4 DEF DownTo
  <2>2. Cardinality(DownTo(s)) <= Cardinality(P)
    BY <1>1, <2>1, FS_Subset
  <2> QED BY <1>1, <1>3, <2>1, <2>2
<1>5. ASSUME s \notin P
      PROVE  /\ P \subseteq DownTo(s) \ {s} /\ Cardinality(P) = n
             /\ Cardinality(DownTo(s)) > n
  <2>1. P \subseteq DownTo(s) \ {s} /\ s \in DownTo(s)
    BY <1>1, <1>2, <1>5 DEF DownTo
  <2>2. Cardinality(P) < Cardinality(Here(sessions))
    BY <1>1, <1>5, RowsBelow
  <2>3. Cardinality(P) < Cardinality(DownTo(s))
    BY <1>1, <2>1, RowsBelow
  <2> QED BY <1>1, <1>2, <2>1, <2>2, <2>3
<1> QED BY <1>1, <1>3, <1>4, <1>5

-----------------------------------------------------------------------------
LEMMA ClampIsPositive ==
    ASSUME NEW raw \in Limits
    PROVE  ClampLimit(raw) \in Nat \ {0}
BY QueriesAssumption DEF ClampLimit

LEMMA QueriesInitInv ==
    ASSUME QueriesInit
    PROVE  QueriesInv
<1>1. QueriesTypeOK
  BY QueriesAssumption DEF QueriesInit, QueriesTypeOK, Place
<1> QED
  BY <1>1
     DEF QueriesInit, QueriesInv, CursorOfRow, OwedIsHere, BehindCursor, NotReached, Fresh, ByCursor

(* New sessions only move the others down.                                  *)
LEMMA MoreRows ==
    ASSUME QueriesTypeOK, QueriesTypeOK', Here(sessions) \subseteq Here(sessions)',
           NEW s \in Listed, NEW n \in Nat, Cardinality(DownTo(s)) > n
    PROVE  Cardinality(DownTo(s)') > n
<1>1. /\ IsFiniteSet(DownTo(s)') /\ Cardinality(DownTo(s)') \in Nat
      /\ Cardinality(DownTo(s)) \in Nat
  <2>1. DownTo(s) \subseteq Here(sessions) /\ DownTo(s)' \subseteq Here(sessions)'
    BY DEF DownTo
  <2>2. /\ DownTo(s)' \subseteq Listed
        /\ DownTo(s) \subseteq Listed
    BY <2>1 DEF QueriesTypeOK, Here
  <2>3. IsFiniteSet(Listed)
    BY FS_Interval, QueriesAssumption DEF Listed
  <2> QED BY <2>2, <2>3, FS_Subset, FS_CardinalityType
<1>2. DownTo(s) \subseteq DownTo(s)'
  BY DEF DownTo
<1> QED BY <1>1, <1>2, FS_Subset

LEMMA CommitKeeps ==
    ASSUME QueriesInv, (\E i \in Ids : CommitPair(i)) \/ (\E s \in Listed : CommitSession(s))
    PROVE  QueriesInv'
<1>1. UNCHANGED <<walk, pruned>>
  BY DEF CommitPair, CommitSession
<1>2. QueriesTypeOK'
  <2>1. pairs' \in [Ids -> Place] /\ sessions' \in [Listed -> Place]
    BY DEF QueriesInv, QueriesTypeOK, CommitPair, CommitSession, Place
  <2> QED BY <1>1, <2>1 DEF QueriesInv, QueriesTypeOK, walk
<1>3. Here(pairs) \subseteq Here(pairs')
  BY DEF QueriesInv, QueriesTypeOK, Here, CommitPair, CommitSession
<1>4. OwedIsHere'
  BY <1>1, <1>3 DEF QueriesInv, OwedIsHere, ByCursor, walk
<1>5. CursorOfRow' /\ BehindCursor' /\ Fresh'
  BY <1>1 DEF QueriesInv, CursorOfRow, BehindCursor, Fresh, ByCursor, Past, PastId, PastSearch, walk
<1>6. Here(sessions) \subseteq Here(sessions')
  BY DEF QueriesInv, QueriesTypeOK, Here, CommitPair, CommitSession
<1>7. NotReached'
  BY <1>1, <1>2, <1>6, MoreRows DEF QueriesInv, NotReached, walk
<1> QED BY <1>2, <1>4, <1>5, <1>7 DEF QueriesInv

LEMMA SweepKeeps ==
    ASSUME QueriesInv, NEW cutoff \in Times, NEW closed \in SUBSET Here(sessions),
           Sweep(cutoff, closed)
    PROVE  QueriesInv'
<1> DEFINE old == {i \in Here(pairs) : At[i] < cutoff}
<1>1. /\ UNCHANGED walk /\ pairs' = Delete(pairs, old)
      /\ sessions' = Delete(sessions, closed)
      /\ pruned' = IF kind = "sessions" THEN pruned \cup closed ELSE pruned \cup old
  BY DEF Sweep
<1>2. old \subseteq Ids /\ closed \subseteq Listed
  BY DEF QueriesInv, QueriesTypeOK, Here
<1> HIDE DEF old
<1>3. QueriesTypeOK'
  <2>1. pairs' \in [Ids -> Place] /\ sessions' \in [Listed -> Place]
    BY <1>1 DEF QueriesInv, QueriesTypeOK, Delete, Place
  <2>2. pruned' \subseteq Nat
    <3>1. pruned \subseteq Nat
      BY DEF QueriesInv, QueriesTypeOK
    <3>2. old \subseteq Nat /\ closed \subseteq Nat
      BY <1>2 DEF Ids, Listed
    <3> QED BY <1>1, <3>1, <3>2
  <2> QED BY <1>1, <2>1, <2>2 DEF QueriesInv, QueriesTypeOK, walk
<1>4. ByCursor => pruned' = pruned \cup old
  BY <1>1 DEF ByCursor
<1>5. Here(pairs) \ old \subseteq Here(pairs')
  BY <1>1 DEF QueriesInv, QueriesTypeOK, Here, Delete
<1>6. OwedIsHere'
  BY <1>1, <1>4, <1>5 DEF QueriesInv, OwedIsHere, ByCursor, walk
<1>7. BehindCursor'
  BY <1>1, <1>4 DEF QueriesInv, BehindCursor, ByCursor, Past, PastId, PastSearch, walk
<1>8. CursorOfRow' /\ Fresh'
  BY <1>1 DEF QueriesInv, CursorOfRow, Fresh, ByCursor, walk
<1>9. NotReached'
  <2>1. CASE kind = "sessions" /\ pruned' = {}
    <3>1. closed = {} /\ pruned = {}
      BY <1>1, <2>1
    <3>2. sessions' = sessions
      BY <1>1, <3>1 DEF QueriesInv, QueriesTypeOK, Delete
    <3> QED BY <1>1, <3>1, <3>2 DEF QueriesInv, NotReached, DownTo, walk
  <2>2. CASE ~(kind = "sessions" /\ pruned' = {})
    BY <1>1, <2>2 DEF QueriesInv, NotReached, walk
  <2> QED BY <2>1, <2>2
<1> QED BY <1>3, <1>6, <1>7, <1>8, <1>9 DEF QueriesInv

LEMMA BeginKeeps ==
    ASSUME QueriesInv, NEW k \in {"sessions", "pairs", "search"}, NEW matches \in SUBSET Ids,
           NEW raw \in Limits, Begin(k, matches, raw, IF k = "sessions" THEN 0 ELSE None)
    PROVE  QueriesInv'
<1>1. /\ kind' = k /\ want' = matches /\ limit' = ClampLimit(raw)
      /\ position' = (IF k = "sessions" THEN 0 ELSE None) /\ pruned' = {}
      /\ owed' = (IF k = "sessions" THEN Here(sessions) ELSE Here(pairs) \cap matches)
      /\ UNCHANGED <<tables, got, repeated, over>>
      /\ got = {} /\ ~repeated /\ ~over
  BY DEF Begin, QueriesInv, Fresh
<1>2. QueriesTypeOK'
  <2>1. owed' \subseteq Nat
    BY <1>1, QueriesAssumption DEF QueriesInv, QueriesTypeOK, Here, Ids, Listed
  <2>2. position' \in {None} \cup IF kind' = "search" THEN [t : Nat, i : Nat] ELSE Nat
    BY <1>1
  <2> QED BY <1>1, <2>1, <2>2, ClampIsPositive DEF QueriesInv, QueriesTypeOK, tables
<1>3. CursorOfRow' /\ Fresh'
  BY <1>1 DEF CursorOfRow, ByCursor, Fresh
<1>4. OwedIsHere'
  BY <1>1 DEF OwedIsHere, ByCursor, Here, tables
<1>5. BehindCursor'
  BY <1>1 DEF BehindCursor, ByCursor, Past, PastId, PastSearch
<1>6. NotReached'
  <2>1. ASSUME NEW s \in Here(sessions) PROVE Cardinality(DownTo(s)) > 0
    <3>1. s \in DownTo(s) /\ DownTo(s) \subseteq Here(sessions)
      BY <2>1, SessionsAreFinite DEF DownTo, QueriesInv
    <3>2. IsFiniteSet(DownTo(s)) /\ Cardinality(DownTo(s)) \in Nat
      BY <3>1, SessionsAreFinite DEF QueriesInv
    <3> QED BY <3>1, <3>2, FS_EmptySet
  <2>2. k = "sessions" => \A s \in owed' : Cardinality(DownTo(s)') > position'
    BY <1>1, <2>1 DEF DownTo, Here, tables
  <2>3. k = "sessions" => owed' = Here(sessions) /\ owed' \subseteq Listed
                          /\ Here(sessions)' = Here(sessions)
    BY <1>1 DEF QueriesInv, QueriesTypeOK, Here, tables
  <2> QED BY <1>1, <2>2, <2>3 DEF NotReached
<1> QED BY <1>2, <1>3, <1>4, <1>5, <1>6 DEF QueriesInv

(* A page of either list, as the proofs below use it.                       *)
PageTaken(page) ==
    /\ page \in FirstRows(kind, Ahead, limit)
    /\ got' = got \cup page
    /\ repeated' = (repeated \/ page \cap got # {})
    /\ over' = (Cardinality(page) # limit)
    /\ UNCHANGED <<tables, kind, want, limit, owed, pruned>>
    /\ IF Cardinality(page) = limit
       THEN \E r \in page :
              /\ IsLast(kind, r, page)
              /\ position' = IF kind = "search" THEN SearchCursor(r) ELSE r
       ELSE position' = None

LEMMA PageOfPairs ==
    ASSUME QueriesInv, ListSessionTranslations
    PROVE  ByCursor /\ ~over /\ \E page : PageTaken(page)
<1>1. kind = "pairs" /\ ~over
  BY DEF ListSessionTranslations
<1>2. Ahead = {i \in Here(pairs) \cap want : PastId(i)}
  BY <1>1 DEF Ahead, Past
<1>3. PICK page \in FirstRows("pairs", Ahead, limit) :
         IF Cardinality(page) = limit
         THEN \E r \in page : IsLast("pairs", r, page) /\ TakePage(page, r)
         ELSE TakePage(page, None)
  BY <1>2 DEF ListSessionTranslations
<1>4. page \subseteq Ids /\ \A r \in page : r # None
  BY AheadIsFinite, QueriesAssumption DEF QueriesInv, FirstRows, Ids
<1>5. PageTaken(page)
  BY <1>1, <1>3, <1>4 DEF PageTaken, TakePage
<1> QED BY <1>1, <1>5 DEF ByCursor

LEMMA PageOfSearch ==
    ASSUME QueriesInv, SearchTranslations
    PROVE  ByCursor /\ ~over /\ \E page : PageTaken(page)
<1>1. kind = "search" /\ ~over
  BY DEF SearchTranslations
<1>2. Ahead = {i \in Here(pairs) \cap want : PastSearch(i)}
  BY <1>1 DEF Ahead, Past
<1>3. PICK page \in FirstRows("search", Ahead, limit) :
         IF Cardinality(page) = limit
         THEN \E r \in page :
                IsLast("search", r, page) /\ TakePage(page, SearchCursor(r))
         ELSE TakePage(page, None)
  BY <1>2 DEF SearchTranslations
<1>4. \A r \in page : SearchCursor(r) # None
  <2>1. page \subseteq Ids
    BY AheadIsFinite DEF QueriesInv, FirstRows
  <2> QED BY <2>1, QueriesAssumption DEF SearchCursor, Ids
<1>5. PageTaken(page)
  BY <1>1, <1>3, <1>4 DEF PageTaken, TakePage
<1> QED BY <1>1, <1>5 DEF ByCursor

LEMMA PageKeeps ==
    ASSUME QueriesInv, ByCursor, ~over, NEW page, PageTaken(page)
    PROVE  QueriesInv'
<1> USE DEF QueriesInv
<1>1. /\ page \subseteq Ahead /\ Ahead \subseteq Ids /\ IsFiniteSet(Ahead)
      /\ \A r \in page, q \in Ahead : Precedes(kind, q, r) => q \in page
      /\ limit \in Nat /\ kind \in {"pairs", "search"}
      /\ UNCHANGED <<tables, kind, want, limit, owed, pruned>>
      /\ got' = got \cup page
  BY AheadIsFinite DEF PageTaken, FirstRows, QueriesTypeOK, ByCursor
<1>2. page \cap got = {} /\ ~repeated'
  BY <1>1 DEF BehindCursor, Ahead, PageTaken
<1>3. \A i \in (owed \ pruned) \ got : i \in Ahead
  BY DEF OwedIsHere, BehindCursor, Ahead
<1>4. got' \subseteq want' /\ got' \subseteq Nat
  <2>1. got' \subseteq want /\ want' = want
    BY <1>1 DEF BehindCursor, Ahead
  <2>2. want \subseteq Nat
    BY QueriesAssumption DEF QueriesTypeOK, Ids
  <2> QED BY <2>1, <2>2
<1>5. OwedIsHere' /\ NotReached' /\ Fresh' /\ over' \in BOOLEAN /\ repeated' \in BOOLEAN
  <2>1. OwedIsHere' /\ NotReached' /\ Fresh'
    BY <1>1 DEF OwedIsHere, NotReached, Fresh, ByCursor, tables
  <2>2. over' \in BOOLEAN /\ repeated' \in BOOLEAN
    BY Zenon DEF PageTaken
  <2> QED BY <2>1, <2>2
<1>6. CASE Cardinality(page) # limit
  <2>1. page = Ahead
    BY <1>1, <1>6, ShortPage DEF PageTaken
  <2>2. over' /\ position' = None
    BY <1>6 DEF PageTaken
  <2>3. BehindCursor'
    BY <1>1, <1>2, <1>3, <1>4, <2>1, <2>2 DEF BehindCursor
  <2>4. QueriesTypeOK' /\ CursorOfRow'
    BY <1>1, <1>4, <1>5, <2>2 DEF QueriesTypeOK, tables, CursorOfRow
  <2> QED BY <1>5, <2>3, <2>4
<1>7. CASE Cardinality(page) = limit
  <2>1. PICK r \in page :
           /\ IsLast(kind, r, page)
           /\ position' = IF kind = "search" THEN SearchCursor(r) ELSE r
    BY <1>7 DEF PageTaken
  <2>2. ~over' /\ r \in Ids /\ ByCursor'
    BY <1>1, <1>7 DEF PageTaken, ByCursor
  <2>3. \A i \in Ids : Past(i)' <=> Precedes(kind, r, i)
    <3>1. position' # None
      BY <2>1, <2>2, QueriesAssumption DEF SearchCursor, Ids
    <3>2. CASE kind = "pairs"
      BY <1>1, <2>1, <3>1, <3>2 DEF Past, PastId, Precedes, Ids
    <3>3. CASE kind = "search"
      BY <1>1, <2>1, <3>1, <3>3 DEF Past, PastSearch, Precedes
    <3> QED BY <1>1, <3>2, <3>3
  <2>4. ASSUME NEW i \in got', Past(i)' PROVE FALSE
    <3>1. i \in Ids
      BY <1>1, <1>4 DEF BehindCursor, QueriesTypeOK
    <3>2. Precedes(kind, r, i)
      BY <2>3, <2>4, <3>1
    <3>3. CASE i \in page
      BY <1>1, <2>1, <2>2, <3>1, <3>2, <3>3, RowsOrdered DEF IsLast
    <3>4. CASE i \in got
      <4>1. Past(r) /\ ~Past(i)
        BY <1>1, <3>4 DEF Ahead, BehindCursor
      <4>2. position # None
        BY <4>1 DEF Past, PastId, PastSearch
      <4>3. PICK p \in Ids : position = IF kind = "search" THEN SearchCursor(p) ELSE p
        BY <4>2 DEF CursorOfRow
      <4> QED BY <1>1, <2>2, <3>1, <3>2, <4>1, <4>3, PastRow, RowsTransitive
    <3> QED BY <1>1, <2>4, <3>3, <3>4
  <2>5. ASSUME NEW i \in (owed \ pruned) \ got' PROVE Past(i)'
    <3>1. i \in Ahead /\ i \notin page /\ i \in Ids
      BY <1>1, <1>3, <2>5
    <3>2. ~Precedes(kind, i, r) /\ i # r
      BY <1>1, <2>1, <3>1
    <3> QED BY <1>1, <2>2, <2>3, <3>1, <3>2, RowsOrdered
  <2>6. BehindCursor'
    BY <1>1, <1>2, <1>4, <2>2, <2>4, <2>5 DEF BehindCursor
  <2>7. CursorOfRow'
    BY <1>1, <2>1, <2>2 DEF CursorOfRow
  <2>8. QueriesTypeOK'
    <3>1. position' \in {None} \cup IF kind' = "search" THEN [t : Nat, i : Nat] ELSE Nat
      BY <1>1, <2>1, <2>2, QueriesAssumption DEF SearchCursor, Ids
    <3> QED BY <1>1, <1>4, <1>5, <3>1 DEF QueriesTypeOK, tables
  <2> QED BY <1>5, <2>6, <2>7, <2>8
<1> QED BY <1>6, <1>7

(* A page of sessions: what it does not hold of what is owed comes after    *)
(* it, and then it is full.                                                 *)
LEMMA ListSessionsKeeps ==
    ASSUME QueriesInv, ListSessions
    PROVE  QueriesInv'
<1> USE DEF QueriesInv
<1>1. kind = "sessions" /\ ~over /\ position \in Nat /\ limit \in Nat \ {0}
  BY DEF ListSessions, NotReached, QueriesTypeOK
<1>2. PICK skipped \in FirstRows("sessions", Here(sessions), position),
           upTo \in FirstRows("sessions", Here(sessions), position + limit) :
         TakePage(upTo \ skipped, NextOffset(upTo \ skipped))
  BY DEF ListSessions
<1> DEFINE page == upTo \ skipped
<1>3. /\ got' = got \cup page /\ position' = NextOffset(page)
      /\ over' = (NextOffset(page) = None)
      /\ UNCHANGED <<tables, kind, want, limit, owed, pruned>>
  BY <1>2 DEF TakePage
<1>4. skipped \subseteq Here(sessions) /\ upTo \subseteq Here(sessions)
  BY DEF FirstRows
<1>5. NextOffset(page) = IF Cardinality(page) = limit THEN position + limit ELSE None
  BY DEF NextOffset
<1>6. position + limit \in Nat /\ position + limit # None
  BY <1>1, QueriesAssumption
<1>7. QueriesTypeOK'
  <2>1. got' \subseteq Nat
    BY <1>3, <1>4, SessionsAreFinite DEF QueriesTypeOK
  <2>2. position' \in {None} \cup Nat
    BY <1>3, <1>5, <1>6
  <2>3. repeated' \in BOOLEAN /\ over' \in BOOLEAN
    BY <1>2, Zenon DEF TakePage
  <2> QED BY <1>1, <1>3, <2>1, <2>2, <2>3 DEF QueriesTypeOK, tables
<1>8. ASSUME pruned = {}, NEW s \in owed, s \notin got'
      PROVE  Cardinality(page) = limit /\ Cardinality(DownTo(s)) > position + limit
  <2>1. s \in Here(sessions) /\ s \notin got /\ s \notin page
    BY <1>1, <1>3, <1>8 DEF NotReached
  <2>2. Cardinality(DownTo(s)) > position
    BY <1>1, <1>8, <2>1 DEF NotReached
  <2>3. DownTo(s) \subseteq Here(sessions) /\ Cardinality(DownTo(s)) \in Nat
    BY SessionsAreFinite DEF DownTo
  <2>4. s \notin skipped
    BY <1>1, <2>1, <2>2, <2>3, FirstSessions
  <2>5. s \notin upTo
    BY <2>1, <2>4
  <2>6. /\ Cardinality(upTo) = position + limit
        /\ Cardinality(DownTo(s)) > position + limit
    BY <1>6, <2>1, <2>5, FirstSessions
  <2>7. Cardinality(skipped) = position
    BY <1>1, <2>1, <2>4, FirstSessions
  <2>8. skipped \subseteq upTo
    <3>1. SUFFICES ASSUME NEW x \in skipped, x \notin upTo PROVE FALSE
      OBVIOUS
    <3>2. x \in Here(sessions)
      BY <1>4
    <3>3. DownTo(x) \subseteq Here(sessions) /\ Cardinality(DownTo(x)) \in Nat
      BY SessionsAreFinite DEF DownTo
    <3>4. Cardinality(DownTo(x)) <= position
      BY <1>1, <3>1, <3>2, FirstSessions
    <3>5. Cardinality(DownTo(x)) > position + limit
      BY <1>6, <3>1, <3>2, FirstSessions
    <3> QED BY <1>1, <3>3, <3>4, <3>5
  <2>9. Cardinality(page) = Cardinality(upTo) - Cardinality(skipped)
    <3>1. IsFiniteSet(upTo) /\ IsFiniteSet(skipped) /\ upTo \cap skipped = skipped
      BY <1>4, <2>8, SessionsAreFinite
    <3> QED BY <3>1, FS_Difference
  <2> QED BY <1>1, <2>6, <2>7, <2>9
<1> HIDE DEF page
<1>9. NotReached'
  <2>1. DownTo(1)' = DownTo(1) /\ \A s : DownTo(s)' = DownTo(s)
    BY <1>3 DEF DownTo, tables
  <2>2. Here(sessions)' = Here(sessions)
    BY <1>3 DEF tables
  <2>3. over' <=> Cardinality(page) # limit
    BY <1>3, <1>5, <1>6
  <2>4. ~over' => position' = position + limit
    BY <1>3, <1>5, <2>3
  <2> QED BY <1>1, <1>3, <1>6, <1>8, <2>1, <2>2, <2>3, <2>4 DEF NotReached
<1> QED BY <1>1, <1>3, <1>7, <1>9 DEF CursorOfRow, OwedIsHere, BehindCursor, Fresh, ByCursor

LEMMA QueriesStutterKeeps ==
    ASSUME QueriesInv, UNCHANGED queryVars
    PROVE  QueriesInv'
BY DEF QueriesInv, QueriesTypeOK, CursorOfRow, OwedIsHere, BehindCursor, NotReached, DownTo, Fresh,
       ByCursor, Past, PastId, PastSearch, queryVars, tables, walk

LEMMA QueriesNextKeeps ==
    ASSUME QueriesInv, [QueriesNext]_queryVars
    PROVE  QueriesInv'
<1>1. CASE \E raw \in Limits : BeginSessions(raw)
  BY <1>1, BeginKeeps DEF BeginSessions
<1>2. CASE \E raw \in Limits, f \in Filters : BeginPairs(f, raw)
  BY <1>2, BeginKeeps, QueriesAssumption DEF BeginPairs
<1>3. CASE \E raw \in Limits, f \in Filters, from, to \in Times \cup {None} :
             BeginSearch(f, from, to, raw)
  <2>1. PICK raw \in Limits, f \in Filters, from \in Times \cup {None},
             to \in Times \cup {None} : BeginSearch(f, from, to, raw)
    BY <1>3
  <2>2. {i \in f : InRange(i, from, to)} \subseteq Ids
    BY QueriesAssumption
  <2> QED BY <2>1, <2>2, BeginKeeps DEF BeginSearch
<1>4. CASE FetchPage
  BY <1>4, PageOfPairs, PageOfSearch, PageKeeps, ListSessionsKeeps DEF FetchPage
<1> QED BY <1>1, <1>2, <1>3, <1>4, CommitKeeps, SweepKeeps, QueriesStutterKeeps DEF QueriesNext

THEOREM QueriesInductive == QueriesSpec => []QueriesInv
BY QueriesInitInv, QueriesNextKeeps, PTL DEF QueriesSpec

-----------------------------------------------------------------------------
(* The variables keep their types.                                         *)
THEOREM QueriesTypeCorrect == QueriesSpec => []QueriesTypeOK
BY QueriesInductive, PTL DEF QueriesInv

(* A walk by cursor misses nothing and repeats nothing, whatever is        *)
(* inserted or deleted meanwhile.                                          *)
THEOREM KeysetWalks == QueriesSpec => []KeysetWalkIsComplete
<1>1. QueriesInv => KeysetWalkIsComplete
  BY DEF QueriesInv, BehindCursor, ByCursor, KeysetWalkIsComplete
<1> QED BY <1>1, QueriesInductive, PTL

(* A walk by offset misses nothing unless a session is deleted meanwhile.  *)
THEOREM OffsetWalks == QueriesSpec => []OffsetWalkIsComplete
<1>1. QueriesInv => OffsetWalkIsComplete
  BY DEF QueriesInv, NotReached, OffsetWalkIsComplete
<1> QED BY <1>1, QueriesInductive, PTL

(* What a walk may still get: the rows past its cursor or its offset.       *)
Remaining ==
    IF kind = "sessions" THEN {n \in Listed : n > position} ELSE {i \in want : Past(i)}

(* A page that is not the last takes the walk strictly on.                  *)
PageMovesOn ==
    FetchPage => over' \/ (Remaining' \subseteq Remaining /\ Remaining' # Remaining)

(* Inserts and deletions do not set it back.                                *)
NoneSetsBack ==
    kind # "idle" => over' \/ Remaining' \subseteq Remaining

LEMMA CursorMovesOn ==
    ASSUME QueriesInv, ByCursor, ~over, NEW page, PageTaken(page), ~over'
    PROVE  Remaining' \subseteq Remaining /\ Remaining' # Remaining
<1> USE DEF QueriesInv
<1>1. /\ page \subseteq Ahead /\ Ahead \subseteq Ids /\ kind \in {"pairs", "search"}
      /\ UNCHANGED <<kind, want>>
  BY AheadIsFinite DEF PageTaken, FirstRows, ByCursor
<1>2. PICK r \in page :
         /\ IsLast(kind, r, page)
         /\ position' = IF kind = "search" THEN SearchCursor(r) ELSE r
  BY DEF PageTaken
<1>3. r \in Ids /\ r \in want /\ Past(r) /\ want \subseteq Ids
  BY <1>1 DEF Ahead, QueriesTypeOK
<1>4. \A i \in Ids : Past(i)' <=> Precedes(kind, r, i)
  <2>1. position' # None
    BY <1>2, <1>3, QueriesAssumption DEF SearchCursor, Ids
  <2>2. CASE kind = "pairs"
    BY <1>1, <1>2, <2>1, <2>2 DEF Past, PastId, Precedes, Ids
  <2>3. CASE kind = "search"
    BY <1>1, <1>2, <2>1, <2>3 DEF Past, PastSearch, Precedes
  <2> QED BY <1>1, <2>2, <2>3
<1>5. ~Past(r)'
  BY <1>1, <1>3, <1>4, RowsOrdered
<1>6. ASSUME NEW i \in want, Past(i)' PROVE Past(i)
  <2>1. Precedes(kind, r, i)
    BY <1>3, <1>4, <1>6
  <2>2. CASE position = None
    BY <2>2 DEF Past, PastId, PastSearch
  <2>3. CASE position # None
    <3>1. PICK p \in Ids : position = IF kind = "search" THEN SearchCursor(p) ELSE p
      BY <2>3 DEF CursorOfRow
    <3> QED BY <1>1, <1>3, <2>1, <3>1, PastRow, RowsTransitive
  <2> QED BY <2>2, <2>3
<1>7. kind # "sessions" /\ kind' = kind /\ want' = want
  BY <1>1
<1>8. /\ Remaining = {i \in want : Past(i)} /\ Remaining' = {i \in want : Past(i)'}
  BY <1>7 DEF Remaining
<1> QED BY <1>3, <1>5, <1>6, <1>8

LEMMA OffsetMovesOn ==
    ASSUME QueriesInv, ListSessions, ~over'
    PROVE  Remaining' \subseteq Remaining /\ Remaining' # Remaining
<1> USE DEF QueriesInv
<1>1. kind = "sessions" /\ ~over /\ position \in Nat /\ limit \in Nat \ {0}
  BY DEF ListSessions, NotReached, QueriesTypeOK
<1>2. PICK skipped \in FirstRows("sessions", Here(sessions), position),
           upTo \in FirstRows("sessions", Here(sessions), position + limit) :
         TakePage(upTo \ skipped, NextOffset(upTo \ skipped))
  BY DEF ListSessions
<1> DEFINE page == upTo \ skipped
<1>3. Cardinality(page) = limit /\ position' = position + limit /\ kind' = kind
  BY <1>2 DEF TakePage, NextOffset
<1>4. skipped \subseteq Here(sessions) /\ upTo \subseteq Here(sessions)
  BY DEF FirstRows
<1>5. page # {}
  <2>1. Cardinality(page) # 0
    BY <1>1, <1>3
  <2> QED BY <2>1, FS_EmptySet
<1>6. position < Cardinality(Here(sessions))
  <2>1. PICK s \in page : s \in Here(sessions) /\ s \notin skipped
    BY <1>4, <1>5
  <2>2. IsFiniteSet(Here(sessions)) /\ Cardinality(Here(sessions)) \in Nat
    BY SessionsAreFinite, FS_CardinalityType
  <2>3. Cardinality(skipped) = position
    BY <1>1, <2>1, FirstSessions
  <2>4. skipped \subseteq Here(sessions) /\ skipped # Here(sessions)
    BY <1>4, <2>1
  <2>5. Cardinality(skipped) < Cardinality(Here(sessions))
    BY <2>2, <2>4, FS_Subset, FS_CardinalityType
  <2> QED BY <2>3, <2>5
<1>7. Cardinality(Here(sessions)) <= MaxSession
  <2>1. Here(sessions) \subseteq 1..MaxSession
    BY SessionsAreFinite DEF Listed
  <2>2. IsFiniteSet(1..MaxSession) /\ Cardinality(1..MaxSession) = MaxSession
    BY QueriesAssumption, FS_Interval
  <2> QED BY <2>1, <2>2, FS_Subset
<1>8. position < MaxSession
  <2>1. Cardinality(Here(sessions)) \in Nat
    BY SessionsAreFinite, FS_CardinalityType
  <2> QED BY <1>1, <1>6, <1>7, <2>1, QueriesAssumption
<1>9. position + 1 \in Remaining /\ position + 1 \notin Remaining'
  BY <1>1, <1>3, <1>8, QueriesAssumption DEF Remaining, Listed
<1>10. Remaining' \subseteq Remaining
  BY <1>1, <1>3 DEF Remaining, Listed
<1> QED BY <1>9, <1>10

(* Whatever limit the client asked for, a page that is not the last leaves *)
(* strictly less to come, and nothing inserted or deleted gives it back:   *)
(* a walk cannot go round in circles or stand still at a page.             *)
THEOREM PagesMoveOn == QueriesSpec => [][PageMovesOn /\ NoneSetsBack]_queryVars
<1>1. QueriesInv /\ [QueriesNext]_queryVars => PageMovesOn
  <2> SUFFICES ASSUME QueriesInv, FetchPage, ~over'
               PROVE  Remaining' \subseteq Remaining /\ Remaining' # Remaining
    BY DEF PageMovesOn
  <2> QED BY PageOfPairs, PageOfSearch, CursorMovesOn, OffsetMovesOn DEF FetchPage
<1>2. QueriesInv /\ [QueriesNext]_queryVars => NoneSetsBack
  <2> SUFFICES ASSUME QueriesInv, [QueriesNext]_queryVars, kind # "idle", ~over'
               PROVE  Remaining' \subseteq Remaining
    BY DEF NoneSetsBack
  <2>1. CASE FetchPage
    BY <1>1, <2>1 DEF PageMovesOn
  <2>2. CASE UNCHANGED walk
    BY <2>2 DEF Remaining, Past, PastId, PastSearch, walk
  <2>3. CASE \E k, matches, raw, first : Begin(k, matches, raw, first)
    BY <2>3 DEF Begin
  <2> QED
    BY <2>1, <2>2, <2>3
       DEF QueriesNext, CommitPair, CommitSession, Sweep, BeginSessions, BeginPairs,
           BeginSearch, queryVars
<1>3. QueriesInv /\ [QueriesNext]_queryVars => [PageMovesOn /\ NoneSetsBack]_queryVars
  BY <1>1, <1>2
<1> QED BY <1>3, QueriesInductive, PTL DEF QueriesSpec

-----------------------------------------------------------------------------
(***************************************************************************)
(* What the file of the sidecar says was announced, for any thresholds,    *)
(* counters and numbers of crashes.  Between two saves memory runs ahead   *)
(* of the file; the invariant says that what is ahead is in the queue of   *)
(* alerts or was sent.                                                     *)
(***************************************************************************)

(* Only while alerts are sent may memory differ from the file.              *)
InStep ==
    /\ pc \in {"poll", "sleep"} => mem = disk
    /\ pc # "send" => queue = {}

Word(on) == IF on THEN "raised" ELSE "recovered"

(* The queue has the right word for each rule, and whatever changed in      *)
(* memory only is queued or was the last thing sent.                        *)
ChangesQueued ==
    /\ \A a \in queue : a.rule \in Rules => a.text = Word(mem.active[a.rule])
    /\ pc = "send" =>
         \A r \in Rules : mem.active[r] # disk.active[r] =>
           told[r] = Word(mem.active[r]) \/ \E a \in queue : a.rule = r

(* One alert a counter at most, and it has what is not announced.           *)
IncreasesQueued ==
    /\ \A a, b \in queue : a.rule \in Counters /\ a.rule = b.rule => a = b
    /\ pc = "send" => \A c \in Counters :
         /\ \A a \in queue : a.rule = c =>
              announced[c] + a.text + mem.unreported[c] >= mem.due[c]
         /\ (\A a \in queue : a.rule # c) =>
              announced[c] + mem.unreported[c] >= mem.due[c]

RulesInv == RulesTypeOK /\ InStep /\ ChangesQueued /\ IncreasesQueued /\ IncreasesAnnounced

-----------------------------------------------------------------------------
(* evaluate.                                                               *)

LEMMA DeltaType ==
    ASSUME RulesTypeOK, NEW c \in Counters
    PROVE  Delta(mem, c) \in Nat
BY RulesAssumption DEF RulesTypeOK, States, Delta

LEMMA FiringType ==
    ASSUME RulesTypeOK, NEW r \in Rules
    PROVE  Firing(mem, r) \in BOOLEAN /\ mem.active[r] \in BOOLEAN
<1>1. Firing(mem, r) \in BOOLEAN
  <2>1. CASE r \in {"heartbeat", "stt_paused"}
    <3>1. Firing(mem, r) = (session /\ r \in trouble)
      BY <2>1 DEF Firing
    <3> QED BY <3>1
  <2>2. CASE r = "scrape_failed"
    <3>1. Firing(mem, r) = (Streak(mem) = 2)
      BY <2>2 DEF Firing
    <3> QED BY <3>1
  <2>3. CASE r \notin {"heartbeat", "stt_paused", "scrape_failed"}
    <3>1. Firing(mem, r) = (r \in trouble)
      BY <2>3 DEF Firing
    <3> QED BY <3>1
  <2> QED BY <2>1, <2>2, <2>3
<1>2. mem.active[r] \in BOOLEAN
  BY DEF RulesTypeOK, States
<1> QED BY <1>1, <1>2

LEMMA EvaluatedType ==
    ASSUME RulesTypeOK
    PROVE  Evaluated(mem) \in States
<1> DEFINE e == Evaluated(mem)
<1>1. e.active \in [Rules -> BOOLEAN]
  BY FiringType DEF Evaluated
<1>2. e.age \in [Rules -> 0 .. REMINDER]
  BY RulesAssumption DEF RulesTypeOK, States, Evaluated
<1>3. e.daily \in 0 .. DAILY
  BY RulesAssumption DEF RulesTypeOK, States, Evaluated
<1>4. e.known \in BOOLEAN /\ e.streak \in 0 .. 2
  <2>1. Known(mem) \in BOOLEAN
    BY DEF RulesTypeOK, States, Known
  <2>2. Streak(mem) \in 0 .. 2
    BY DEF RulesTypeOK, States, Streak
  <2> QED BY <2>1, <2>2 DEF Evaluated
<1>5. e.last \in [Counters -> Nat \cup {NoValue}]
  BY DEF RulesTypeOK, States, Evaluated
<1>6. e.cool \in [Counters -> 0 .. COOLDOWN]
  BY RulesAssumption DEF RulesTypeOK, States, Evaluated
<1>7. e.unreported \in [Counters -> Nat]
  BY DeltaType DEF RulesTypeOK, States, Evaluated, Accumulated
<1>8. e.due \in [Counters -> Nat]
  BY DeltaType DEF RulesTypeOK, States, Evaluated
<1>9. e = [active |-> e.active, age |-> e.age, daily |-> e.daily, known |-> e.known,
           streak |-> e.streak, last |-> e.last, cool |-> e.cool,
           unreported |-> e.unreported, due |-> e.due]
  BY DEF Evaluated
<1> HIDE DEF e
<1>10. e \in States
  BY <1>1, <1>2, <1>3, <1>4, <1>5, <1>6, <1>7, <1>8, <1>9, Zenon DEF States
<1> QED BY <1>10 DEF e

LEMMA OlderKeeps ==
    ASSUME NEW s \in States
    PROVE  /\ Older(s) \in States
           /\ Older(s).active = s.active
           /\ Older(s).unreported = s.unreported
           /\ Older(s).due = s.due
<1>1. [r \in Rules |-> IF s.age[r] = REMINDER THEN s.age[r] ELSE s.age[r] + 1]
        \in [Rules -> 0 .. REMINDER]
  BY RulesAssumption DEF States
<1>2. (IF s.daily = DAILY THEN s.daily ELSE s.daily + 1) \in 0 .. DAILY
  BY RulesAssumption DEF States
<1>3. [c \in Counters |-> IF s.cool[c] = COOLDOWN THEN s.cool[c] ELSE s.cool[c] + 1]
        \in [Counters -> 0 .. COOLDOWN]
  BY RulesAssumption DEF States
<1> QED BY <1>1, <1>2, <1>3 DEF States, Older

-----------------------------------------------------------------------------
LEMMA RulesInitInv ==
    ASSUME RulesInit
    PROVE  RulesInv
<1>1. NoState \in States
  BY RulesAssumption DEF NoState, States
<1>2. RulesTypeOK
  BY <1>1, RulesAssumption DEF RulesInit, RulesTypeOK
<1>3. InStep /\ ChangesQueued /\ IncreasesQueued
  BY DEF RulesInit, InStep, ChangesQueued, IncreasesQueued
<1>4. IncreasesAnnounced
  BY DEF RulesInit, IncreasesAnnounced, NoState
<1> QED BY <1>2, <1>3, <1>4 DEF RulesInv

(* The services move nothing of the sidecar.                                *)
LEMMA WorldKeeps ==
    ASSUME RulesInv,
           SessionChanges \/ ScrapeChanges \/ (\E r \in Rules : MetricChanges(r))
             \/ CountersReset \/ (\E c \in Counters : Counts(c))
    PROVE  RulesInv' /\ UNCHANGED <<loop, hist>>
<1>1. UNCHANGED <<loop, hist>>
  BY DEF SessionChanges, ScrapeChanges, MetricChanges, CountersReset, Counts
<1>2. RulesTypeOK'
  <2>1. session' \in BOOLEAN /\ up' \in BOOLEAN /\ suspects' = suspects
    BY DEF RulesInv, RulesTypeOK, SessionChanges, ScrapeChanges, MetricChanges, CountersReset, Counts
  <2>2. trouble' \subseteq Rules
    BY DEF RulesInv, RulesTypeOK, SessionChanges, ScrapeChanges, MetricChanges, CountersReset, Counts
  <2>3. value' \in [Counters -> Nat] /\ resets' \in 0 .. MaxResets
    BY RulesAssumption
       DEF RulesInv, RulesTypeOK, SessionChanges, ScrapeChanges, MetricChanges, CountersReset, Counts
  <2> QED BY <2>1, <2>2, <2>3, <1>1 DEF RulesInv, RulesTypeOK, loop, hist
<1>3. InStep' /\ ChangesQueued' /\ IncreasesQueued' /\ IncreasesAnnounced'
  BY <1>1 DEF RulesInv, InStep, ChangesQueued, IncreasesQueued, IncreasesAnnounced, loop, hist
<1> QED BY <1>1, <1>2, <1>3 DEF RulesInv

(* The three ways an alert of a poll comes about.                           *)
LEMMA QueuedByPoll ==
    ASSUME Poll, NEW a \in queue'
    PROVE  \/ a.rule \in Raised(mem) /\ a.text = "raised"
           \/ a.rule \in Recovered(mem) /\ a.text = "recovered"
           \/ /\ a.rule \in Reported(mem)
              /\ a = [rule |-> a.rule, text |-> Accumulated(mem, a.rule)]
BY DEF Poll

LEMMA PollKeeps ==
    ASSUME RulesInv, Poll
    PROVE  RulesInv'
<1> USE DEF RulesInv
<1>1. mem = disk /\ mem' = Evaluated(mem) /\ UNCHANGED <<disk, told, announced>>
  BY DEF Poll, InStep, hist
<1>2. RulesTypeOK'
  <2>1. queue' \subseteq Alerts
    <3>1. \A c \in Reported(mem) : c \in Counters /\ Accumulated(mem, c) \in Nat
      BY DeltaType DEF Reported, Accumulated, RulesTypeOK, States
    <3> QED BY <3>1 DEF Poll, Alerts, Raised, Recovered
  <2> QED BY <2>1, EvaluatedType DEF RulesTypeOK, Poll, world, hist
<1>3. InStep'
  BY DEF Poll, InStep
<1>4. ChangesQueued'
  <2>1. ASSUME NEW a \in queue', a.rule \in Rules
        PROVE  a.text = Word(mem'.active[a.rule])
    <3>1. a.rule \notin Reported(mem)
      BY <2>1, RulesAssumption DEF Reported
    <3>2. CASE a.rule \in Raised(mem) /\ a.text = "raised"
      BY <3>2, <2>1, <1>1 DEF Raised, Evaluated, Word
    <3>3. CASE a.rule \in Recovered(mem) /\ a.text = "recovered"
      BY <3>3, <2>1, <1>1 DEF Recovered, Evaluated, Word
    <3> QED BY <3>1, <3>2, <3>3, QueuedByPoll
  <2>2. ASSUME NEW r \in Rules, mem'.active[r] # disk'.active[r]
        PROVE  \E a \in queue' : a.rule = r
    <3>1. Judged(mem, r) /\ Firing(mem, r) # mem.active[r]
      BY <2>2, <1>1 DEF Evaluated
    <3>2. Firing(mem, r) \in BOOLEAN /\ mem.active[r] \in BOOLEAN
      BY FiringType
    <3>3. CASE Firing(mem, r)
      <4>1. r \in Raised(mem)
        BY <3>1, <3>2, <3>3 DEF Raised, MustRaise
      <4>2. [rule |-> r, text |-> "raised"] \in queue'
        BY <4>1 DEF Poll
      <4> QED BY <4>2
    <3>4. CASE ~Firing(mem, r)
      <4>1. r \in Recovered(mem)
        BY <3>1, <3>2, <3>4 DEF Recovered
      <4>2. [rule |-> r, text |-> "recovered"] \in queue'
        BY <4>1 DEF Poll
      <4> QED BY <4>2
    <3> QED BY <3>3, <3>4, <3>2
  <2> QED BY <2>1, <2>2 DEF ChangesQueued
<1>5. IncreasesQueued'
  <2>1. ASSUME NEW a \in queue', a.rule \in Counters
        PROVE  /\ a.rule \in Reported(mem)
               /\ a = [rule |-> a.rule, text |-> Accumulated(mem, a.rule)]
    BY <2>1, QueuedByPoll, RulesAssumption DEF Raised, Recovered
  <2>2. ASSUME NEW c \in Counters
        PROVE  /\ mem'.due[c] = mem.due[c] + Delta(mem, c)
               /\ mem'.unreported[c] =
                    IF c \in Reported(mem) THEN 0 ELSE mem.unreported[c] + Delta(mem, c)
               /\ announced[c] + mem.unreported[c] >= mem.due[c]
    BY <1>1, DeltaType DEF Evaluated, Accumulated, IncreasesAnnounced, RulesTypeOK, States
  <2>3. ASSUME NEW c \in Counters, NEW a \in queue', a.rule = c
        PROVE  announced'[c] + a.text + mem'.unreported[c] >= mem'.due[c]
    <3>1. c \in Reported(mem) /\ a.text = mem.unreported[c] + Delta(mem, c)
      BY <2>1, <2>3 DEF Accumulated
    <3> QED BY <3>1, <2>2, <1>1, DeltaType DEF RulesTypeOK, States
  <2>4. ASSUME NEW c \in Counters, \A a \in queue' : a.rule # c
        PROVE  announced'[c] + mem'.unreported[c] >= mem'.due[c]
    <3>1. c \notin Reported(mem)
      <4>1. c \in Reported(mem) =>
              [rule |-> c, text |-> Accumulated(mem, c)] \in queue'
        BY DEF Poll
      <4> QED BY <4>1, <2>4
    <3> QED BY <3>1, <2>2, <1>1, DeltaType DEF RulesTypeOK, States
  <2> QED BY <2>1, <2>3, <2>4 DEF IncreasesQueued
<1>6. IncreasesAnnounced'
  BY <1>1 DEF IncreasesAnnounced
<1> QED BY <1>2, <1>3, <1>4, <1>5, <1>6

LEMMA SendKeeps ==
    ASSUME RulesInv, NEW a \in queue, NEW arrives \in BOOLEAN, Send(a, arrives)
    PROVE  RulesInv'
<1> USE DEF RulesInv
<1>1. /\ pc = "send" /\ queue' = queue \ {a}
      /\ UNCHANGED <<world, pc, mem, disk, crashes>>
  BY DEF Send
<1>2. \/ a.rule \in Rules /\ a.text \in {"raised", "recovered"}
      \/ a.rule \in Counters /\ a.text \in Nat
  BY DEF RulesTypeOK, Alerts
<1>3. CASE a.rule \in Rules
  <2>1. /\ told' = [told EXCEPT ![a.rule] = a.text] /\ announced' = announced
        /\ heard' \in [Rules -> {"nothing", "raised", "recovered"}]
    BY <1>2, <1>3, RulesAssumption DEF Send, RulesTypeOK
  <2>2. RulesTypeOK'
    <3>1. lost' \in 0 .. MaxLost
      BY RulesAssumption DEF Send, RulesTypeOK
    <3>2. told' \in [Rules -> {"nothing", "raised", "recovered"}]
      BY <2>1, <1>2, <1>3, RulesAssumption DEF RulesTypeOK
    <3> QED BY <1>1, <2>1, <3>1, <3>2 DEF RulesTypeOK, world
  <2>3. ChangesQueued'
    BY <1>1, <1>3, <2>1 DEF ChangesQueued, RulesTypeOK
  <2>4. IncreasesQueued'
    <3>1. \A c \in Counters : a.rule # c
      BY <1>3, RulesAssumption
    <3> QED BY <1>1, <2>1, <3>1 DEF IncreasesQueued
  <2> QED BY <1>1, <2>1, <2>2, <2>3, <2>4 DEF InStep, IncreasesAnnounced
<1>4. CASE a.rule \in Counters
  <2>1. /\ announced' = [announced EXCEPT ![a.rule] = @ + a.text]
        /\ told' = told /\ heard' = heard
    BY <1>4, RulesAssumption DEF Send
  <2>2. a.text \in Nat /\ announced' \in [Counters -> Nat]
    BY <2>1, <1>2, <1>4, RulesAssumption DEF RulesTypeOK
  <2>3. RulesTypeOK'
    <3>1. lost' \in 0 .. MaxLost
      BY RulesAssumption DEF Send, RulesTypeOK
    <3> QED BY <1>1, <2>1, <2>2, <3>1 DEF RulesTypeOK, world
  <2>4. ChangesQueued'
    <3>1. a.rule \notin Rules
      BY <1>4, RulesAssumption
    <3> QED BY <1>1, <2>1, <3>1 DEF ChangesQueued
  <2>5. \A c \in Counters : announced'[c] >= announced[c]
    BY <2>1, <2>2 DEF RulesTypeOK
  <2>6. IncreasesQueued'
    <3>1. ASSUME NEW c \in Counters, NEW b \in queue', b.rule = c
          PROVE  announced'[c] + b.text + mem'.unreported[c] >= mem'.due[c]
      <4>1. b.text \in Nat
        BY <1>1, <3>1, RulesAssumption DEF RulesTypeOK, Alerts
      <4>2. announced[c] + b.text + mem.unreported[c] >= mem.due[c]
        BY <1>1, <3>1 DEF IncreasesQueued
      <4> QED BY <4>1, <4>2, <2>2, <2>5, <1>1 DEF RulesTypeOK, States
    <3>2. ASSUME NEW c \in Counters, \A b \in queue' : b.rule # c
          PROVE  announced'[c] + mem'.unreported[c] >= mem'.due[c]
      <4>1. CASE a.rule = c
        <5>1. announced[c] + a.text + mem.unreported[c] >= mem.due[c]
          BY <4>1, <1>1 DEF IncreasesQueued
        <5> QED BY <5>1, <4>1, <2>1, <2>2, <1>1 DEF RulesTypeOK, States
      <4>2. CASE a.rule # c
        <5>1. announced[c] + mem.unreported[c] >= mem.due[c]
          BY <3>2, <4>2, <1>1 DEF IncreasesQueued
        <5> QED BY <5>1, <2>2, <2>5, <1>1 DEF RulesTypeOK, States
      <4> QED BY <4>1, <4>2
    <3>3. \A b, d \in queue' : b.rule \in Counters /\ b.rule = d.rule => b = d
      BY <1>1 DEF IncreasesQueued
    <3> QED BY <3>1, <3>2, <3>3 DEF IncreasesQueued
  <2>7. IncreasesAnnounced'
    BY <1>1, <2>2, <2>5 DEF IncreasesAnnounced, RulesTypeOK, States
  <2> QED BY <1>1, <2>3, <2>4, <2>6, <2>7 DEF InStep
<1> QED BY <1>2, <1>3, <1>4

LEMMA SaveKeeps ==
    ASSUME RulesInv, Save
    PROVE  RulesInv'
<1> USE DEF RulesInv
<1>1. /\ pc = "send" /\ pc' = "sleep" /\ queue = {} /\ queue' = {}
      /\ disk' = mem /\ UNCHANGED <<world, mem, hist>>
  BY DEF Save, AllSent
<1>2. RulesTypeOK'
  BY <1>1 DEF RulesTypeOK, world, hist
<1>3. InStep' /\ ChangesQueued' /\ IncreasesQueued'
  BY <1>1 DEF InStep, ChangesQueued, IncreasesQueued
<1>4. IncreasesAnnounced'
  BY <1>1 DEF IncreasesQueued, IncreasesAnnounced, hist
<1> QED BY <1>2, <1>3, <1>4

(* What sleeping, dying and starting again have in common.                  *)
LEMMA RestKeeps ==
    ASSUME RulesInv, Sleep \/ Crash \/ (\E later \in BOOLEAN : Boot(later))
    PROVE  /\ RulesInv'
           /\ disk'.active = disk.active
<1> USE DEF RulesInv
<1>1. /\ pc' # "send" /\ queue' = {}
      /\ UNCHANGED <<world, told, heard, announced, lost>>
  BY DEF Sleep, Crash, Boot, InStep, hist
<1>2. /\ disk' \in States /\ disk'.active = disk.active
      /\ disk'.unreported = disk.unreported /\ disk'.due = disk.due
  BY OlderKeeps DEF Sleep, Crash, Boot, RulesTypeOK
<1>3. mem' \in States /\ (pc' \in {"poll", "sleep"} => mem' = disk')
  BY <1>2, OlderKeeps DEF Sleep, Crash, Boot, RulesTypeOK, InStep
<1>4. RulesTypeOK'
  <2>1. pc' \in {"poll", "down"} /\ crashes' \in 0 .. MaxCrashes
    BY RulesAssumption DEF RulesTypeOK, Sleep, Crash, Boot, hist
  <2> QED BY <1>1, <1>2, <1>3, <2>1 DEF RulesTypeOK, world
<1>5. InStep' /\ ChangesQueued' /\ IncreasesQueued'
  BY <1>1, <1>3 DEF InStep, ChangesQueued, IncreasesQueued
<1>6. IncreasesAnnounced'
  BY <1>1, <1>2 DEF IncreasesAnnounced
<1> QED BY <1>2, <1>4, <1>5, <1>6

LEMMA RulesStutterKeeps ==
    ASSUME RulesInv, UNCHANGED ruleVars
    PROVE  RulesInv'
BY DEF RulesInv, RulesTypeOK, InStep, ChangesQueued, IncreasesQueued, IncreasesAnnounced,
       ruleVars, world, loop, hist

LEMMA RulesNextKeeps ==
    ASSUME RulesInv, [RulesNext]_ruleVars
    PROVE  RulesInv'
BY WorldKeeps, PollKeeps, SendKeeps, SaveKeeps, RestKeeps, RulesStutterKeeps DEF RulesNext, Main

THEOREM RulesInductive == RulesSpec => []RulesInv
BY RulesInitInv, RulesNextKeeps, PTL DEF RulesSpec

-----------------------------------------------------------------------------
(* The variables keep their types.                                         *)
THEOREM RulesTypeCorrect == RulesSpec => []RulesTypeOK
BY RulesInductive, PTL DEF RulesInv

(* Every increase the file has observed was announced or is kept in it for *)
(* the next alert.                                                         *)
THEOREM IncreasesAreAnnounced == RulesSpec => []IncreasesAnnounced
BY RulesInductive, PTL DEF RulesInv

(* A rule changes in the file only when the alert about it was sent.       *)
THEOREM ChangesAreAnnounced == RulesSpec => ChangeIsAnnounced
<1> DEFINE Announced ==
             \A r \in Rules : disk'.active[r] # disk.active[r] =>
               told[r] = IF disk'.active[r] THEN "raised" ELSE "recovered"
<1>1. ASSUME RulesInv, [RulesNext]_ruleVars PROVE [Announced]_ruleVars
  <2>1. CASE Save
    <3>1. pc = "send" /\ queue = {} /\ disk' = mem
      BY <2>1 DEF Save, AllSent
    <3> QED BY <1>1, <3>1 DEF RulesInv, ChangesQueued, Word
  <2>2. CASE Poll \/ \E a \in queue, arrives \in BOOLEAN : Send(a, arrives)
    <3>1. disk' = disk
      BY <2>2 DEF Poll, Send
    <3> QED BY <3>1
  <2>3. CASE Sleep \/ Crash \/ (\E later \in BOOLEAN : Boot(later))
    <3>1. disk'.active = disk.active
      BY <1>1, <2>3, RestKeeps
    <3> QED BY <3>1
  <2>4. CASE SessionChanges \/ ScrapeChanges \/ (\E r \in Rules : MetricChanges(r))
               \/ CountersReset \/ (\E c \in Counters : Counts(c))
    <3>1. disk' = disk
      BY <1>1, <2>4, WorldKeeps DEF loop
    <3> QED BY <3>1
  <2>5. CASE UNCHANGED ruleVars
    BY <2>5
  <2> QED BY <1>1, <2>1, <2>2, <2>3, <2>4, <2>5 DEF RulesNext, Main
<1>2. RulesInv /\ [RulesNext]_ruleVars => [Announced]_ruleVars
  BY <1>1
<1> QED BY <1>2, RulesInductive, PTL DEF RulesSpec, ChangeIsAnnounced
================================================================================
