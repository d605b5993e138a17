----------------------------- MODULE MonitorRules -----------------------------
(***************************************************************************)
(* The alert sidecar (infra/monitor/monitor.py): it polls the metrics of   *)
(* the services, judges rules about them, sends what changed to a chat and *)
(* saves the state of its rules, from which it goes on after a restart.    *)
(*                                                                         *)
(* Time is counted in polls.  The code compares it only with thresholds,   *)
(* so what the state keeps of a time is its age, which stops growing at    *)
(* the threshold.  Alerts of one poll are sent in any order.               *)
(***************************************************************************)
EXTENDS Integers, FiniteSets

CONSTANTS
    REMINDER, DAILY, COOLDOWN,   \* REMINDER_SECONDS, ... in polls
    Counters,    \* COUNTER_RULES
    Scenarios,   \* bound: sets of rules whose metrics change in one behaviour
    MaxCount,    \* bound: increases of the counters
    MaxResets,   \* bound: restarts of the services, which reset them
    MaxCrashes,  \* bound: restarts of the sidecar
    MaxLost,     \* bound: alerts the chat does not accept
    NoValue

(* CONDITION_RULES: the gate of each.                                       *)
Gate == [heartbeat          |-> "always",
         stt_paused         |-> "always",
         nats_down          |-> "active",
         scrape_failed      |-> "last_known_active",
         rtmp_auth_disabled |-> "daily"]

Rules == DOMAIN Gate

ASSUME RulesAssumption ==
    /\ REMINDER \in Nat \ {0} /\ DAILY \in Nat \ {0} /\ COOLDOWN \in Nat \ {0}
    /\ Scenarios \subseteq SUBSET (Rules \cup Counters)
    /\ Counters \cap Rules = {} /\ NoValue \notin Nat
    /\ MaxCount \in Nat /\ MaxResets \in Nat
    /\ MaxCrashes \in Nat /\ MaxLost \in Nat

VARIABLES
    suspects,    \* the rules whose metrics change in this behaviour
    session, up, \* a session is active; every service answers a scrape
    trouble,     \* rules whose metric is bad
    value,       \* the metric of each counter
    pc,          \* main: "poll", "send", "sleep", or "down"
    mem, disk,   \* the state of the rules: in memory, and in the file
    queue,       \* alerts of this poll that are not sent yet
    told,        \* history: the last alert of each rule that was sent
    heard,       \* history: the last one that arrived
    announced,   \* history: the increases of each counter in alerts sent
    resets, crashes, lost

world == <<suspects, session, up, trouble, value, resets>>
loop  == <<pc, mem, disk, queue>>
hist  == <<told, heard, announced, crashes, lost>>
ruleVars == <<world, loop, hist>>

(* due is history: the increases while a session was active, as far as this *)
(* state has observed them.                                                 *)
States ==
    [active : [Rules -> BOOLEAN], age : [Rules -> 0..REMINDER],
     daily : 0..DAILY, known : BOOLEAN, streak : 0..2,
     last : [Counters -> Nat \cup {NoValue}], cool : [Counters -> 0..COOLDOWN],
     unreported : [Counters -> Nat], due : [Counters -> Nat]]

Alerts == [rule : Rules, text : {"raised", "recovered"}]
          \cup [rule : Counters, text : Nat]

RulesTypeOK ==
    /\ suspects \in Scenarios /\ session \in BOOLEAN /\ up \in BOOLEAN
    /\ trouble \subseteq Rules /\ value \in [Counters -> Nat]
    /\ pc \in {"poll", "send", "sleep", "down"}
    /\ mem \in States /\ disk \in States /\ queue \subseteq Alerts
    /\ told \in [Rules -> {"nothing", "raised", "recovered"}]
    /\ heard \in [Rules -> {"nothing", "raised", "recovered"}]
    /\ announced \in [Counters -> Nat]
    /\ resets \in 0..MaxResets /\ crashes \in 0..MaxCrashes /\ lost \in 0..MaxLost

(* load_state without a file: every time is 0, so every age is reached.     *)
NoState ==
    [active |-> [r \in Rules |-> FALSE], age |-> [r \in Rules |-> REMINDER],
     daily |-> DAILY, known |-> FALSE, streak |-> 0,
     last |-> [c \in Counters |-> NoValue], cool |-> [c \in Counters |-> COOLDOWN],
     unreported |-> [c \in Counters |-> 0], due |-> [c \in Counters |-> 0]]

RulesInit ==
    /\ suspects \in Scenarios
    /\ session \in BOOLEAN /\ up = TRUE /\ trouble = {}
    /\ value = [c \in Counters |-> 0]
    /\ pc = "poll" /\ mem = NoState /\ disk = NoState /\ queue = {}
    /\ told = [r \in Rules |-> "nothing"] /\ heard = told
    /\ announced = [c \in Counters |-> 0]
    /\ resets = 0 /\ crashes = 0 /\ lost = 0

-----------------------------------------------------------------------------
(* The services.                                                            *)
SessionChanges ==
    /\ session' = ~session
    /\ UNCHANGED <<suspects, up, trouble, value, resets, loop, hist>>

ScrapeChanges ==
    /\ "scrape_failed" \in suspects /\ up' = ~up
    /\ UNCHANGED <<suspects, session, trouble, value, resets, loop, hist>>

MetricChanges(r) ==
    /\ r \in (suspects \cap Rules) \ {"scrape_failed"}
    /\ trouble' = IF r \in trouble THEN trouble \ {r} ELSE trouble \cup {r}
    /\ UNCHANGED <<suspects, session, up, value, resets, loop, hist>>

Counts(c) ==
    /\ c \in suspects /\ value[c] < MaxCount
    /\ value' = [value EXCEPT ![c] = @ + 1]
    /\ UNCHANGED <<suspects, session, up, trouble, resets, loop, hist>>

CountersReset ==
    /\ resets < MaxResets /\ resets' = resets + 1
    /\ value' = [c \in Counters |-> 0]
    /\ UNCHANGED <<suspects, session, up, trouble, loop, hist>>

-----------------------------------------------------------------------------
(* evaluate: what is known of the services ...                              *)
Streak(s) == IF up THEN 0 ELSE IF s.streak = 2 THEN 2 ELSE s.streak + 1
Known(s)  == IF up THEN session ELSE s.known
DailyDue(s) == up /\ s.daily = DAILY

(* ... which rules are judged at this poll ...                              *)
Judged(s, r) ==
    CASE Gate[r] = "always"            -> up
      [] Gate[r] = "active"            -> up /\ (session \/ DailyDue(s))
      [] Gate[r] = "last_known_active" -> Known(s)
      [] Gate[r] = "daily"             -> DailyDue(s)

Firing(s, r) ==
    CASE r \in {"heartbeat", "stt_paused"} -> session /\ r \in trouble
      [] r = "scrape_failed"               -> Streak(s) = 2
      [] OTHER                             -> r \in trouble

(* Mutant: an active rule is never reminded of.                             *)
Unreminded(s, r) == ~s.active[r]

(* A rule that fires is announced when it begins to, and again after        *)
(* REMINDER, or every day for a daily one.                                  *)
MustRaise(s, r) ==
    ~s.active[r] \/ Gate[r] = "daily" \/ s.age[r] = REMINDER

Raised(s)    == {r \in Rules : Judged(s, r) /\ Firing(s, r) /\ MustRaise(s, r)}
Recovered(s) == {r \in Rules : Judged(s, r) /\ ~Firing(s, r) /\ s.active[r]}

(* ... and which counters have increased during a session.                  *)
Delta(s, c) ==
    IF up /\ session /\ s.last[c] # NoValue /\ value[c] > s.last[c]
    THEN value[c] - s.last[c] ELSE 0

(* Mutant: an increase replaces those of the cool-down.                     *)
LatestOnly(s, c) == Delta(s, c)

Accumulated(s, c) == s.unreported[c] + Delta(s, c)

Reported(s) == {c \in Counters : Delta(s, c) > 0 /\ s.cool[c] = COOLDOWN}

Evaluated(s) ==
    [active |-> [r \in Rules |-> IF Judged(s, r) THEN Firing(s, r) ELSE s.active[r]],
     age    |-> [r \in Rules |-> IF r \in Raised(s) THEN 0 ELSE s.age[r]],
     daily  |-> IF DailyDue(s) THEN 0 ELSE s.daily,
     known  |-> Known(s), streak |-> Streak(s),
     last   |-> IF up THEN value ELSE s.last,
     cool   |-> [c \in Counters |-> IF c \in Reported(s) THEN 0 ELSE s.cool[c]],
     unreported |-> [c \in Counters |->
                       IF c \in Reported(s) THEN 0
                       ELSE IF Delta(s, c) > 0 THEN Accumulated(s, c)
                       ELSE s.unreported[c]],
     due    |-> [c \in Counters |-> s.due[c] + Delta(s, c)]]

Poll ==
    /\ pc = "poll" /\ pc' = "send"
    /\ mem' = Evaluated(mem)
    /\ queue' = [rule : Raised(mem), text : {"raised"}]
                \cup [rule : Recovered(mem), text : {"recovered"}]
                \cup {[rule |-> c, text |-> Accumulated(mem, c)] : c \in Reported(mem)}
    /\ UNCHANGED <<world, disk, hist>>

(* send_discord: what the chat does not accept is given up.                 *)
Send(a, arrives) ==
    /\ pc = "send" /\ a \in queue /\ queue' = queue \ {a}
    /\ IF arrives THEN UNCHANGED lost ELSE lost < MaxLost /\ lost' = lost + 1
    /\ IF a.rule \in Rules
       THEN /\ told' = [told EXCEPT ![a.rule] = a.text]
            /\ heard' = IF arrives THEN [heard EXCEPT ![a.rule] = a.text] ELSE heard
            /\ UNCHANGED announced
       ELSE /\ announced' = [announced EXCEPT ![a.rule] = @ + a.text]
            /\ UNCHANGED <<told, heard>>
    /\ UNCHANGED <<world, pc, mem, disk, crashes>>

(* Mutant: the state is saved before the alerts are sent.                   *)
SavedFirst == TRUE

AllSent == queue = {}

(* save_state replaces the file at once.                                    *)
Save ==
    /\ pc = "send" /\ AllSent
    /\ pc' = "sleep" /\ disk' = mem /\ queue' = {}
    /\ UNCHANGED <<world, mem, hist>>

Older(s) ==
    [s EXCEPT !.age   = [r \in Rules |-> IF @[r] = REMINDER THEN @[r] ELSE @[r] + 1],
              !.daily = IF @ = DAILY THEN @ ELSE @ + 1,
              !.cool  = [c \in Counters |-> IF @[c] = COOLDOWN THEN @[c] ELSE @[c] + 1]]

Sleep ==
    /\ pc = "sleep" /\ pc' = "poll"
    /\ mem' = Older(mem) /\ disk' = Older(disk)
    /\ UNCHANGED <<world, queue, hist>>

(* The sidecar dies between any two steps, and is started again.            *)
Crash ==
    /\ pc # "down" /\ pc' = "down"
    /\ crashes < MaxCrashes /\ crashes' = crashes + 1
    /\ queue' = {}
    /\ UNCHANGED <<world, mem, disk, told, heard, announced, lost>>

Boot(later) ==
    /\ pc = "down" /\ pc' = "poll"
    /\ disk' = IF later THEN Older(disk) ELSE disk
    /\ mem' = disk'
    /\ UNCHANGED <<world, queue, hist>>

Main ==
    \/ Poll \/ Save \/ Sleep \/ \E later \in BOOLEAN : Boot(later)
    \/ \E a \in queue, arrives \in BOOLEAN : Send(a, arrives)

RulesNext ==
    \/ SessionChanges \/ ScrapeChanges \/ \E r \in Rules : MetricChanges(r)
    \/ CountersReset \/ \E c \in Counters : Counts(c)
    \/ Main \/ Crash

RulesSpec == RulesInit /\ [][RulesNext]_ruleVars

(* The loop never stops for good: the container is restarted when it died.  *)
RulesFairSpec == RulesSpec /\ WF_ruleVars(Main)

-----------------------------------------------------------------------------
(* A rule changes in the file only after the alert about the change was     *)
(* sent: a crash may repeat an alert, but none is skipped.                  *)
ChangeIsAnnounced ==
    [][\A r \in Rules :
         disk'.active[r] # disk.active[r] =>
           told[r] = IF disk'.active[r] THEN "raised" ELSE "recovered"]_ruleVars

(* Every increase of a counter during a session that the saved state has    *)
(* observed was in an alert or is still to be reported, whatever crashed    *)
(* and however often the services restarted.                                *)
IncreasesAnnounced ==
    \A c \in Counters : announced[c] + disk.unreported[c] >= disk.due[c]

Persists(r) ==
    IF r = "scrape_failed" THEN ~up /\ mem.known
    ELSE up /\ session /\ r \in trouble

(* A trouble that lasts is heard of, though alerts get lost and the sidecar *)
(* crashes between sending and saving.                                      *)
TroubleIsHeard ==
    \A r \in Rules : <>[]Persists(r) => <>[](heard[r] = "raised")
=============================================================================
