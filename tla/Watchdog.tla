------------------------------ MODULE Watchdog ------------------------------
(***************************************************************************)
(* Sentry's dead-man's switch: HeartbeatWatchdog of transport/heartbeat.py *)
(* under the WatchdogManager of sentry/app/watchdog.py, driven by three    *)
(* parties of sentry/app/main.py:                                          *)
(*   - POST /heartbeat, on the event loop, restores an agent to HEALTHY;   *)
(*   - _watchdog_loop, on the event loop, wakes every second, evaluates    *)
(*     every agent and broadcasts those whose state changed;               *)
(*   - GET /watchdog, on a thread of the pool, evaluates every agent too.  *)
(* The first two never run inside each other.  The thread shares no lock   *)
(* with them: it may stop between reading a field and writing one.         *)
(*                                                                         *)
(* One clock stands for the monotonic and the UTC clock; a tick is the     *)
(* period of the loop.                                                     *)
(***************************************************************************)
EXTENDS Naturals, FiniteSets

CONSTANTS
  Agents,
  HEARTBEAT_INTERVAL, MISSED_HEARTBEAT_LIMIT,  \* 5 s and 3 in the code
  CORRELATION_WINDOW,                          \* 120 s in the code
  None,      \* no intrusion recorded; no agent under way
  MaxClock   \* bound: ticks

ASSUME WatchdogAssumption ==
  /\ HEARTBEAT_INTERVAL \in Nat \ {0}
  /\ MISSED_HEARTBEAT_LIMIT \in Nat \ {0}
  /\ CORRELATION_WINDOW \in Nat
  /\ MaxClock \in Nat
  /\ None \notin Agents \cup Nat

VARIABLES
  clock,
  known,     \* the keys of _agents
  state,     \* each agent's HeartbeatWatchdog._state
  last,      \* each agent's _last_observed_monotonic
  reported,  \* each agent's reported_state
  said,      \* the last status of each agent that was broadcast
  intrusion, \* created_at of the newest incident in the vault
  loop,      \* where _watchdog_loop is
  failed,    \* history: rounds of the loop that have failed since one succeeded
  reader     \* where GET /watchdog is

agentVars == <<known, state, last, reported>>
vars == <<clock, agentVars, said, intrusion, loop, failed, reader>>

States == {"HEALTHY", "TELEMETRY_LOSS"}

Dispositions == {"none", "operational_warning", "candidate_category_ii"}

Asleep == [step |-> "sleep", polled |-> TRUE]

Idle == [step |-> "idle"]

TypeOK ==
  /\ clock \in 0..MaxClock
  /\ known \subseteq Agents
  /\ state \in [Agents -> States]
  /\ last \in [Agents -> 0..clock]
  /\ reported \in [Agents -> States]
  /\ said \in [Agents -> [state: States, disposition: Dispositions]]
  /\ \A a \in Agents : (said[a].state = "TELEMETRY_LOSS") <=> (said[a].disposition # "none")
  /\ intrusion \in 0..clock \cup {None}
  /\ loop.step \in {"sleep", "status", "report"}
  /\ failed \in Nat
  /\ loop.step # "sleep" => loop.left \subseteq known /\ loop.latest \in 0..clock \cup {None}
  /\ reader.step \in {"idle", "snapshot", "check", "mark", "count", "assess"}
  /\ reader.step \in {"check", "mark", "count", "assess"} =>
       reader.now <= clock /\ reader.left \subseteq reader.keys /\ reader.keys \subseteq known

Init ==
  /\ clock = 0
  /\ known = {}
  /\ state = [a \in Agents |-> "HEALTHY"]
  /\ last = [a \in Agents |-> 0]
  /\ reported = [a \in Agents |-> "HEALTHY"]
  /\ said = [a \in Agents |-> [state |-> "HEALTHY", disposition |-> "none"]]
  /\ intrusion = None
  /\ loop = Asleep
  /\ failed = 0
  /\ reader = Idle
-----------------------------------------------------------------------------
(* HeartbeatWatchdog.                                                      *)

\* Seeded fault: the limit is reached one interval late.
Missed_Strict(a, now) == (now - last[a]) \div HEARTBEAT_INTERVAL > MISSED_HEARTBEAT_LIMIT

\* missed_heartbeats(now) >= missed_heartbeat_limit, for a clock that has not
\* gone back.
Missed(a, now) == (now - last[a]) \div HEARTBEAT_INTERVAL >= MISSED_HEARTBEAT_LIMIT

\* Seeded fault: the age of the evidence is not bounded.
Disposition_Ageless(latest, now) ==
  IF latest # None THEN "candidate_category_ii" ELSE "operational_warning"

\* assess_telemetry_loss for evidence not newer than the loss.
Disposition(latest, now) ==
  IF latest # None /\ now - latest <= CORRELATION_WINDOW
  THEN "candidate_category_ii" ELSE "operational_warning"

\* What evaluate leaves in _state.
Evaluated(a, now) == IF Missed(a, now) THEN "TELEMETRY_LOSS" ELSE state[a]

Status(st, latest, now) ==
  [state |-> st,
   disposition |-> IF st = "TELEMETRY_LOSS" THEN Disposition(latest, now) ELSE "none"]
-----------------------------------------------------------------------------
(* The event loop: heartbeats and the evaluator.                           *)

\* POST /heartbeat of an accepted beat: start() for a new agent, else
\* record_heartbeat().
Record(a) ==
  /\ loop.step = "sleep"
  /\ known' = known \cup {a}
  /\ state' = [state EXCEPT ![a] = "HEALTHY"]
  /\ last' = [last EXCEPT ![a] = clock]
  /\ UNCHANGED <<clock, reported, said, intrusion, loop, failed, reader>>

\* The loop reads the newest incident and the clock, then goes over the agents.
LoopRead ==
  /\ loop.step = "sleep" /\ ~loop.polled
  /\ loop' = IF known = {} THEN Asleep ELSE [step |-> "status", latest |-> intrusion, left |-> known]
  /\ failed' = IF known = {} THEN 0 ELSE failed
  /\ UNCHANGED <<clock, agentVars, said, intrusion, reader>>

\* The vault cannot be opened or read: "except Exception" ends the round before
\* any agent is evaluated.
LoopFails ==
  /\ loop.step = "sleep" /\ ~loop.polled
  /\ loop' = Asleep
  /\ failed' = failed + 1
  /\ UNCHANGED <<clock, agentVars, said, intrusion, reader>>

\* status(): evaluate, and build the dict.
PollStatus(a) ==
  /\ loop.step = "status" /\ a \in loop.left
  /\ state' = [state EXCEPT ![a] = Evaluated(a, clock)]
  /\ loop' = [step |-> "report", latest |-> loop.latest, left |-> loop.left, agent |-> a,
              out |-> Status(state'[a], loop.latest, clock)]
  /\ UNCHANGED <<clock, known, last, reported, said, intrusion, failed, reader>>

\* "new_state = live.watchdog.state" is read again; the dict built before is
\* what is broadcast.
PollReport(a) ==
  LET left == loop.left \ {a} IN
  /\ loop.step = "report" /\ loop.agent = a
  /\ IF state[a] # reported[a]
     THEN /\ reported' = [reported EXCEPT ![a] = state[a]]
          /\ said' = [said EXCEPT ![a] = loop.out]
     ELSE UNCHANGED <<reported, said>>
  /\ loop' = IF left = {} THEN Asleep
             ELSE [step |-> "status", latest |-> loop.latest, left |-> left]
  /\ failed' = IF left = {} THEN 0 ELSE failed
  /\ UNCHANGED <<clock, known, state, last, intrusion, reader>>
-----------------------------------------------------------------------------
(* A thread of the pool: GET /watchdog.                                    *)

Reading(r) == reader' = r /\ UNCHANGED <<clock, known, last, reported, said, intrusion, loop, failed>>

GetLatest ==
  /\ reader.step = "idle"
  /\ Reading([step |-> "snapshot", latest |-> intrusion])
  /\ UNCHANGED state

GetSnapshot ==
  /\ reader.step = "snapshot"
  /\ Reading(IF known = {} THEN Idle
             ELSE [step |-> "check", now |-> clock, keys |-> known, left |-> known])
  /\ UNCHANGED state

At(step, agent, left) ==
  [step |-> step, now |-> reader.now, keys |-> reader.keys, left |-> left, agent |-> agent]

NextAgent == LET left == reader.left \ {reader.agent} IN
             IF left = {} THEN Idle ELSE At("check", None, left)

\* The first half of evaluate.  A beat after the thread read the clock makes
\* the clock go back (ValueError), and a new agent makes _agents change size
\* under the iteration (RuntimeError): a 500 in both cases.
GetCheck(a) ==
  /\ reader.step = "check" /\ a \in reader.left
  /\ Reading(IF reader.now < last[a] \/ reader.keys # known THEN Idle
             ELSE At(IF Missed(a, reader.now) THEN "mark" ELSE "count", a, reader.left))
  /\ UNCHANGED state

\* The second half of evaluate: the assignment.
GetMark ==
  /\ reader.step = "mark"
  /\ state' = [state EXCEPT ![reader.agent] = "TELEMETRY_LOSS"]
  /\ Reading(At("count", reader.agent, reader.left))

\* evaluate returns _state, and missed_heartbeats is computed again.
GetCount ==
  /\ reader.step = "count"
  /\ Reading(IF reader.now < last[reader.agent] THEN Idle
             ELSE IF state[reader.agent] = "TELEMETRY_LOSS"
                  THEN At("assess", reader.agent, reader.left)
                  ELSE NextAgent)
  /\ UNCHANGED state

\* assess_telemetry_loss raises unless the state is still TELEMETRY_LOSS.
GetAssess ==
  /\ reader.step = "assess"
  /\ Reading(IF state[reader.agent] = "TELEMETRY_LOSS" THEN NextAgent ELSE Idle)
  /\ UNCHANGED state
-----------------------------------------------------------------------------
(* Everything else.                                                        *)

\* A worker thread of /ingest records an incident.
Intrude ==
  /\ intrusion' = clock
  /\ UNCHANGED <<clock, agentVars, said, loop, failed, reader>>

\* The loop is back from asyncio.sleep(1.0) once a tick and its round has ended,
\* well or not, within it; a thread may be held up longer.
Tick ==
  /\ clock < MaxClock
  /\ loop = Asleep
  /\ clock' = clock + 1
  /\ loop' = [Asleep EXCEPT !.polled = FALSE]
  /\ UNCHANGED <<agentVars, said, intrusion, failed, reader>>

\* Sentry restarts: a new WatchdogManager, new subscribers.
Restart ==
  /\ known' = {}
  /\ state' = [a \in Agents |-> "HEALTHY"]
  /\ last' = [a \in Agents |-> 0]
  /\ reported' = [a \in Agents |-> "HEALTHY"]
  /\ said' = [a \in Agents |-> [state |-> "HEALTHY", disposition |-> "none"]]
  /\ loop' = Asleep
  /\ failed' = 0
  /\ reader' = Idle
  /\ UNCHANGED <<clock, intrusion>>

Next ==
  \/ \E a \in Agents : Record(a) \/ PollStatus(a) \/ PollReport(a) \/ GetCheck(a)
  \/ LoopRead \/ LoopFails
  \/ GetLatest \/ GetSnapshot \/ GetMark \/ GetCount \/ GetAssess
  \/ Intrude
  \/ Tick
  \/ Restart

Spec == Init /\ [][Next]_vars
-----------------------------------------------------------------------------
(* Properties.                                                             *)

Limit == HEARTBEAT_INTERVAL * MISSED_HEARTBEAT_LIMIT

\* A known agent silent for the limit is marked by the loop's next round, and each
\* round that fails (main.py, "except Exception") puts that off by its second and
\* no longer: no interleaving of beats, rounds and readers hides a loss from the
\* evaluator.
LossNoticedInTime ==
  \A a \in known : clock - last[a] > Limit + failed => state[a] = "TELEMETRY_LOSS" /\ reported[a] = "TELEMETRY_LOSS"

Recent == intrusion # None /\ clock - intrusion <= CORRELATION_WINDOW

\* A loss is broadcast as a candidate Category (ii) just when an incident was
\* recorded within the correlation window; only an incident of the same tick may
\* come too late to be counted.
DispositionJustified ==
  [][\A a \in Agents : said'[a] # said[a] =>
       /\ said'[a].disposition = "candidate_category_ii" => Recent
       /\ said'[a].disposition = "operational_warning" => ~Recent \/ intrusion = clock]_vars

\* "State the background evaluator last *broadcast*" (watchdog.py).
ReportedWasBroadcast == \A a \in Agents : reported[a] = said[a].state
=============================================================================
