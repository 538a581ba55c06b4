------------------------------ MODULE Webhooks ------------------------------
(***************************************************************************)
(* Webhook delivery of one account's Durable Object (relay-webhooks.ts)    *)
(* and the one alarm that webhooks, graph maintenance and speech deadlines *)
(* share (relay-alarm.ts, MereRunRelay.alarm).                             *)
(*                                                                         *)
(* A webhook request suspends the handler that makes it; what the handler  *)
(* does before and after is one step, since storage operations keep other  *)
(* events out.  An attempt goes on with the work object it was given.      *)
(* The work itself (jobs, tools, graphs) is reduced to its outcome and to  *)
(* what handlers outside this module do to the record meanwhile; some take *)
(* it up again after it ended, which `again' counts.  Work without a       *)
(* webhook_url is left out: nothing here touches it.                       *)
(*                                                                         *)
(* Times are left out: the alarm attempts every pending delivery, due or   *)
(* not, so that only whether an alarm is set matters.                      *)
(* A definition Name_what is a mutant of Name.                             *)
(***************************************************************************)
EXTENDS Naturals, FiniteSets

CONSTANTS
  Work,         \* works with a webhook_url
  Graph,        \* the graph jobs among them
  Portable,     \* the graph jobs without local custody
  Tool,         \* tool calls
  Job,          \* generation jobs, whose input image may be in the request
  MaxAttempts,  \* WEBHOOK_MAX_ATTEMPTS
  MaxAgain,     \* bound: how often one work, and no other, is taken up again
  MaxRestarts   \* bound: restarts of the object

ASSUME HookConstants ==
  /\ Graph \subseteq Work /\ Portable \subseteq Graph
  /\ Tool \subseteq Work \ Graph /\ Job \subseteq Work \ Graph
  /\ MaxAttempts \in Nat \ {0}
  /\ MaxAgain \in Nat
  /\ MaxRestarts \in Nat

VARIABLES
  record,    \* the stored record of a work: state, agent_id set?, webhook_sent
  pending,   \* the stored WebhookDeliveryState of a work, or NoDelivery
  attempts,  \* webhook requests on their way
  alarm,     \* is an alarm set?
  running,   \* what the alarm handler is at: "no", "graph", "webhooks"
  sweep,     \* the deliveries the alarm handler has listed and not tried
  deadlines, \* stored graph-maintenance:next and asr-stream:next-alarm
  told,      \* requests the receiver has accepted (event and payload state) for a
             \* work that was not taken up again; history, which nothing reads
  lapsed,    \* works whose delivery the code has dropped
  again,     \* how often each work was taken up again after it had ended
  restarts   \* restarts so far

hookVars == <<record, pending, attempts, alarm, running, sweep, deadlines, told, lapsed,
              again, restarts>>

Outcome == {"complete", "failed", "cancelled"}

(* lost: failed with its node, which tells nobody.                         *)
WorkState == {"open", "lost"} \cup Outcome
Record == [state : WorkState, agent : BOOLEAN, sent : BOOLEAN]

NoDelivery == [event |-> "none", attempts |-> 0]
Delivery == [event : Outcome, attempts : Nat] \cup {NoDelivery}

(* says: the state in the payload, built before the request; copy: the     *)
(* work object; live: it is still the one in the object's maps, so that    *)
(* later changes of the record are seen in it; run: of which run of the    *)
(* work the attempt is.                                                    *)
Attempt == [work : Work, event : Outcome, says : WorkState, copy : Record, live : BOOLEAN,
            attempts : Nat, by : {"handler", "alarm"}, run : Nat]

HookInit ==
  /\ record = [w \in Work |-> [state |-> "open", agent |-> TRUE, sent |-> FALSE]]
  /\ pending = [w \in Work |-> NoDelivery]
  /\ attempts = {}
  /\ alarm = FALSE
  /\ running = "no"
  /\ sweep = {}
  /\ deadlines = {}
  /\ told = [w \in Work |-> {}]
  /\ lapsed = {}
  /\ again = [w \in Work |-> 0]
  /\ restarts = 0

-----------------------------------------------------------------------------
ScheduleAlarm_webhooksOnly == alarm' = (\E w \in Work : pending'[w] # NoDelivery)

(* scheduleNextRelayAlarm: the earliest of all deadlines, or no alarm.     *)
ScheduleAlarm == alarm' = (deadlines' # {} \/ \E w \in Work : pending'[w] # NoDelivery)

(* scheduleWebhookIfNeeded: the attempt that follows a terminal save.      *)
Owed(w, r) == r.state \in Outcome /\ ~r.sent

Scheduled(w, r, live, by) ==
  attempts \cup
    (IF Owed(w, r) /\ (w \in Graph \/ pending[w].attempts < MaxAttempts)
     THEN {[work |-> w, event |-> r.state, says |-> r.state, copy |-> r, live |-> live,
            attempts |-> pending[w].attempts, by |-> by, run |-> again[w]]}
     ELSE {})

Saved(w, r) == record' = [record EXCEPT ![w] = r]

(* A handler finishes work; a lost one may answer late.  Jobs stay in      *)
(* their map until the webhook was tried (finishTerminalWork); graphs have *)
(* left it.                                                                *)
Finish(w, out) ==
  LET r == [record[w] EXCEPT !.state = out, !.agent = FALSE] IN
  /\ record[w].state \in {"open", "lost"}
  /\ Saved(w, r)
  /\ attempts' = Scheduled(w, r, w \notin Graph, "handler")
  /\ UNCHANGED <<pending, alarm, running, sweep, deadlines, told, lapsed, again, restarts>>

Cancel_again(w) ==
  LET r == [record[w] EXCEPT !.state = "cancelled", !.agent = @ /\ w \in Graph] IN
  /\ record[w].state # "cancelled"
  /\ Saved(w, r)
  /\ attempts' = Scheduled(w, r, w \notin Graph, "handler")
  /\ UNCHANGED <<pending, alarm, running, sweep, deadlines, told, lapsed, again, restarts>>

(* Cancel: a graph keeps its agent until the worker settles.               *)
Cancel(w) ==
  LET r == [record[w] EXCEPT !.state = "cancelled", !.agent = @ /\ w \in Graph] IN
  /\ record[w].state = "open"
  /\ Saved(w, r)
  /\ attempts' = Scheduled(w, r, w \notin Graph, "handler")
  /\ UNCHANGED <<pending, alarm, running, sweep, deadlines, told, lapsed, again, restarts>>

(* The worker of a cancelled graph answers: the graph may be retried.      *)
Settle(w) ==
  /\ w \in Graph /\ record[w].state = "cancelled" /\ record[w].agent
  /\ Saved(w, [record[w] EXCEPT !.agent = FALSE])
  /\ UNCHANGED <<pending, attempts, alarm, running, sweep, deadlines, told, lapsed, again,
                 restarts>>

(* The node of a job, asr, embed or tool is lost: failed, and no webhook.  *)
Lose(w) ==
  /\ w \notin Graph /\ record[w].state = "open"
  /\ Saved(w, [record[w] EXCEPT !.state = "lost"])
  /\ UNCHANGED <<pending, attempts, alarm, running, sweep, deadlines, told, lapsed, again,
                 restarts>>

(* Progress of a lost job: it is generating again.                         *)
Progress(w) ==
  /\ w \in Job /\ record[w].state = "lost"
  /\ Saved(w, [record[w] EXCEPT !.state = "open"])
  /\ UNCHANGED <<pending, attempts, alarm, running, sweep, deadlines, told, lapsed, again,
                 restarts>>

-----------------------------------------------------------------------------
(* Work that had ended and goes on                                         *)

Again(w) ==
  /\ record[w].state \in Outcome
  /\ again[w] < MaxAgain /\ \A v \in Work \ {w} : again[v] = 0
  /\ again' = [again EXCEPT ![w] = @ + 1]
  /\ told' = [told EXCEPT ![w] = {}]

(* Retry of a failed or settled graph: webhook_sent and the delivery stay. *)
Retry(w) ==
  /\ Again(w)
  /\ w \in Portable
  /\ record[w].state \in {"failed", "cancelled"}
  /\ record[w].state = "cancelled" => ~record[w].agent
  /\ Saved(w, [record[w] EXCEPT !.state = "open", !.agent = TRUE])
  /\ UNCHANGED <<pending, attempts, alarm, running, sweep, deadlines, lapsed, restarts>>

(* A tool's answer is taken though it was cancelled, and a second node's   *)
(* of a job (both without leases) though the first's was.                  *)
AnswerAgain(w, out) ==
  LET r == [record[w] EXCEPT !.state = out, !.agent = FALSE] IN
  /\ Again(w)
  /\ \/ w \in Tool /\ record[w].state = "cancelled"
     \/ w \in Job /\ record[w].state # "cancelled"
  /\ Saved(w, r)
  /\ attempts' = Scheduled(w, r, TRUE, "handler")
  /\ UNCHANGED <<pending, alarm, running, sweep, deadlines, lapsed, restarts>>

(* A dispatch that was uploading the image goes on with its job: an object *)
(* that may be older than the webhook's success.                           *)
Redispatch(w) ==
  /\ Again(w)
  /\ w \in Job
  /\ \E sent \in {FALSE, record[w].sent} :
       Saved(w, [state |-> "open", agent |-> TRUE, sent |-> sent])
  /\ UNCHANGED <<pending, attempts, alarm, running, sweep, deadlines, lapsed, restarts>>

(* A commit, an asset or a manifest was on its way to R2; then its handler *)
(* saves the object it had, of whatever age, which takes the other's place *)
(* in the map.                                                             *)
Detached(w) ==
  {IF a.work = w /\ a.live THEN [a EXCEPT !.copy = record[w], !.live = FALSE] ELSE a : a \in attempts}

Overwrite(w) ==
  /\ Again(w)
  /\ w \in Portable
  /\ \E sent \in {FALSE, record[w].sent} :
       Saved(w, [state |-> "open", agent |-> TRUE, sent |-> sent])
  /\ attempts' = Detached(w)
  /\ UNCHANGED <<pending, alarm, running, sweep, deadlines, lapsed, restarts>>

-----------------------------------------------------------------------------
(* attemptWebhookDelivery after the request.  `by' the alarm: its loop     *)
(* goes on with the next delivery.                                         *)
Copy(a) == IF a.live THEN record[a.work] ELSE a.copy

(* What the request says: its event, and the work's state in the payload.  *)
Notice(a) == [event |-> a.event, state |-> a.says]

Tells(a) == IF again[a.work] = 0 THEN {Notice(a)} ELSE {}

Accepted(a) ==
  /\ a \in attempts
  /\ attempts' = attempts \ {a}
  /\ told' = [told EXCEPT ![a.work] = @ \cup Tells(a)]
  /\ Saved(a.work, [Copy(a) EXCEPT !.sent = TRUE])
  /\ pending' = [pending EXCEPT ![a.work] = NoDelivery]
  /\ UNCHANGED deadlines
  /\ ScheduleAlarm
  /\ UNCHANGED <<running, sweep, lapsed, again, restarts>>

Exhausted(a) == a.work \notin Graph /\ a.attempts + 1 >= MaxAttempts

Refused_resets(a) ==
  /\ a \in attempts
  /\ attempts' = attempts \ {a}
  /\ pending' = [pending EXCEPT ![a.work] = [event |-> a.event, attempts |-> 1]]
  /\ UNCHANGED <<lapsed, deadlines>>
  /\ ScheduleAlarm
  /\ UNCHANGED <<record, running, sweep, told, again, restarts>>

(* Refused, failed or timed out.                                           *)
Refused(a) ==
  /\ a \in attempts
  /\ attempts' = attempts \ {a}
  /\ pending' = [pending EXCEPT ![a.work] =
       IF Exhausted(a) THEN NoDelivery
       ELSE [event |-> a.event, attempts |-> IF a.work \in Graph THEN 1 ELSE a.attempts + 1]]
  /\ lapsed' = IF Exhausted(a) THEN lapsed \cup {a.work} ELSE lapsed
  /\ UNCHANGED deadlines
  /\ ScheduleAlarm
  /\ UNCHANGED <<record, running, sweep, told, again, restarts>>

-----------------------------------------------------------------------------
(* MereRunRelay.alarm: graph maintenance, then webhooks, then speech.      *)
AlarmFires ==
  /\ alarm /\ running = "no"
  /\ alarm' = FALSE
  /\ running' = "graph"
  /\ UNCHANGED <<record, pending, attempts, sweep, deadlines, told, lapsed, again, restarts>>

AlarmWaits == \E a \in attempts : a.by = "alarm"

(* Maintenance fails a stale graph and awaits its webhook; the object is   *)
(* in the map while it does.                                               *)
FailStale(w) ==
  LET r == [record[w] EXCEPT !.state = "failed", !.agent = FALSE] IN
  /\ running = "graph" /\ ~AlarmWaits /\ "graph" \in deadlines
  /\ w \in Graph /\ record[w].state = "open"
  /\ Saved(w, r)
  /\ attempts' = Scheduled(w, r, TRUE, "alarm")
  /\ UNCHANGED <<pending, alarm, running, sweep, deadlines, told, lapsed, again, restarts>>

(* Maintenance ends; the graph deadline stays while a graph is stored, and *)
(* the webhook loop lists what is pending.                                 *)
ListPending ==
  /\ running = "graph" /\ ~AlarmWaits
  /\ running' = "webhooks"
  /\ sweep' = {[work |-> w, state |-> pending[w]] : w \in {v \in Work : pending[v] # NoDelivery}}
  /\ \/ UNCHANGED <<deadlines, alarm>>
     \/ deadlines' = deadlines \ {"graph"} /\ UNCHANGED pending /\ ScheduleAlarm
  /\ UNCHANGED <<record, pending, attempts, told, lapsed, again, restarts>>

(* handleWebhookAlarm: every listed delivery is tried or dropped, with the *)
(* event it was stored with and the record as it is now.                   *)
SweepNext(s) ==
  LET r == record[s.work] IN
  /\ running = "webhooks" /\ ~AlarmWaits /\ s \in sweep
  /\ sweep' = sweep \ {s}
  /\ IF r.sent
     THEN pending' = [pending EXCEPT ![s.work] = NoDelivery] /\ UNCHANGED attempts
     ELSE /\ attempts' = attempts \cup
               {[work |-> s.work, event |-> s.state.event, says |-> r.state, copy |-> r, live |-> FALSE,
                 attempts |-> s.state.attempts, by |-> "alarm", run |-> again[s.work]]}
          /\ UNCHANGED pending
  /\ UNCHANGED <<record, alarm, running, deadlines, told, lapsed, again, restarts>>

(* The loop ends; speech sessions expire and the alarm is set again.       *)
AlarmEnds ==
  /\ running = "webhooks" /\ ~AlarmWaits /\ sweep = {}
  /\ running' = "no"
  /\ deadlines' \in {deadlines, deadlines \ {"asr"}}
  /\ UNCHANGED pending
  /\ ScheduleAlarm
  /\ UNCHANGED <<record, attempts, sweep, told, lapsed, again, restarts>>

(* scheduleGraphMaintenance and scheduleAsrStreamAlarm outside the alarm.  *)
SetDeadline(k) ==
  /\ k \notin deadlines
  /\ deadlines' = deadlines \cup {k}
  /\ UNCHANGED pending
  /\ ScheduleAlarm
  /\ UNCHANGED <<record, attempts, running, sweep, told, lapsed, again, restarts>>

EndSpeech ==
  /\ "asr" \in deadlines
  /\ deadlines' = deadlines \ {"asr"}
  /\ UNCHANGED pending
  /\ ScheduleAlarm
  /\ UNCHANGED <<record, attempts, running, sweep, told, lapsed, again, restarts>>

Restart_keepsSweep ==
  /\ restarts < MaxRestarts
  /\ restarts' = restarts + 1
  /\ lapsed' = lapsed \cup {a.work : a \in {b \in attempts : pending[b.work] = NoDelivery}}
  /\ attempts' = {} /\ running' = "no"
  /\ alarm' = (alarm \/ running # "no")
  /\ UNCHANGED <<record, pending, sweep, deadlines, told, again>>

Restart_losesPending ==
  /\ restarts < MaxRestarts
  /\ restarts' = restarts + 1
  /\ pending' = [w \in Work |-> NoDelivery]
  /\ lapsed' = lapsed \cup {a.work : a \in {b \in attempts : pending[b.work] = NoDelivery}}
  /\ attempts' = {} /\ sweep' = {} /\ running' = "no"
  /\ alarm' = (alarm \/ running # "no")
  /\ UNCHANGED <<record, deadlines, told, again>>

(* The object restarts: requests on their way are forgotten, whether the   *)
(* receiver got them or not, and the platform runs an unfinished alarm     *)
(* again.  A first attempt was not stored before it was made.              *)
Restart ==
  /\ restarts < MaxRestarts
  /\ restarts' = restarts + 1
  /\ \E got \in SUBSET attempts :
       told' = [w \in Work |-> told[w] \cup UNION {Tells(a) : a \in {b \in got : b.work = w}}]
  /\ lapsed' = lapsed \cup {a.work : a \in {b \in attempts : pending[b.work] = NoDelivery}}
  /\ attempts' = {}
  /\ alarm' = (alarm \/ running # "no")
  /\ running' = "no"
  /\ sweep' = {}
  /\ UNCHANGED <<record, pending, deadlines, again>>

-----------------------------------------------------------------------------
HookNext ==
  \/ \E w \in Work :
       \/ \E out \in {"complete", "failed"} : Finish(w, out) \/ AnswerAgain(w, out)
       \/ Cancel(w) \/ Settle(w) \/ Lose(w) \/ Progress(w)
       \/ Retry(w) \/ Redispatch(w) \/ Overwrite(w)
       \/ FailStale(w)
  \/ \E a \in attempts : Accepted(a) \/ Refused(a)
  \/ AlarmFires \/ ListPending \/ AlarmEnds
  \/ \E s \in sweep : SweepNext(s)
  \/ \E k \in {"graph", "asr"} : SetDeadline(k)
  \/ EndSpeech \/ Restart

(* The platform fires a set alarm and runs its handler to the end; every   *)
(* request ends (it is aborted after a timeout); a receiver that is asked  *)
(* again and again accepts in the end.                                     *)
Answered(w) == \E a \in attempts : a.work = w /\ (Accepted(a) \/ Refused(a))
Received(w) == \E a \in attempts : a.work = w /\ Accepted(a)

HookFairness ==
  /\ WF_hookVars(AlarmFires)
  /\ WF_hookVars(ListPending)
  /\ WF_hookVars(AlarmEnds)
  /\ WF_hookVars(\E s \in sweep : SweepNext(s))
  /\ \A w \in Work : WF_hookVars(Answered(w))
  /\ \A w \in Graph : SF_hookVars(Received(w))

HookSpec == HookInit /\ [][HookNext]_hookVars /\ HookFairness

-----------------------------------------------------------------------------
(* Types; and an alarm handler that is not running has nothing listed.     *)
HookTypeOK ==
  /\ record \in [Work -> Record]
  /\ pending \in [Work -> Delivery]
  /\ attempts \subseteq Attempt
  /\ alarm \in BOOLEAN
  /\ running \in {"no", "graph", "webhooks"}
  /\ sweep \subseteq [work : Work, state : Delivery \ {NoDelivery}]
  /\ running # "webhooks" => sweep = {}
  /\ deadlines \subseteq {"graph", "asr"}
  /\ told \in [Work -> SUBSET [event : Outcome, state : WorkState]]
  /\ lapsed \subseteq Work
  /\ again \in [Work -> 0 .. MaxAgain]
  /\ restarts \in 0 .. MaxRestarts

(* Whatever is still to be done at some time (a delivery to repeat, graph  *)
(* maintenance, a speech deadline) has an alarm: none of the three users   *)
(* of the one alarm hides another's deadline (relay-alarm.ts).             *)
DueHasAlarm ==
  (deadlines # {} \/ \E w \in Work : pending[w] # NoDelivery) => alarm \/ running # "no"

(* An outcome whose webhook was not delivered is on its way or stored for  *)
(* another attempt, unless the attempts are used up or the object          *)
(* restarted during the first one, also of a work that ends a second time  *)
(* (relay-webhooks.ts 465-485).  Work lost with its node is owed nothing.  *)
OutcomeOwed ==
  \A w \in Work :
    Owed(w, record[w]) =>
      \/ pending[w] # NoDelivery
      \/ \E a \in attempts : a.work = w
      \/ w \in lapsed

(* A receiver is told one story of a work that ends once: every            *)
(* notification it accepts names the outcome the payload shows, which is   *)
(* the outcome on record for good, though the work was lost and answered   *)
(* late.  (Not so of work taken up again: retried, answered twice, given   *)
(* to a node or overwritten by a handler that did not see its end.)        *)
OneStory ==
  \A w \in Work : again[w] = 0 =>
    \A n \in told[w] : n.event = n.state /\ n.state = record[w].state

(* A stored delivery does not stay for ever: a job's is accepted or given  *)
(* up, a graph's is repeated until it is accepted.                         *)
DeliveryEnds == \A w \in Work : (pending[w] # NoDelivery) ~> (pending[w] = NoDelivery)
=============================================================================
