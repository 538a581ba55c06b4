--------------------------- MODULE WebhookProofs ---------------------------
(***************************************************************************)
(* Proofs about Webhooks, for any works, graphs and bounds: whatever is    *)
(* due has an alarm, an outcome is owed until it is delivered or given up, *)
(* and a receiver is told one story.  That stored deliveries end is left   *)
(* to TLC.                                                                 *)
(***************************************************************************)
EXTENDS Webhooks, TLAPS

(* What scheduleWebhookIfNeeded adds are attempts of this work's outcome.  *)
LEMMA ScheduledIsTyped ==
  ASSUME HookTypeOK, NEW w \in Work, NEW r \in Record, NEW live \in BOOLEAN,
         NEW by \in {"handler", "alarm"}
  PROVE  /\ Scheduled(w, r, live, by) \subseteq Attempt
         /\ \A a \in Scheduled(w, r, live, by) \ attempts :
              a.work = w /\ a.event = r.state /\ a.says = r.state /\ a.copy = r
<1>1. pending[w].attempts \in Nat
  BY DEF HookTypeOK, Delivery, NoDelivery
<1>2. again[w] \in Nat
  BY HookConstants DEF HookTypeOK, HookConstants
<1>3. ASSUME Owed(w, r)
      PROVE [work |-> w, event |-> r.state, says |-> r.state, copy |-> r, live |-> live,
             attempts |-> pending[w].attempts, by |-> by, run |-> again[w]] \in Attempt
  BY <1>1, <1>2, <1>3 DEF Owed, Attempt, WorkState
<1> QED
  BY <1>3 DEF Scheduled, HookTypeOK

(* An outcome that is owed and has no stored delivery gets an attempt: a   *)
(* delivery that was never stored has not used up its attempts.            *)
LEMMA OwedIsScheduled ==
  ASSUME HookTypeOK, NEW w \in Work, NEW r \in Record, NEW live \in BOOLEAN,
         NEW by \in {"handler", "alarm"}, Owed(w, r), pending[w] = NoDelivery
  PROVE  \E a \in Scheduled(w, r, live, by) : a.work = w
<1>1. pending[w].attempts < MaxAttempts
  BY HookConstants DEF HookConstants, NoDelivery
<1> DEFINE a == [work |-> w, event |-> r.state, says |-> r.state, copy |-> r, live |-> live,
                 attempts |-> pending[w].attempts, by |-> by, run |-> again[w]]
<1>2. a \in Scheduled(w, r, live, by)
  BY <1>1 DEF Scheduled
<1>3. a.work = w
  OBVIOUS
<1> QED
  BY <1>2, <1>3

LEMMA InitIsTyped == HookInit => HookTypeOK
<1> SUFFICES ASSUME HookInit PROVE HookTypeOK
  OBVIOUS
<1>1. record \in [Work -> Record]
  <2>1. [state |-> "open", agent |-> TRUE, sent |-> FALSE] \in Record
    BY DEF Record, WorkState
  <2> QED
    BY <2>1 DEF HookInit
<1>2. pending \in [Work -> Delivery]
  BY DEF HookInit, Delivery
<1>3. again \in [Work -> 0 .. MaxAgain] /\ restarts \in 0 .. MaxRestarts
  BY HookConstants DEF HookInit, HookConstants
<1>4. told \in [Work -> SUBSET [event : Outcome, state : WorkState]]
  BY DEF HookInit
<1> QED
  BY <1>1, <1>2, <1>3, <1>4 DEF HookInit, HookTypeOK

-----------------------------------------------------------------------------
(* Types                                                                   *)

LEMMA FinishedIsTyped ==
  ASSUME HookTypeOK, NEW w \in Work, NEW out \in Outcome
  PROVE  [record[w] EXCEPT !.state = out, !.agent = FALSE] \in Record
  BY DEF HookTypeOK, Record, WorkState

LEMMA FinishIsTyped ==
  ASSUME HookTypeOK, NEW w \in Work, NEW out \in {"complete", "failed"}, Finish(w, out)
  PROVE  HookTypeOK'
<1> DEFINE r == [record[w] EXCEPT !.state = out, !.agent = FALSE]
<1>1. r \in Record
  BY FinishedIsTyped DEF Outcome
<1>2. attempts' \subseteq Attempt
  BY <1>1, ScheduledIsTyped DEF Finish
<1>3. record' \in [Work -> Record]
  BY <1>1 DEF Finish, Saved, HookTypeOK
<1> QED
  BY <1>2, <1>3 DEF Finish, HookTypeOK

LEMMA CancelledIsTyped ==
  ASSUME HookTypeOK, NEW w \in Work
  PROVE  [record[w] EXCEPT !.state = "cancelled", !.agent = @ /\ w \in Graph] \in Record
<1> DEFINE b == record[w].agent /\ w \in Graph
           r == [record[w] EXCEPT !.state = "cancelled", !.agent = @ /\ w \in Graph]
<1>1. b \in BOOLEAN
  OBVIOUS
<1>2. r = [record[w] EXCEPT !.state = "cancelled", !.agent = b]
  OBVIOUS
<1>3. record[w] \in Record
  BY DEF HookTypeOK
<1>4. \A c \in BOOLEAN : [record[w] EXCEPT !.state = "cancelled", !.agent = c] \in Record
  BY <1>3 DEF Record, WorkState, Outcome
<1> HIDE DEF b
<1> QED
  BY <1>1, <1>2, <1>4

LEMMA CancelIsTyped ==
  ASSUME HookTypeOK, NEW w \in Work, Cancel(w)
  PROVE  HookTypeOK'
<1> DEFINE r == [record[w] EXCEPT !.state = "cancelled", !.agent = @ /\ w \in Graph]
           live == w \notin Graph
<1>1. r \in Record
  BY CancelledIsTyped
<1>2. attempts' = Scheduled(w, r, live, "handler") /\ record' = [record EXCEPT ![w] = r]
  BY DEF Cancel, Saved
<1>3. live \in BOOLEAN
  OBVIOUS
<1> HIDE DEF r, live
<1>4. attempts' \subseteq Attempt
  BY <1>1, <1>2, <1>3, ScheduledIsTyped
<1>5. record' \in [Work -> Record]
  BY <1>1, <1>2 DEF HookTypeOK
<1> QED
  BY <1>4, <1>5 DEF Cancel, HookTypeOK

LEMMA FailStaleIsTyped ==
  ASSUME HookTypeOK, NEW w \in Work, FailStale(w)
  PROVE  HookTypeOK'
<1> DEFINE r == [record[w] EXCEPT !.state = "failed", !.agent = FALSE]
<1>1. r \in Record
  BY FinishedIsTyped DEF Outcome
<1>2. attempts' = Scheduled(w, r, TRUE, "alarm") /\ record' = [record EXCEPT ![w] = r]
  BY DEF FailStale, Saved
<1> HIDE DEF r
<1>3. attempts' \subseteq Attempt
  BY <1>1, <1>2, ScheduledIsTyped
<1>4. record' \in [Work -> Record]
  BY <1>1, <1>2 DEF HookTypeOK
<1> QED
  BY <1>3, <1>4 DEF FailStale, HookTypeOK

(* What a work that is taken up again leaves of what was told.             *)
LEMMA AgainIsTyped ==
  ASSUME HookTypeOK, NEW w \in Work, Again(w)
  PROVE  /\ again' \in [Work -> 0 .. MaxAgain] /\ again'[w] # 0
         /\ told' \in [Work -> SUBSET [event : Outcome, state : WorkState]]
         /\ \A v \in Work \ {w} : again'[v] = again[v] /\ told'[v] = told[v]
<1>1. again[w] + 1 \in 0 .. MaxAgain /\ again[w] + 1 # 0
  BY HookConstants DEF Again, HookTypeOK, HookConstants
<1> QED
  BY <1>1 DEF Again, HookTypeOK

LEMMA OpenedIsTyped ==
  ASSUME HookTypeOK, NEW w \in Work, NEW sent \in {FALSE, record[w].sent}
  PROVE  [state |-> "open", agent |-> TRUE, sent |-> sent] \in Record
  BY DEF HookTypeOK, Record, WorkState

LEMMA AnswerAgainIsTyped ==
  ASSUME HookTypeOK, NEW w \in Work, NEW out \in {"complete", "failed"}, AnswerAgain(w, out)
  PROVE  HookTypeOK'
<1> DEFINE r == [record[w] EXCEPT !.state = out, !.agent = FALSE]
<1>1. r \in Record
  BY FinishedIsTyped DEF Outcome
<1>2. attempts' \subseteq Attempt
  BY <1>1, ScheduledIsTyped DEF AnswerAgain
<1>3. record' \in [Work -> Record]
  BY <1>1 DEF AnswerAgain, Saved, HookTypeOK
<1>4. Again(w)
  BY DEF AnswerAgain
<1> QED
  BY <1>2, <1>3, <1>4, AgainIsTyped DEF AnswerAgain, HookTypeOK

LEMMA RedispatchIsTyped ==
  ASSUME HookTypeOK, NEW w \in Work, Redispatch(w)
  PROVE  HookTypeOK'
<1>1. record' \in [Work -> Record]
  <2>1. PICK sent \in {FALSE, record[w].sent} :
          record' = [record EXCEPT ![w] = [state |-> "open", agent |-> TRUE, sent |-> sent]]
    BY DEF Redispatch, Saved
  <2> QED
    BY <2>1, OpenedIsTyped DEF HookTypeOK
<1>2. Again(w)
  BY DEF Redispatch
<1> QED
  BY <1>1, <1>2, AgainIsTyped DEF Redispatch, HookTypeOK

(* An attempt that lost its place in the map keeps what it reports.        *)
LEMMA DetachedIsTyped ==
  ASSUME HookTypeOK, NEW w \in Work
  PROVE  /\ Detached(w) \subseteq Attempt
         /\ \A a \in Detached(w) : a.work # w => a \in attempts
<1>1. ASSUME NEW a \in attempts PROVE [a EXCEPT !.copy = record[w], !.live = FALSE] \in Attempt
  BY DEF HookTypeOK, Attempt
<1>2. ASSUME NEW a \in attempts
      PROVE [a EXCEPT !.copy = record[w], !.live = FALSE].work = a.work
  BY DEF HookTypeOK, Attempt
<1> QED
  BY <1>1, <1>2 DEF Detached, HookTypeOK

LEMMA OverwriteIsTyped ==
  ASSUME HookTypeOK, NEW w \in Work, Overwrite(w)
  PROVE  HookTypeOK'
<1>1. record' \in [Work -> Record]
  <2>1. PICK sent \in {FALSE, record[w].sent} :
          record' = [record EXCEPT ![w] = [state |-> "open", agent |-> TRUE, sent |-> sent]]
    BY DEF Overwrite, Saved
  <2> QED
    BY <2>1, OpenedIsTyped DEF HookTypeOK
<1>2. Again(w) /\ attempts' \subseteq Attempt
  BY DetachedIsTyped DEF Overwrite
<1> QED
  BY <1>1, <1>2, AgainIsTyped DEF Overwrite, HookTypeOK

LEMMA CopyIsTyped ==
  ASSUME HookTypeOK, NEW a \in attempts
  PROVE  /\ a \in Attempt /\ a.work \in Work /\ a.event \in Outcome
         /\ Copy(a) \in Record
         /\ Tells(a) \subseteq [event : Outcome, state : WorkState]
<1>1. /\ a \in Attempt /\ a.work \in Work /\ a.event \in Outcome /\ a.says \in WorkState
      /\ a.copy \in Record
  BY DEF HookTypeOK, Attempt
<1>2. Copy(a) \in Record
  BY <1>1 DEF Copy, HookTypeOK
<1> QED
  BY <1>1, <1>2 DEF Tells, Notice

LEMMA AcceptedIsTyped ==
  ASSUME HookTypeOK, NEW a \in attempts, Accepted(a)
  PROVE  HookTypeOK'
<1>1. [Copy(a) EXCEPT !.sent = TRUE] \in Record
  BY CopyIsTyped DEF Record
<1>2. record' \in [Work -> Record]
  BY <1>1, CopyIsTyped DEF Accepted, Saved, HookTypeOK
<1>3. told' \in [Work -> SUBSET [event : Outcome, state : WorkState]]
  BY CopyIsTyped DEF Accepted, HookTypeOK
<1>4. pending' \in [Work -> Delivery]
  BY CopyIsTyped DEF Accepted, HookTypeOK, Delivery
<1>5. alarm' \in BOOLEAN
  BY DEF Accepted, ScheduleAlarm
<1> QED
  BY <1>2, <1>3, <1>4, <1>5 DEF Accepted, HookTypeOK

LEMMA RefusedIsTyped ==
  ASSUME HookTypeOK, NEW a \in attempts, Refused(a)
  PROVE  HookTypeOK'
<1>1. [event |-> a.event, attempts |-> IF a.work \in Graph THEN 1 ELSE a.attempts + 1]
        \in Delivery
  BY CopyIsTyped DEF Delivery, Attempt
<1>2. pending' \in [Work -> Delivery]
  BY <1>1, CopyIsTyped DEF Refused, HookTypeOK, Delivery
<1>3. lapsed' \subseteq Work
  BY CopyIsTyped DEF Refused, HookTypeOK
<1>4. alarm' \in BOOLEAN
  BY DEF Refused, ScheduleAlarm
<1> QED
  BY <1>2, <1>3, <1>4 DEF Refused, HookTypeOK

LEMMA SweepIsTyped ==
  ASSUME HookTypeOK, NEW s \in sweep, SweepNext(s)
  PROVE  HookTypeOK'
<1>1. /\ s.work \in Work /\ s.state \in Delivery \ {NoDelivery}
  BY DEF HookTypeOK
<1>2. s.state.event \in Outcome /\ s.state.attempts \in Nat
  BY <1>1 DEF Delivery
<1>3. record[s.work] \in Record /\ again[s.work] \in Nat
  BY <1>1, HookConstants DEF HookTypeOK, HookConstants
<1>4. [work |-> s.work, event |-> s.state.event, says |-> record[s.work].state,
       copy |-> record[s.work], live |-> FALSE, attempts |-> s.state.attempts, by |-> "alarm", run |-> again[s.work]] \in Attempt
  BY <1>1, <1>2, <1>3 DEF Attempt, Record
<1>5. attempts' \subseteq Attempt
  BY <1>4 DEF SweepNext, HookTypeOK
<1>6. pending' \in [Work -> Delivery]
  BY <1>1 DEF SweepNext, HookTypeOK, Delivery
<1>7. sweep' \subseteq sweep
  BY DEF SweepNext
<1>8. sweep' \subseteq [work : Work, state : Delivery \ {NoDelivery}]
  BY <1>7 DEF HookTypeOK
<1> QED
  BY <1>5, <1>6, <1>8 DEF SweepNext, HookTypeOK

(* Every variable of the webhook subsystem keeps its type, whatever the    *)
(* works and the bounds: only known outcomes are stored, attempted and     *)
(* told (relay-webhooks.ts).                                               *)
THEOREM HookTypes == HookSpec => []HookTypeOK
<1>1. HookTypeOK /\ [HookNext]_hookVars => HookTypeOK'
  <2> SUFFICES ASSUME HookTypeOK, [HookNext]_hookVars PROVE HookTypeOK'
    OBVIOUS
  <2>1. ASSUME NEW w \in Work, NEW out \in {"complete", "failed"}, Finish(w, out)
        PROVE HookTypeOK'
    BY <2>1, FinishIsTyped
  <2>2. ASSUME NEW w \in Work, Cancel(w) PROVE HookTypeOK'
    BY <2>2, CancelIsTyped
  <2>3. ASSUME NEW w \in Work, Settle(w) PROVE HookTypeOK'
    <3>1. [record[w] EXCEPT !.agent = FALSE] \in Record
      BY DEF HookTypeOK, Record
    <3>2. record' \in [Work -> Record]
      BY <2>3, <3>1 DEF Settle, Saved, HookTypeOK
    <3> QED
      BY <2>3, <3>2 DEF Settle, HookTypeOK
  <2>4. ASSUME NEW w \in Work, Retry(w) PROVE HookTypeOK'
    <3>1. [record[w] EXCEPT !.state = "open", !.agent = TRUE] \in Record
      BY DEF HookTypeOK, Record, WorkState
    <3>2. record' \in [Work -> Record] /\ Again(w)
      BY <2>4, <3>1 DEF Retry, Saved, HookTypeOK
    <3> QED
      BY <2>4, <3>2, AgainIsTyped DEF Retry, HookTypeOK
  <2>5. ASSUME NEW w \in Work, Lose(w) PROVE HookTypeOK'
    <3>1. [record[w] EXCEPT !.state = "lost"] \in Record
      BY DEF HookTypeOK, Record, WorkState
    <3>2. record' \in [Work -> Record]
      BY <2>5, <3>1 DEF Lose, Saved, HookTypeOK
    <3> QED
      BY <2>5, <3>2 DEF Lose, HookTypeOK
  <2>6. ASSUME NEW w \in Work, FailStale(w) PROVE HookTypeOK'
    BY <2>6, FailStaleIsTyped
  <2>7. ASSUME NEW a \in attempts, Accepted(a) PROVE HookTypeOK'
    BY <2>7, AcceptedIsTyped
  <2>8. ASSUME NEW a \in attempts, Refused(a) PROVE HookTypeOK'
    BY <2>8, RefusedIsTyped
  <2>9. CASE AlarmFires
    BY <2>9 DEF AlarmFires, HookTypeOK
  <2>10. CASE ListPending
    <3>1. sweep' \subseteq [work : Work, state : Delivery \ {NoDelivery}]
      BY <2>10 DEF ListPending, HookTypeOK
    <3>2. alarm' \in BOOLEAN
      BY <2>10 DEF ListPending, ScheduleAlarm, HookTypeOK
    <3> QED
      BY <2>10, <3>1, <3>2 DEF ListPending, HookTypeOK
  <2>11. CASE AlarmEnds
    BY <2>11 DEF AlarmEnds, ScheduleAlarm, HookTypeOK
  <2>12. ASSUME NEW s \in sweep, SweepNext(s) PROVE HookTypeOK'
    BY <2>12, SweepIsTyped
  <2>13. ASSUME NEW k \in {"graph", "asr"}, SetDeadline(k) PROVE HookTypeOK'
    BY <2>13 DEF SetDeadline, ScheduleAlarm, HookTypeOK
  <2>14. CASE EndSpeech
    BY <2>14 DEF EndSpeech, ScheduleAlarm, HookTypeOK
  <2>15. CASE Restart
    <3>1. told' \in [Work -> SUBSET [event : Outcome, state : WorkState]]
      BY <2>15, CopyIsTyped DEF Restart, HookTypeOK
    <3>2. lapsed' \subseteq Work
      BY <2>15, CopyIsTyped DEF Restart, HookTypeOK
    <3>3. restarts' \in 0 .. MaxRestarts
      BY <2>15, HookConstants DEF Restart, HookTypeOK, HookConstants
    <3>4. alarm' \in BOOLEAN
      BY <2>15 DEF Restart, HookTypeOK
    <3> QED
      BY <2>15, <3>1, <3>2, <3>3, <3>4 DEF Restart, HookTypeOK
  <2>16. ASSUME NEW w \in Work, Progress(w) PROVE HookTypeOK'
    <3>1. [record[w] EXCEPT !.state = "open"] \in Record
      BY DEF HookTypeOK, Record, WorkState
    <3>2. record' \in [Work -> Record]
      BY <2>16, <3>1 DEF Progress, Saved, HookTypeOK
    <3> QED
      BY <2>16, <3>2 DEF Progress, HookTypeOK
  <2>17. ASSUME NEW w \in Work, Redispatch(w) \/ Overwrite(w) PROVE HookTypeOK'
    BY <2>17, RedispatchIsTyped, OverwriteIsTyped
  <2>18. ASSUME NEW w \in Work, NEW out \in {"complete", "failed"}, AnswerAgain(w, out)
         PROVE HookTypeOK'
    BY <2>18, AnswerAgainIsTyped
  <2>19. CASE UNCHANGED hookVars
    BY <2>19 DEF hookVars, HookTypeOK
  <2> QED
    BY <2>17, <2>18, <2>19, <2>1, <2>2, <2>3, <2>4, <2>5, <2>6, <2>7, <2>8, <2>9, <2>10, <2>11, <2>12, <2>13,
       <2>14, <2>15, <2>16 DEF HookNext
<1> QED
  BY InitIsTyped, <1>1, PTL DEF HookSpec

-----------------------------------------------------------------------------
(* What is due has an alarm                                                *)

(* Every step that stores a deadline or a delivery sets the alarm from all *)
(* of them, and the handler that takes the alarm sets it again when it     *)
(* ends; so nothing that is due waits for an alarm nobody set              *)
(* (relay-alarm.ts, scheduleNextRelayAlarm).                               *)
THEOREM AlarmIsSet == HookSpec => []DueHasAlarm
<1>1. HookInit => DueHasAlarm
  BY DEF HookInit, DueHasAlarm
<1>2. DueHasAlarm /\ [HookNext]_hookVars => DueHasAlarm'
  <2> SUFFICES ASSUME DueHasAlarm, [HookNext]_hookVars PROVE DueHasAlarm'
    OBVIOUS
  <2> DEFINE Due == deadlines # {} \/ \E w \in Work : pending[w] # NoDelivery
  <2>1. ASSUME ScheduleAlarm PROVE DueHasAlarm'
    BY <2>1, Zenon DEF ScheduleAlarm, DueHasAlarm
  <2>2. ASSUME UNCHANGED <<pending, deadlines, alarm, running>> PROVE DueHasAlarm'
    BY <2>2 DEF DueHasAlarm
  <2>3. ASSUME NEW w \in Work,
               \/ \E out \in {"complete", "failed"} : Finish(w, out) \/ AnswerAgain(w, out)
               \/ Cancel(w) \/ Settle(w) \/ Lose(w) \/ Progress(w)
               \/ Retry(w) \/ Redispatch(w) \/ Overwrite(w)
               \/ FailStale(w)
        PROVE UNCHANGED <<pending, deadlines, alarm, running>>
    BY <2>3 DEF Finish, AnswerAgain, Cancel, Settle, Lose, Progress, Retry, Redispatch,
                Overwrite, FailStale
  <2>4. ASSUME NEW a \in attempts, Accepted(a) \/ Refused(a) PROVE ScheduleAlarm
    BY <2>4 DEF Accepted, Refused
  <2>5. CASE AlarmFires
    BY <2>5 DEF AlarmFires, DueHasAlarm
  <2>6. CASE ListPending
    BY <2>6 DEF ListPending, DueHasAlarm
  <2>7. CASE AlarmEnds
    BY <2>1, <2>7 DEF AlarmEnds
  <2>8. ASSUME NEW s \in sweep, SweepNext(s) PROVE DueHasAlarm'
    BY <2>8 DEF SweepNext, DueHasAlarm
  <2>9. ASSUME NEW k \in {"graph", "asr"}, SetDeadline(k) PROVE ScheduleAlarm
    BY <2>9 DEF SetDeadline
  <2>10. CASE EndSpeech
    BY <2>1, <2>10 DEF EndSpeech
  <2>11. CASE Restart
    BY <2>11, Zenon DEF Restart, DueHasAlarm
  <2>12. CASE UNCHANGED hookVars
    BY <2>2, <2>12 DEF hookVars
  <2> QED
    BY <2>1, <2>2, <2>3, <2>4, <2>5, <2>6, <2>7, <2>8, <2>9, <2>10, <2>11, <2>12 DEF HookNext
<1> QED
  BY <1>1, <1>2, PTL DEF HookSpec

-----------------------------------------------------------------------------
(* Outcomes are owed                                                       *)

(* An outcome the receiver is owed is under way in an attempt or stored    *)
(* for a later one, however attempts, alarms and later changes of the work *)
(* overlap, unless its attempts are used up, a restart cut off the first   *)
(* one, or its job ended with its node (relay-webhooks.ts,                 *)
(* scheduleWebhookIfNeeded and attemptWebhookDelivery).                    *)
THEOREM OutcomesAreOwed == HookSpec => []OutcomeOwed
<1>1. HookInit => OutcomeOwed
  BY DEF HookInit, OutcomeOwed, Owed, Outcome
<1>2. HookTypeOK /\ OutcomeOwed /\ [HookNext]_hookVars => OutcomeOwed'
  <2> SUFFICES ASSUME HookTypeOK, OutcomeOwed, [HookNext]_hookVars, NEW v \in Work,
                      Owed(v, record'[v]), pending'[v] = NoDelivery, v \notin lapsed'
               PROVE  \E a \in attempts' : a.work = v
    BY DEF OutcomeOwed, Owed
  <2>1. ASSUME NEW w \in Work, NEW r \in Record, NEW live \in BOOLEAN,
               NEW by \in {"handler", "alarm"}, Saved(w, r),
               attempts' = Scheduled(w, r, live, by),
               UNCHANGED <<pending, lapsed>>
        PROVE \E a \in attempts' : a.work = v
    <3>1. CASE v = w
      <4>1. record'[v] = r
        BY <2>1, <3>1 DEF Saved, HookTypeOK
      <4> QED
        BY <2>1, <3>1, <4>1, OwedIsScheduled
    <3>2. CASE v # w
      <4>1. record'[v] = record[v]
        BY <2>1, <3>2 DEF Saved, HookTypeOK
      <4>2. PICK a \in attempts : a.work = v
        BY <2>1, <4>1 DEF OutcomeOwed
      <4> QED
        BY <2>1, <4>2 DEF Scheduled
    <3> QED
      BY <3>1, <3>2
  <2>2. ASSUME NEW w \in Work, record'[w].state = "open" \/ record'[w] = [record[w] EXCEPT !.agent = FALSE],
               \A u \in Work \ {w} : record'[u] = record[u],
               UNCHANGED <<pending, attempts, lapsed>>
        PROVE \E a \in attempts' : a.work = v
    <3>1. Owed(v, record[v])
      BY <2>2 DEF Owed, Outcome, HookTypeOK, Record
    <3> QED
      BY <2>2, <3>1 DEF OutcomeOwed
  <2>3. ASSUME NEW w \in Work, NEW out \in {"complete", "failed"}, Finish(w, out)
        PROVE \E a \in attempts' : a.work = v
    <3> DEFINE r == [record[w] EXCEPT !.state = out, !.agent = FALSE]
           live == w \notin Graph
    <3>1. r \in Record
      BY <2>3, FinishedIsTyped DEF Outcome
    <3>2. /\ attempts' = Scheduled(w, r, live, "handler") /\ Saved(w, r)
          /\ UNCHANGED <<pending, lapsed>>
      BY <2>3 DEF Finish
    <3>3. live \in BOOLEAN
      OBVIOUS
    <3> HIDE DEF r, live
    <3> QED
      BY <2>1, <3>1, <3>2, <3>3
  <2>4. ASSUME NEW w \in Work, Cancel(w) PROVE \E a \in attempts' : a.work = v
    <3> DEFINE r == [record[w] EXCEPT !.state = "cancelled", !.agent = @ /\ w \in Graph]
           live == w \notin Graph
    <3>1. r \in Record
      BY CancelledIsTyped
    <3>2. /\ attempts' = Scheduled(w, r, live, "handler") /\ Saved(w, r)
          /\ UNCHANGED <<pending, lapsed>>
      BY <2>4 DEF Cancel
    <3>3. live \in BOOLEAN
      OBVIOUS
    <3> HIDE DEF r, live
    <3> QED
      BY <2>1, <3>1, <3>2, <3>3
  <2>5. ASSUME NEW w \in Work, Settle(w) PROVE \E a \in attempts' : a.work = v
    <3>1. record'[w] = [record[w] EXCEPT !.agent = FALSE]
      BY <2>5 DEF Settle, Saved, HookTypeOK
    <3>2. \A u \in Work \ {w} : record'[u] = record[u]
      BY <2>5 DEF Settle, Saved, HookTypeOK
    <3> QED
      BY <2>2, <2>5, <3>1, <3>2 DEF Settle
  <2>6. ASSUME NEW w \in Work, Retry(w) PROVE \E a \in attempts' : a.work = v
    <3>1. record'[w].state = "open"
      BY <2>6 DEF Retry, Saved, HookTypeOK, Record
    <3>2. \A u \in Work \ {w} : record'[u] = record[u]
      BY <2>6 DEF Retry, Saved, HookTypeOK
    <3> QED
      BY <2>2, <2>6, <3>1, <3>2 DEF Retry
  <2>7. ASSUME NEW w \in Work, Lose(w) \/ Progress(w) PROVE \E a \in attempts' : a.work = v
    <3>1. v # w
      BY <2>7 DEF Lose, Progress, Saved, Owed, Outcome, HookTypeOK, Record
    <3>2. record'[v] = record[v]
      BY <2>7, <3>1 DEF Lose, Progress, Saved, HookTypeOK
    <3> QED
      BY <2>7, <3>2 DEF Lose, Progress, OutcomeOwed
  <2>8. ASSUME NEW w \in Work, FailStale(w) PROVE \E a \in attempts' : a.work = v
    <3> DEFINE r == [record[w] EXCEPT !.state = "failed", !.agent = FALSE]
    <3>1. r \in Record
      BY FinishedIsTyped DEF Outcome
    <3> QED
      BY <2>1, <2>8, <3>1 DEF FailStale
  <2>9. ASSUME NEW b \in attempts, Accepted(b) PROVE \E a \in attempts' : a.work = v
    <3>1. CASE v = b.work
      <4>1. record'[v].sent
        BY <2>9, <3>1, CopyIsTyped DEF Accepted, Saved, HookTypeOK, Record
      <4> QED
        BY <4>1 DEF Owed
    <3>2. CASE v # b.work
      <4>1. record'[v] = record[v] /\ pending'[v] = pending[v]
        BY <2>9, <3>2, CopyIsTyped DEF Accepted, Saved, HookTypeOK
      <4>2. PICK a \in attempts : a.work = v
        BY <2>9, <4>1 DEF Accepted, OutcomeOwed
      <4> QED
        BY <2>9, <3>2, <4>2 DEF Accepted
    <3> QED
      BY <3>1, <3>2
  <2>10. ASSUME NEW b \in attempts, Refused(b) PROVE \E a \in attempts' : a.work = v
    <3>1. CASE v = b.work
      <4>1. ~Exhausted(b)
        BY <2>10, <3>1 DEF Refused
      <4>2. pending'[v].event = b.event
        BY <2>10, <3>1, <4>1 DEF Refused, HookTypeOK
      <4> QED
        BY <4>2, CopyIsTyped DEF NoDelivery, Outcome
    <3>2. CASE v # b.work
      <4>1. record'[v] = record[v] /\ pending'[v] = pending[v] /\ v \notin lapsed
        BY <2>10, <3>2, CopyIsTyped DEF Refused, HookTypeOK
      <4>2. PICK a \in attempts : a.work = v
        BY <4>1 DEF OutcomeOwed
      <4> QED
        BY <2>10, <3>2, <4>2 DEF Refused
    <3> QED
      BY <3>1, <3>2
  <2>11. CASE AlarmFires \/ ListPending \/ AlarmEnds \/ EndSpeech \/ UNCHANGED hookVars
    BY <2>11 DEF AlarmFires, ListPending, AlarmEnds, EndSpeech, hookVars, OutcomeOwed
  <2>12. ASSUME NEW s \in sweep, SweepNext(s) PROVE \E a \in attempts' : a.work = v
    <3>1. record'[v] = record[v] /\ lapsed' = lapsed /\ s.work \in Work
      BY <2>12 DEF SweepNext, HookTypeOK
    <3>2. ~record[v].sent
      BY <3>1 DEF Owed
    <3>3. CASE record[s.work].sent
      <4>1. v # s.work
        BY <3>2, <3>3
      <4>2. pending[v] = NoDelivery /\ attempts' = attempts
        BY <2>12, <3>3, <4>1 DEF SweepNext, HookTypeOK
      <4> QED
        BY <3>1, <4>2 DEF OutcomeOwed
    <3>4. CASE ~record[s.work].sent
      <4>1. attempts \subseteq attempts' /\ pending' = pending
        BY <2>12, <3>4 DEF SweepNext
      <4> QED
        BY <3>1, <4>1 DEF OutcomeOwed
    <3> QED
      BY <3>3, <3>4
  <2>13. ASSUME NEW k \in {"graph", "asr"}, SetDeadline(k) PROVE \E a \in attempts' : a.work = v
    BY <2>13 DEF SetDeadline, OutcomeOwed
  <2>14. CASE Restart
    <3>1. record'[v] = record[v] /\ pending[v] = NoDelivery /\ v \notin lapsed
      BY <2>14 DEF Restart
    <3>2. PICK a \in attempts : a.work = v
      BY <3>1 DEF OutcomeOwed
    <3>3. v \in lapsed'
      BY <2>14, <3>1, <3>2 DEF Restart
    <3> QED
      BY <3>3
  <2>15. ASSUME NEW w \in Work, NEW out \in {"complete", "failed"}, AnswerAgain(w, out)
         PROVE \E a \in attempts' : a.work = v
    <3> DEFINE r == [record[w] EXCEPT !.state = out, !.agent = FALSE]
    <3>1. r \in Record
      BY FinishedIsTyped DEF Outcome
    <3>2. /\ attempts' = Scheduled(w, r, TRUE, "handler") /\ Saved(w, r)
          /\ UNCHANGED <<pending, lapsed>>
      BY <2>15 DEF AnswerAgain
    <3> HIDE DEF r
    <3> QED
      BY <2>1, <3>1, <3>2
  <2>16. ASSUME NEW w \in Work, Redispatch(w) \/ Overwrite(w)
         PROVE \E a \in attempts' : a.work = v
    <3>1. PICK sent \in {FALSE, record[w].sent} :
            record' = [record EXCEPT ![w] = [state |-> "open", agent |-> TRUE, sent |-> sent]]
      BY <2>16 DEF Redispatch, Overwrite, Saved
    <3>2. v # w
      BY <3>1 DEF Owed, Outcome, HookTypeOK
    <3>3. PICK a \in attempts : a.work = v
      BY <2>16, <3>1, <3>2 DEF Redispatch, Overwrite, OutcomeOwed, HookTypeOK
    <3>4. a \in attempts'
      BY <2>16, <3>2, <3>3 DEF Redispatch, Overwrite, Detached
    <3> QED
      BY <3>3, <3>4
  <2> QED
    BY <2>3, <2>4, <2>5, <2>6, <2>7, <2>8, <2>9, <2>10, <2>11, <2>12, <2>13, <2>14, <2>15, <2>16
    DEF HookNext
<1> QED
  BY <1>1, <1>2, HookTypes, PTL DEF HookSpec

-----------------------------------------------------------------------------
(* One story                                                               *)

(* Until a work is taken up again, all that is under way, stored or listed *)
(* for it is of the outcome on record; so there is nothing of a work still *)
(* open or lost, and the one outcome it then gets is the only one told.    *)
StoryOf(w) ==
  /\ \A a \in attempts : a.work = w =>
       a.event = record[w].state /\ a.copy.state = a.event /\ a.says = a.event
  /\ pending[w] # NoDelivery => pending[w].event = record[w].state
  /\ \A s \in sweep : s.work = w => s.state.event = record[w].state
  /\ \A n \in told[w] : n.event = n.state /\ n.state = record[w].state

StoryInv == \A w \in Work : again[w] = 0 => StoryOf(w)

LEMMA OpenHasNoStory ==
  ASSUME HookTypeOK, NEW w \in Work, StoryOf(w), record[w].state \notin Outcome
  PROVE  /\ \A a \in attempts : a.work # w
         /\ pending[w] = NoDelivery
         /\ \A s \in sweep : s.work # w
         /\ told[w] = {}
<1>1. \A a \in attempts : a.work # w
  BY CopyIsTyped DEF StoryOf, Outcome
<1>2. pending[w] = NoDelivery
  BY DEF StoryOf, HookTypeOK, Delivery, Outcome
<1>3. \A s \in sweep : s.work # w
  BY DEF StoryOf, HookTypeOK, Delivery, Outcome
<1>4. told[w] = {}
  BY DEF StoryOf, HookTypeOK, Outcome
<1> QED
  BY <1>1, <1>2, <1>3, <1>4

(* A work gets its outcome, and the attempt that goes with it.             *)
LEMMA OutcomeBeginsStory ==
  ASSUME HookTypeOK, StoryInv, NEW u \in Work, record[u].state \notin Outcome, NEW r \in Record,
         NEW live \in BOOLEAN, NEW by \in {"handler", "alarm"}, Saved(u, r),
         attempts' = Scheduled(u, r, live, by), UNCHANGED <<pending, sweep, told, again>>
  PROVE  StoryInv'
<1> SUFFICES ASSUME NEW w \in Work, again[w] = 0 PROVE StoryOf(w)'
  BY DEF StoryInv
<1>1. StoryOf(w)
  BY DEF StoryInv
<1>2. attempts \subseteq attempts' /\ \A a \in attempts' \ attempts :
        a.work = u /\ a.event = r.state /\ a.says = r.state /\ a.copy = r
  BY ScheduledIsTyped DEF Scheduled
<1>3. CASE w = u
  <2>1. record'[w] = r
    BY <1>3 DEF Saved, HookTypeOK
  <2>2. /\ \A a \in attempts : a.work # w
        /\ pending[w] = NoDelivery
        /\ \A s \in sweep : s.work # w
        /\ told[w] = {}
    BY <1>1, <1>3, OpenHasNoStory
  <2> QED
    BY <1>2, <2>1, <2>2 DEF StoryOf
<1>4. CASE w # u
  <2>1. record'[w] = record[w]
    BY <1>4 DEF Saved, HookTypeOK
  <2> QED
    BY <1>1, <1>2, <1>4, <2>1 DEF StoryOf
<1> QED
  BY <1>3, <1>4

(* The receiver of a work that ends once is told one outcome, the one on   *)
(* record for good, and never a notification whose event and payload       *)
(* disagree, though a delivery reads the record when it is made and a lost *)
(* work may be answered late (relay-webhooks.ts, getWebhookPayload).  A    *)
(* retry, a second answer, a dispatch or an upload that did not see the    *)
(* end are taking the work up again: of those nothing is claimed.          *)
THEOREM OneStoryIsTold == HookSpec => []OneStory
<1>1. HookInit => StoryInv
  BY DEF HookInit, StoryInv, StoryOf
<1>2. HookTypeOK /\ StoryInv /\ [HookNext]_hookVars => StoryInv'
  <2> SUFFICES ASSUME HookTypeOK, StoryInv, [HookNext]_hookVars PROVE StoryInv'
    OBVIOUS
  <2>1. ASSUME NEW w \in Work, NEW out \in {"complete", "failed"}, Finish(w, out)
        PROVE StoryInv'
    <3> DEFINE r == [record[w] EXCEPT !.state = out, !.agent = FALSE]
               live == w \notin Graph
    <3>1. r \in Record
      BY <2>1, FinishedIsTyped DEF Outcome
    <3>2. /\ attempts' = Scheduled(w, r, live, "handler") /\ Saved(w, r)
          /\ record[w].state \notin Outcome /\ UNCHANGED <<pending, sweep, told, again>>
      BY <2>1 DEF Finish, Outcome
    <3>3. live \in BOOLEAN
      OBVIOUS
    <3> HIDE DEF r, live
    <3> QED
      BY <3>1, <3>2, <3>3, OutcomeBeginsStory
  <2>2. ASSUME NEW w \in Work, Cancel(w) PROVE StoryInv'
    <3> DEFINE r == [record[w] EXCEPT !.state = "cancelled", !.agent = @ /\ w \in Graph]
               live == w \notin Graph
    <3>1. r \in Record
      BY CancelledIsTyped
    <3>2. /\ attempts' = Scheduled(w, r, live, "handler") /\ Saved(w, r)
          /\ record[w].state \notin Outcome /\ UNCHANGED <<pending, sweep, told, again>>
      BY <2>2 DEF Cancel, Outcome
    <3>3. live \in BOOLEAN
      OBVIOUS
    <3> HIDE DEF r, live
    <3> QED
      BY <3>1, <3>2, <3>3, OutcomeBeginsStory
  <2>3. ASSUME NEW w \in Work, FailStale(w) PROVE StoryInv'
    <3> DEFINE r == [record[w] EXCEPT !.state = "failed", !.agent = FALSE]
    <3>1. r \in Record
      BY FinishedIsTyped DEF Outcome
    <3>2. /\ attempts' = Scheduled(w, r, TRUE, "alarm") /\ Saved(w, r)
          /\ record[w].state \notin Outcome /\ UNCHANGED <<pending, sweep, told, again>>
      BY <2>3 DEF FailStale, Outcome
    <3> HIDE DEF r
    <3> QED
      BY <3>1, <3>2, OutcomeBeginsStory
  <2>4. ASSUME NEW w \in Work, Settle(w) PROVE StoryInv'
    <3>1. \A v \in Work : record'[v].state = record[v].state
      BY <2>4 DEF Settle, Saved, HookTypeOK, Record
    <3> QED
      BY <2>4, <3>1 DEF Settle, StoryInv, StoryOf
  <2>5. ASSUME NEW w \in Work, Retry(w) \/ Redispatch(w) \/ Overwrite(w)
                              \/ \E out \in {"complete", "failed"} : AnswerAgain(w, out)
        PROVE StoryInv'
    <3> SUFFICES ASSUME NEW v \in Work, again'[v] = 0 PROVE StoryOf(v)'
      BY DEF StoryInv
    <3>1. Again(w)
      BY <2>5 DEF Retry, Redispatch, Overwrite, AnswerAgain
    <3>2. v # w /\ again[v] = 0 /\ told'[v] = told[v]
      BY <3>1, AgainIsTyped
    <3>3. record'[v] = record[v] /\ pending' = pending /\ sweep' = sweep
      BY <2>5, <3>2 DEF Retry, Redispatch, Overwrite, AnswerAgain, Saved, HookTypeOK
    <3>4. \A a \in attempts' : a.work = v => a \in attempts
      <4>1. ASSUME NEW out \in {"complete", "failed"}, AnswerAgain(w, out)
            PROVE \A a \in attempts' : a.work = v => a \in attempts
        <5> DEFINE r == [record[w] EXCEPT !.state = out, !.agent = FALSE]
        <5>1. r \in Record
          BY FinishedIsTyped DEF Outcome
        <5>2. attempts' = Scheduled(w, r, TRUE, "handler")
          BY <4>1 DEF AnswerAgain
        <5> HIDE DEF r
        <5>3. \A a \in attempts' \ attempts :
                a.work = w /\ a.event = r.state /\ a.says = r.state /\ a.copy = r
          BY <5>1, <5>2, ScheduledIsTyped
        <5> QED
          BY <3>2, <5>2, <5>3
      <4>2. ASSUME Retry(w) \/ Redispatch(w) \/ Overwrite(w)
            PROVE \A a \in attempts' : a.work = v => a \in attempts
        BY <3>2, <4>2, DetachedIsTyped DEF Retry, Redispatch, Overwrite
      <4> QED
        BY <2>5, <4>1, <4>2
    <3>5. StoryOf(v)
      BY <3>2 DEF StoryInv
    <3> QED
      BY <3>2, <3>3, <3>4, <3>5 DEF StoryOf
  <2>6. ASSUME NEW w \in Work, Lose(w) \/ Progress(w) PROVE StoryInv'
    <3> SUFFICES ASSUME NEW v \in Work, again[v] = 0 PROVE StoryOf(v)'
      BY <2>6 DEF StoryInv, Lose, Progress
    <3>1. StoryOf(v)
      BY DEF StoryInv
    <3>2. CASE v = w
      <4>1. /\ \A a \in attempts : a.work # v
            /\ pending[v] = NoDelivery
            /\ \A s \in sweep : s.work # v
            /\ told[v] = {}
        BY <2>6, <3>1, <3>2, OpenHasNoStory DEF Lose, Progress, Outcome
      <4> QED
        BY <2>6, <4>1 DEF Lose, Progress, StoryOf
    <3>3. CASE v # w
      <4>1. record'[v] = record[v]
        BY <2>6, <3>3 DEF Lose, Progress, Saved, HookTypeOK
      <4> QED
        BY <2>6, <3>1, <4>1 DEF Lose, Progress, StoryOf
    <3> QED
      BY <3>2, <3>3
  <2>7. ASSUME NEW b \in attempts, Accepted(b) PROVE StoryInv'
    <3> SUFFICES ASSUME NEW v \in Work, again[v] = 0 PROVE StoryOf(v)'
      BY <2>7 DEF StoryInv, Accepted
    <3>1. StoryOf(v) /\ attempts' \subseteq attempts /\ sweep' = sweep
      BY <2>7 DEF StoryInv, Accepted
    <3>2. CASE v = b.work
      <4>1. b.event = record[v].state /\ Copy(b).state = record[v].state
        BY <3>1, <3>2 DEF StoryOf, Copy
      <4>2. record'[v].state = record[v].state
        BY <2>7, <3>2, <4>1, CopyIsTyped DEF Accepted, Saved, HookTypeOK, Record
      <4>3. pending'[v] = NoDelivery /\ told'[v] = told[v] \cup Tells(b)
        BY <2>7, <3>2 DEF Accepted, HookTypeOK
      <4>4. \A n \in Tells(b) : n.event = record[v].state /\ n.state = record[v].state
        BY <3>1, <3>2 DEF Tells, Notice, StoryOf
      <4> QED
        BY <3>1, <4>1, <4>2, <4>3, <4>4 DEF StoryOf
    <3>3. CASE v # b.work
      <4>1. record'[v] = record[v] /\ pending'[v] = pending[v] /\ told'[v] = told[v]
        BY <2>7, <3>3 DEF Accepted, Saved, HookTypeOK
      <4> QED
        BY <3>1, <4>1 DEF StoryOf
    <3> QED
      BY <3>2, <3>3
  <2>8. ASSUME NEW b \in attempts, Refused(b) PROVE StoryInv'
    <3> SUFFICES ASSUME NEW v \in Work, again[v] = 0 PROVE StoryOf(v)'
      BY <2>8 DEF StoryInv, Refused
    <3>1. /\ StoryOf(v) /\ attempts' \subseteq attempts /\ sweep' = sweep
          /\ record' = record /\ told' = told
      BY <2>8 DEF StoryInv, Refused
    <3>2. pending'[v] # NoDelivery => pending'[v].event = record[v].state
      <4>1. CASE v = b.work
        <5>1. b.event = record[v].state
          BY <3>1, <4>1 DEF StoryOf
        <5> QED
          BY <2>8, <4>1, <5>1 DEF Refused, HookTypeOK
      <4>2. CASE v # b.work
        BY <2>8, <3>1, <4>2 DEF Refused, HookTypeOK, StoryOf
      <4> QED
        BY <4>1, <4>2
    <3> QED
      BY <3>1, <3>2 DEF StoryOf
  <2>9. CASE ListPending
    <3> SUFFICES ASSUME NEW v \in Work, again[v] = 0 PROVE StoryOf(v)'
      BY <2>9 DEF StoryInv, ListPending
    <3>1. StoryOf(v)
      BY DEF StoryInv
    <3> QED
      BY <2>9, <3>1 DEF ListPending, StoryOf
  <2>10. ASSUME NEW s \in sweep, SweepNext(s) PROVE StoryInv'
    <3> SUFFICES ASSUME NEW v \in Work, again[v] = 0 PROVE StoryOf(v)'
      BY <2>10 DEF StoryInv, SweepNext
    <3>1. /\ StoryOf(v) /\ record' = record /\ sweep' \subseteq sweep /\ told' = told
      BY <2>10 DEF StoryInv, SweepNext
    <3>2. \A a \in attempts' \ attempts :
            /\ a.work = s.work /\ a.event = s.state.event
            /\ a.copy = record[s.work] /\ a.says = record[s.work].state
      BY <2>10 DEF SweepNext
    <3>3. pending'[v] \in {pending[v], NoDelivery}
      BY <2>10 DEF SweepNext, HookTypeOK
    <3> QED
      BY <3>1, <3>2, <3>3 DEF StoryOf
  <2>11. CASE Restart
    <3> SUFFICES ASSUME NEW v \in Work, again[v] = 0 PROVE StoryOf(v)'
      BY <2>11 DEF StoryInv, Restart
    <3>1. /\ StoryOf(v) /\ attempts' = {} /\ sweep' = {} /\ record' = record
          /\ pending' = pending
      BY <2>11 DEF StoryInv, Restart
    <3>2. \A n \in told'[v] : n \in told[v] \/ \E a \in attempts : a.work = v /\ n \in Tells(a)
      BY <2>11 DEF Restart
    <3>3. \A a \in attempts : a.work = v => \A n \in Tells(a) :
            n.event = record[v].state /\ n.state = record[v].state
      BY <3>1 DEF StoryOf, Tells, Notice
    <3> QED
      BY <3>1, <3>2, <3>3 DEF StoryOf
  <2>12. ASSUME UNCHANGED <<record, pending, attempts, sweep, told, again>> PROVE StoryInv'
    BY <2>12 DEF StoryInv, StoryOf
  <2>13. CASE AlarmFires \/ AlarmEnds \/ EndSpeech \/ UNCHANGED hookVars
    BY <2>12, <2>13 DEF AlarmFires, AlarmEnds, EndSpeech, hookVars
  <2>14. ASSUME NEW k \in {"graph", "asr"}, SetDeadline(k) PROVE StoryInv'
    BY <2>12, <2>14 DEF SetDeadline
  <2> QED
    BY <2>1, <2>2, <2>3, <2>4, <2>5, <2>6, <2>7, <2>8, <2>9, <2>10, <2>11, <2>13, <2>14
    DEF HookNext
<1>3. StoryInv => OneStory
  BY DEF StoryInv, StoryOf, OneStory
<1> QED
  BY <1>1, <1>2, <1>3, HookTypes, PTL DEF HookSpec
=============================================================================
