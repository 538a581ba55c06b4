--------------------------- MODULE AccountProofs ---------------------------
(***************************************************************************)
(* Proofs about Account, for any requests, nodes, accounts and bounds:     *)
(* type correctness, and what holds of sessions, of their reservations and *)
(* of idempotency keys.                                                    *)
(***************************************************************************)
EXTENDS Account, TLAPS

-----------------------------------------------------------------------------
(* Types of the parts the actions are made of                              *)

LEMMA SentIsTyped ==
  ASSUME RequestTypeOK, NEW d \in Device, NEW m \in Message
  PROVE  Sent(d, m) \in [Device -> Seq(Message)]
  BY DEF Sent, RequestTypeOK

LEMMA HeadIsTyped ==
  ASSUME RequestTypeOK, NEW d \in Device, wire[d] # <<>>
  PROVE  Head(wire[d]) \in Message /\ Tail(wire[d]) \in Seq(Message)
<1>1. wire[d] \in Seq(Message)
  BY DEF RequestTypeOK
<1> QED
  BY <1>1

LEMMA TakenIsTyped ==
  ASSUME RequestTypeOK, NEW d \in Device, wire[d] # <<>>, Taken(d)
  PROVE  wire' \in [Device -> Seq(Message)]
  BY HeadIsTyped DEF Taken, RequestTypeOK

LEMMA ReleaseIsTyped ==
  ASSUME RequestTypeOK, NEW d, Release(d)
  PROVE  reserved' \in [Device -> Owner \cup {None}]
  BY DEF Release, RequestTypeOK

LEMMA SetStateIsTyped ==
  ASSUME RequestTypeOK, NEW w \in Work, NEW s \in State, SetState(w, s)
  PROVE  work' \in [Work -> [state : State, agent : Device \cup {None}]]
  BY DEF SetState, RequestTypeOK

LEMMA FailWorkIsTyped ==
  ASSUME RequestTypeOK, NEW D \in SUBSET Device, FailWork(D)
  PROVE  /\ work' \in [Work -> [state : State, agent : Device \cup {None}]]
         /\ mem' \subseteq Work
<1>1. \A w \in Work : [work[w] EXCEPT !.state = "failed"] \in [state : State, agent : Device \cup {None}]
  BY DEF RequestTypeOK, State
<1> QED
  BY <1>1 DEF FailWork, RequestTypeOK

LEMMA AssignIsTyped ==
  ASSUME mem' \subseteq Work, AssignQueued
  PROVE  todo' \subseteq Work
  BY DEF AssignQueued

LEMMA DispatchIsTyped ==
  ASSUME RequestTypeOK, NEW w \in Work, NEW d \in Device, Dispatch(w, d)
  PROVE  /\ work' \in [Work -> [state : State, agent : Device \cup {None}]]
         /\ mem' \subseteq Work
         /\ reserved' \in [Device -> Owner \cup {None}]
         /\ tasks' \subseteq Task
<1>1. [dev |-> d, work |-> w, n |-> 0, at |-> "waits"] \in Task
  BY DEF Task
<1> QED
  BY <1>1 DEF Dispatch, RequestTypeOK, State, Owner

LEMMA PlaceIsTyped ==
  ASSUME RequestTypeOK, NEW w \in Work, Place(w)
  PROVE  /\ work' \in [Work -> [state : State, agent : Device \cup {None}]]
         /\ mem' \subseteq Work
         /\ reserved' \in [Device -> Owner \cup {None}]
         /\ tasks' \subseteq Task
<1>1. Candidates(w) \subseteq Device
  BY DEF Candidates, RequestTypeOK
<1>2. ASSUME NEW s \in {"refused", "queued"}, SetState(w, s)
      PROVE work' \in [Work -> [state : State, agent : Device \cup {None}]]
  BY <1>2, SetStateIsTyped DEF State
<1> QED
  BY <1>1, <1>2, DispatchIsTyped DEF Place, RequestTypeOK

LEMMA MovedIsTyped ==
  ASSUME RequestTypeOK, NEW t \in tasks, NEW at \in {"waits", "runs", "stopped", "reported"},
         Moved(t, at)
  PROVE  tasks' \subseteq Task
<1>1. t \in Task /\ [t EXCEPT !.at = at] \in Task
  BY DEF RequestTypeOK, Task
<1> QED
  BY <1>1 DEF Moved, RequestTypeOK

-----------------------------------------------------------------------------
(* Types of requests and nodes                                             *)

LEMMA SubmitIsTyped ==
  ASSUME RequestTypeOK, NEW w \in Work, SubmitStep(w)
  PROVE  RequestTypeOK'
<1>1. ASSUME Place(w), Submitted(w), keyed' \in Work \cup {None}
      PROVE  RequestTypeOK'
  BY <1>1, PlaceIsTyped DEF Submitted, RequestTypeOK
<1>2. CASE SubmitChat(w)
  BY <1>1, <1>2 DEF SubmitChat, RequestTypeOK
<1>3. CASE RepeatChat(w)
  <2>1. work' \in [Work -> [state : State, agent : Device \cup {None}]]
    BY <1>3, SetStateIsTyped DEF RepeatChat, State
  <2>2. mem' \subseteq Work
    BY <1>3 DEF RepeatChat, RequestTypeOK
  <2> QED
    BY <1>3, <2>1, <2>2 DEF RepeatChat, Submitted, RequestTypeOK
<1>4. ASSUME NEW k \in Kind, Submit(w, k) PROVE RequestTypeOK'
  BY <1>1, <1>4 DEF Submit, RequestTypeOK
<1> QED
  BY <1>2, <1>3, <1>4
  DEF SubmitStep, SubmitTalk, SubmitAsr, SubmitEmbed, SubmitOcr, SubmitTool, Kind

LEMMA PollIsTyped ==
  ASSUME RequestTypeOK, NEW w \in Work, PollStep(w)
  PROVE  RequestTypeOK'
<1>1. ASSUME NEW k \in Kind, Poll(w, k) PROVE RequestTypeOK'
  BY <1>1 DEF Poll, nodeVars, RequestTypeOK
<1> QED
  BY <1>1 DEF PollStep, PollChat, PollTalk, PollAsr, PollEmbed, PollOcr, PollTool, Kind

LEMMA CancelIsTyped ==
  ASSUME RequestTypeOK, NEW w \in Work, CancelStep(w)
  PROVE  RequestTypeOK'
<1>1. ASSUME NEW k \in Kind, Cancel(w, k) PROVE RequestTypeOK'
  <2>1. work' \in [Work -> [state : State, agent : Device \cup {None}]]
    BY <1>1, SetStateIsTyped DEF Cancel, State
  <2>2. mem' \subseteq Work /\ todo' \subseteq Work
    BY <1>1, AssignIsTyped DEF Cancel, RequestTypeOK
  <2>3. reserved' \in [Device -> Owner \cup {None}]
    BY <1>1, ReleaseIsTyped DEF Cancel
  <2>4. tasks' \subseteq Task
    <3>1. \A t \in tasks : t \in Task /\ [t EXCEPT !.at = "stopped"] \in Task
      BY DEF RequestTypeOK, Task
    <3> QED
      BY <1>1, <3>1 DEF Cancel, Stopped
  <2> QED
    BY <1>1, <2>1, <2>2, <2>3, <2>4 DEF Cancel, RequestTypeOK
<1> QED
  BY <1>1 DEF CancelStep, CancelChat, CancelTalk, CancelAsr, CancelEmbed, CancelOcr, CancelTool,
              Kind

LEMMA SettleIsTyped ==
  ASSUME RequestTypeOK, NEW w \in Work, NEW s \in {"complete", "failed"}, Settle(w, s)
  PROVE  /\ work' \in [Work -> [state : State, agent : Device \cup {None}]]
         /\ mem' \subseteq Work /\ todo' \subseteq Work
         /\ reserved' \in [Device -> Owner \cup {None}]
<1>1. work' \in [Work -> [state : State, agent : Device \cup {None}]]
  BY SetStateIsTyped DEF Settle, State
<1>2. mem' \subseteq Work
  BY DEF Settle, RequestTypeOK
<1> QED
  BY <1>1, <1>2, AssignIsTyped, ReleaseIsTyped DEF Settle

LEMMA AnswerIsTyped ==
  ASSUME RequestTypeOK, NEW d \in Device, AnswerStep(d)
  PROVE  RequestTypeOK'
<1> DEFINE w == Head(wire[d]).of
           Kept == /\ work' \in [Work -> [state : State, agent : Device \cup {None}]]
                   /\ mem' \subseteq Work /\ todo' \subseteq Work
                   /\ reserved' \in [Device -> Owner \cup {None}]
<1>1. ASSUME NEW k \in Kind, Answer(d, k), Kept PROVE RequestTypeOK'
  <2>1. wire' \in [Device -> Seq(Message)]
    BY <1>1, TakenIsTyped DEF Answer, Arrives
  <2> QED
    BY <1>1, <2>1 DEF Answer, RequestTypeOK
<1>2. ASSUME NEW k \in Kind, Answer(d, k) PROVE w \in Work
  BY <1>2 DEF Answer
<1>3. ASSUME Ignore PROVE Kept
  BY <1>3 DEF Ignore, RequestTypeOK
<1>4. ASSUME w \in Work, NEW s \in {"complete", "failed"}, Settle(w, s) PROVE Kept
  BY <1>4, SettleIsTyped
<1>5. Outcome(Head(wire[d])) \in {"complete", "failed"}
  BY DEF Outcome
<1>6. CASE HandleChatResponse(d)
  <2>1. w \in Work
    BY <1>2, <1>6 DEF HandleChatResponse, Kind
  <2>2. ASSUME SetState(w, "claimed"), mem' = mem \cup {w}, UNCHANGED <<reserved, todo>>
        PROVE Kept
    BY <2>1, <2>2, SetStateIsTyped DEF State, RequestTypeOK
  <2>3. Kept
    BY <1>3, <1>6, <2>2 DEF HandleChatResponse
  <2> QED
    BY <1>1, <1>6, <2>3 DEF HandleChatResponse, Kind
<1>7. CASE HandleChatError(d)
  <2>1. Kept
    BY <1>2, <1>3, <1>4, <1>7 DEF HandleChatError, Kind
  <2> QED
    BY <1>1, <1>7, <2>1 DEF HandleChatError, Kind
<1>8. ASSUME NEW k \in Kind, LateAnswer(d, k) PROVE RequestTypeOK'
  <2>1. Kept
    BY <1>2, <1>3, <1>4, <1>5, <1>8 DEF LateAnswer
  <2> QED
    BY <1>1, <1>8, <2>1 DEF LateAnswer
<1>9. CASE HandleToolAnswer(d)
  <2>1. Kept
    BY <1>2, <1>4, <1>5, <1>9 DEF HandleToolAnswer, Kind
  <2> QED
    BY <1>1, <1>9, <2>1 DEF HandleToolAnswer, Kind
<1> QED
  BY <1>6, <1>7, <1>8, <1>9
  DEF AnswerStep, HandleTalkAnswer, HandleAsrAnswer, HandleEmbedAnswer, HandleOcrAnswer, Kind

LEMMA RelayIsTyped ==
  ASSUME RequestTypeOK, NEW d \in Device,
         \/ HandleAvailability(d) \/ HandleInventory(d) \/ HandleAuth(d)
         \/ \E p \in {"open", "closed", "revoked"} : SetPolicy(d, p)
         \/ HandleClose(d)
  PROVE  RequestTypeOK'
<1>1. CASE HandleAvailability(d)
  <2>1. wire[d] # <<>> /\ Taken(d)
    BY <1>1 DEF HandleAvailability, Arrives
  <2>2. wire' \in [Device -> Seq(Message)]
    BY <2>1, TakenIsTyped
  <2>3. Head(wire[d]).of \in Owner \cup {None}
    BY <2>1, HeadIsTyped DEF Message, NodeOwner
  <2>4. reserved' \in [Device -> Owner \cup {None}]
    BY <1>1, <2>3 DEF HandleAvailability, RequestTypeOK
  <2>5. todo' \subseteq Work
    BY <1>1, AssignIsTyped DEF HandleAvailability, RequestTypeOK
  <2> QED
    BY <1>1, <2>2, <2>4, <2>5 DEF HandleAvailability, RequestTypeOK
<1>2. CASE HandleInventory(d)
  <2>1. todo' \subseteq Work
    BY <1>2, AssignIsTyped DEF HandleInventory, RequestTypeOK
  <2> QED
    BY <1>2, <2>1 DEF HandleInventory, nodeVars, RequestTypeOK
<1>3. CASE HandleAuth(d)
  <2>1. /\ work' \in [Work -> [state : State, agent : Device \cup {None}]]
        /\ mem' \subseteq Work
    BY <1>3, FailWorkIsTyped DEF HandleAuth
  <2>2. wire' \in [Device -> Seq(Message)]
    BY <1>3 DEF HandleAuth, RequestTypeOK
  <2>3. reserved' \in [Device -> Owner \cup {None}]
    BY <1>3 DEF HandleAuth, RequestTypeOK, NodeOwner
  <2>4. todo' \subseteq Work
    BY <1>3, <2>1, AssignIsTyped DEF HandleAuth, RequestTypeOK
  <2>5. connected' \subseteq Device /\ linked' \subseteq Device
    BY <1>3 DEF HandleAuth, RequestTypeOK
  <2>6. policy' \in [Device -> {"unknown", "open", "closed", "revoked"}]
    BY <1>3 DEF HandleAuth, RequestTypeOK
  <2> QED
    <3>1. UNCHANGED <<setup, keyed, restarts, tasks, gate, last, dirty>>
      BY <1>3 DEF HandleAuth
    <3> QED
      BY <3>1, <2>1, <2>2, <2>3, <2>4, <2>5, <2>6 DEF RequestTypeOK
<1>4. ASSUME NEW p \in {"open", "closed", "revoked"}, SetPolicy(d, p) PROVE RequestTypeOK'
  <2>1. /\ work' \in [Work -> [state : State, agent : Device \cup {None}]]
        /\ mem' \subseteq Work
    <3>1. (IF p = "revoked" THEN {d} \cap connected ELSE {}) \in SUBSET Device
      OBVIOUS
    <3> QED
      BY <1>4, <3>1, FailWorkIsTyped DEF SetPolicy
  <2>2. todo' \subseteq Work
    BY <1>4, <2>1, AssignIsTyped DEF SetPolicy
  <2> QED
    BY <1>4, <2>1, <2>2 DEF SetPolicy, nodeVars, RequestTypeOK
<1>5. CASE HandleClose(d)
  <2>1. /\ work' \in [Work -> [state : State, agent : Device \cup {None}]]
        /\ mem' \subseteq Work
    BY <1>5, FailWorkIsTyped DEF HandleClose
  <2>2. wire' \in [Device -> Seq(Message)]
    BY <1>5 DEF HandleClose, RequestTypeOK
  <2>3. todo' \subseteq Work
    BY <1>5, <2>1, AssignIsTyped DEF HandleClose
  <2> QED
    BY <1>5, <2>1, <2>2, <2>3 DEF HandleClose, RequestTypeOK
<1> QED
  BY <1>1, <1>2, <1>3, <1>4, <1>5

LEMMA LostIsTyped ==
  ASSUME RequestTypeOK,
         \/ PlaceNext \/ Hibernate \/ Restart
         \/ \E w \in Work : ChatHashed(w)
         \/ \E t \in tasks : HandleToolProgress(t)
         \/ \E D \in SUBSET Device : CleanupStale(D)
  PROVE  RequestTypeOK'
<1>1. CASE PlaceNext
  <2>1. PICK w \in todo : PlaceNext!(w)
    BY <1>1 DEF PlaceNext
  <2>2. w \in Work /\ Candidates(w) \subseteq Device
    BY <2>1 DEF Candidates, RequestTypeOK
  <2>3. /\ work' \in [Work -> [state : State, agent : Device \cup {None}]]
        /\ mem' \subseteq Work
        /\ reserved' \in [Device -> Owner \cup {None}]
        /\ tasks' \subseteq Task
    BY <2>1, <2>2, DispatchIsTyped DEF RequestTypeOK
  <2> QED
    BY <2>1, <2>3 DEF RequestTypeOK
<1>0. ASSUME Counted, setup' = setup PROVE restarts' \in 0 .. setup'.restarts
  <2>1. setup.restarts \in Nat
    BY RequestConstants DEF RequestTypeOK, SetupRecord
  <2> QED
    BY <1>0, <2>1 DEF Counted, RequestTypeOK
<1>2. CASE Hibernate
  BY <1>0, <1>2 DEF Hibernate, nodeVars, RequestTypeOK
<1>3. CASE Restart
  <2>1. \A w \in Work : [work[w] EXCEPT !.state = "processing"]
                          \in [state : State, agent : Device \cup {None}]
    BY DEF RequestTypeOK, State
  <2>2. work' \in [Work -> [state : State, agent : Device \cup {None}]]
    BY <1>3, <2>1 DEF Restart, RequestTypeOK
  <2> QED
    BY <1>0, <1>3, <2>2 DEF Restart, RequestTypeOK
<1>4. ASSUME NEW w \in Work, ChatHashed(w) PROVE RequestTypeOK'
  BY <1>4, SettleIsTyped DEF ChatHashed, nodeVars, RequestTypeOK
<1>5. ASSUME NEW t \in tasks, HandleToolProgress(t) PROVE RequestTypeOK'
  BY <1>5 DEF HandleToolProgress, nodeVars, RequestTypeOK
<1>6. ASSUME NEW D \in SUBSET Device, CleanupStale(D) PROVE RequestTypeOK'
  <2>1. /\ work' \in [Work -> [state : State, agent : Device \cup {None}]]
        /\ mem' \subseteq Work
    BY <1>6, FailWorkIsTyped DEF CleanupStale
  <2>2. todo' \subseteq Work
    BY <1>6, <2>1, AssignIsTyped DEF CleanupStale
  <2> QED
    BY <1>6, <2>1, <2>2 DEF CleanupStale, nodeVars, RequestTypeOK
<1> QED
  BY <1>1, <1>2, <1>3, <1>4, <1>5, <1>6

LEMMA NodeIsTyped ==
  ASSUME RequestTypeOK,
         \/ \E d \in Device : Publish(d) \/ NodeDrop(d) \/ LocalStarts(d) \/ LocalEnds(d)
         \/ \E t \in tasks : TaskStep(t)
  PROVE  RequestTypeOK'
<1>1. ASSUME NEW d \in Device, Publish(d) PROVE RequestTypeOK'
  <2> DEFINE id == IF gate[d] # None THEN gate[d] ELSE last[d]
             m == [type |-> IF gate[d] # None THEN "busy" ELSE "online",
                   of |-> id, n |-> 0, ok |-> TRUE]
  <2>1. id \in NodeOwner \cup {None}
    BY DEF RequestTypeOK
  <2>2. m \in Message
    BY <2>1 DEF Message
  <2>3. wire' = Sent(d, m) /\ last' = [last EXCEPT ![d] = id]
    BY <1>1 DEF Publish
  <2> HIDE DEF m, id
  <2>4. wire' \in [Device -> Seq(Message)]
    BY <2>2, <2>3, SentIsTyped
  <2>5. last' \in [Device -> NodeOwner \cup {None}]
    BY <2>1, <2>3 DEF RequestTypeOK
  <2> QED
    BY <1>1, <2>4, <2>5 DEF Publish, relayVars, RequestTypeOK
<1>2. ASSUME NEW d \in Device, NodeDrop(d) PROVE RequestTypeOK'
  BY <1>2 DEF NodeDrop, relayVars, RequestTypeOK
<1>3. ASSUME NEW d \in Device, LocalStarts(d) \/ LocalEnds(d) PROVE RequestTypeOK'
  <2>1. Local \in NodeOwner
    BY RequestConstants DEF NodeOwner, Owner
  <2> QED
    BY <1>3, <2>1 DEF LocalStarts, LocalEnds, GateChanged, relayVars, RequestTypeOK
<1>4. ASSUME NEW t \in tasks, TaskStep(t) PROVE RequestTypeOK'
  <2>1. t \in Task /\ t.dev \in Device /\ t.n \in Nat /\ t.work \in NodeOwner
    BY RequestConstants DEF RequestTypeOK, Task, NodeOwner, Owner
  <2>2. CASE TaskStarts(t) \/ TaskLeaves(t)
    <3>1. tasks' \subseteq Task
      BY <2>2, MovedIsTyped DEF TaskStarts, TaskLeaves, RequestTypeOK
    <3> QED
      BY <2>1, <2>2, <3>1 DEF TaskStarts, TaskLeaves, GateChanged, relayVars, RequestTypeOK
  <2>3. ASSUME Reports(t) PROVE RequestTypeOK'
    <3>1. tasks' \subseteq Task
      BY <2>3, MovedIsTyped DEF Reports
    <3>2. \A ok \in BOOLEAN : [type |-> "result", of |-> t.work, n |-> t.n, ok |-> ok] \in Message
      BY <2>1 DEF Message
    <3>3. wire' \in [Device -> Seq(Message)]
      BY <2>1, <2>3, <3>2, SentIsTyped DEF Reports
    <3> QED
      BY <2>3, <3>1, <3>3 DEF Reports, relayVars, RequestTypeOK
  <2>4. CASE ToolStops(t)
    BY <2>3, <2>4, MovedIsTyped DEF ToolStops, relayVars, RequestTypeOK
  <2> QED
    BY <1>4, <2>2, <2>3, <2>4
    DEF TaskStep, ChatReports, TalkReports, AsrReports, EmbedReports, OcrReports, ToolReports,
        PlanReports
<1> QED
  BY <1>1, <1>2, <1>3, <1>4

LEMMA RequestsAreTyped ==
  ASSUME RequestTypeOK, RequestNext
  PROVE  RequestTypeOK'
  BY SubmitIsTyped, PollIsTyped, CancelIsTyped, AnswerIsTyped, RelayIsTyped, LostIsTyped, NodeIsTyped
  DEF RequestNext, RequestStep

-----------------------------------------------------------------------------
(* Types of the plan and of the session                                    *)

LEMMA PlanStateIsTyped ==
  ASSUME NEW t
  PROVE  PlanStateOf(t) \in PlanState
<1> DEFINE now == {t[d] : d \in Device} \ {"none"}
<1>1. CASE plan.state = "cancelled"
  BY <1>1 DEF PlanStateOf, PlanState
<1>2. CASE plan.state # "cancelled" /\ "applying" \in now
  BY <1>2 DEF PlanStateOf, PlanState
<1>3. CASE plan.state # "cancelled" /\ "applying" \notin now /\ "ready" \in now
  BY <1>3 DEF PlanStateOf, PlanState
<1>4. CASE plan.state # "cancelled" /\ "applying" \notin now /\ "ready" \notin now
  BY <1>4 DEF PlanStateOf, PlanState
<1> QED
  BY <1>1, <1>2, <1>3, <1>4

LEMMA PlanIsTyped ==
  ASSUME RequestTypeOK, PlanTypeOK, PlanStep
  PROVE  RequestTypeOK' /\ PlanTypeOK'
<1>1. ASSUME NEW lacking, NEW D, CreatePlan(D, lacking) PROVE RequestTypeOK' /\ PlanTypeOK'
  <2>1. target' \in [Device -> TargetState]
    BY <1>1 DEF CreatePlan, TargetState
  <2>2. plan' \in [state : PlanState, attempt : 0 .. MaxApply]
    BY <1>1, PlanStateIsTyped DEF CreatePlan, PlanTypeOK
  <2> QED
    BY <1>1, <2>1, <2>2 DEF CreatePlan, requestVars, relayVars, nodeVars, RequestTypeOK, PlanTypeOK
<1>2. CASE CancelPlan
  BY <1>2 DEF CancelPlan, requestVars, relayVars, nodeVars, RequestTypeOK, PlanTypeOK, PlanState
<1>3. ASSUME NEW lacking, NEW barred, ApplyPlan(lacking, barred)
      PROVE  RequestTypeOK' /\ PlanTypeOK'
  <2>1. plan.attempt \in 0 .. MaxApply /\ plan.attempt + 1 \in 0 .. MaxApply
    BY <1>3, PlanConstants DEF ApplyPlan, PlanTypeOK
  <2>2. target' \in [Device -> TargetState]
    BY <1>3 DEF ApplyPlan, Applied, Attempted, TargetState
  <2>3. plan' \in [state : PlanState, attempt : 0 .. MaxApply]
    BY <1>3, <2>1, PlanStateIsTyped DEF ApplyPlan, Applied
  <2>4. reserved' \in [Device -> Owner \cup {None}]
    BY <1>3 DEF ApplyPlan, Applied, RequestTypeOK, Owner
  <2>5. sent' \subseteq Device
    BY <1>3 DEF ApplyPlan, Applied, RequestTypeOK
  <2>6. \A D \in SUBSET Device : PlanTasks(D) \subseteq Task
    BY <2>1 DEF PlanTasks, Task
  <2>7. tasks' \subseteq Task
    BY <1>3, <2>6 DEF ApplyPlan, Applied, RequestTypeOK
  <2> QED
    BY <1>3, <2>2, <2>3, <2>4, <2>5, <2>7 DEF ApplyPlan, Applied, RequestTypeOK, PlanTypeOK
<1>4. ASSUME NEW d \in Device, HandlePlanResult(d) PROVE RequestTypeOK' /\ PlanTypeOK'
  <2>1. wire' \in [Device -> Seq(Message)]
    BY <1>4, TakenIsTyped DEF HandlePlanResult, Arrives
  <2>2. CASE /\ \E s \in Settled(Head(wire[d]).ok) : target' = [target EXCEPT ![d] = s]
             /\ plan' = [plan EXCEPT !.state = PlanStateOf(target')]
             /\ UNCHANGED <<work, mem, sent>> /\ Release(d) /\ AssignQueued
    <3>1. target' \in [Device -> TargetState]
      BY <1>4, <2>2 DEF Settled, PlanTypeOK, TargetState
    <3>2. plan' \in [state : PlanState, attempt : 0 .. MaxApply]
      BY <1>4, <2>2, PlanStateIsTyped DEF PlanTypeOK
    <3>3. mem' \subseteq Work /\ todo' \subseteq Work
      BY <1>4, <2>2, AssignIsTyped DEF RequestTypeOK
    <3>4. reserved' \in [Device -> Owner \cup {None}]
      BY <1>4, <2>2, ReleaseIsTyped
    <3> QED
      BY <1>4, <2>1, <2>2, <3>1, <3>2, <3>3, <3>4 DEF HandlePlanResult, RequestTypeOK, PlanTypeOK
  <2>3. CASE sent' \subseteq sent /\ UNCHANGED <<plan, target>> /\ Ignore
    BY <1>4, <2>1, <2>3 DEF HandlePlanResult, Ignore, RequestTypeOK, PlanTypeOK
  <2> QED
    BY <1>4, <2>2, <2>3 DEF HandlePlanResult, planVars
<1> QED
  BY <1>1, <1>2, <1>3, <1>4 DEF PlanStep

(* What a step of a session may do to the account: gates, reservations and *)
(* messages keep their types.                                              *)
LEMMA NodeStartsIsTyped ==
  ASSUME RequestTypeOK, StreamTypeOK, NEW d \in Device, NodeStarts(d)
  PROVE  /\ gate' \in [Device -> NodeOwner \cup {None}]
         /\ dirty' \subseteq Device
         /\ wire' \in [Device -> Seq(Message)]
         /\ live' \in [Device -> Live]
<1> DEFINE m == [type |-> "end", of |-> Session, n |-> 0, ok |-> FALSE]
<1>1. m \in Message /\ Session \in NodeOwner
  BY RequestConstants DEF Message, NodeOwner, Owner
<1>2. Sent(d, m) \in [Device -> Seq(Message)]
  BY <1>1, SentIsTyped
<1>3. [at |-> "runs", cancelled |-> FALSE] \in Live
  BY DEF Live
<1>4. UNCHANGED wire \/ wire' = Sent(d, m)
  BY DEF NodeStarts
<1>5. UNCHANGED gate \/ gate' = [gate EXCEPT ![d] = Session]
  BY DEF NodeStarts
<1>6. UNCHANGED dirty \/ GateChanged(d)
  BY DEF NodeStarts
<1>7. UNCHANGED live \/ live' = [live EXCEPT ![d] = [at |-> "runs", cancelled |-> FALSE]]
  BY DEF NodeStarts
<1> HIDE DEF m
<1>8. gate' \in [Device -> NodeOwner \cup {None}]
  BY <1>1, <1>5 DEF RequestTypeOK
<1>9. dirty' \subseteq Device
  BY <1>6 DEF GateChanged, RequestTypeOK
<1>10. wire' \in [Device -> Seq(Message)]
  BY <1>2, <1>4 DEF RequestTypeOK
<1>11. live' \in [Device -> Live]
  BY <1>3, <1>7 DEF StreamTypeOK
<1> QED
  BY <1>8, <1>9, <1>10, <1>11

LEMMA CancelLiveIsTyped ==
  ASSUME StreamTypeOK, CancelLive
  PROVE  live' \in [Device -> Live]
<1>1. \A d \in Device : [live[d] EXCEPT !.cancelled = TRUE] \in Live
  BY DEF StreamTypeOK, Live
<1> QED
  BY <1>1 DEF CancelLive, StreamTypeOK

SessionRecord ==
  [stage : Stage, agent : Device \cup {None}, ready : BOOLEAN, stopping : BOOLEAN]

LEMMA FailBrowserIsTyped ==
  ASSUME RequestTypeOK, StreamTypeOK, FailBrowser
  PROVE  session' \in SessionRecord /\ told' \in Nat /\ reserved' \in [Device -> Owner \cup {None}]
<1>1. session' \in SessionRecord
  BY DEF FailBrowser, StreamTypeOK, SessionRecord, Stage
<1>2. told' \in Nat
  BY DEF FailBrowser, StreamTypeOK
<1>3. reserved' \in [Device -> Owner \cup {None}]
  BY DEF FailBrowser, ReleaseStream, RequestTypeOK
<1> QED
  BY <1>1, <1>2, <1>3

LEMMA StopStreamIsTyped ==
  ASSUME RequestTypeOK, StreamTypeOK, StopStream
  PROVE  session' \in SessionRecord /\ told' \in Nat /\ reserved' \in [Device -> Owner \cup {None}]
<1>1. CASE session.agent \in connected
  <2>1. UNCHANGED <<told, reserved>> /\ session' = [session EXCEPT !.stopping = TRUE]
    BY <1>1 DEF StopStream
  <2> QED
    BY <2>1 DEF RequestTypeOK, StreamTypeOK, SessionRecord
<1>2. CASE session.agent \notin connected
  BY <1>2, FailBrowserIsTyped DEF StopStream
<1> QED
  BY <1>1, <1>2

LEMMA ScheduleIsTyped ==
  ASSUME Schedule
  PROVE  asrAlarm' \in BOOLEAN
<1>1. CASE session'.stage \in {"ticket", "open", "started"}
  BY <1>1 DEF Schedule, Timed
<1>2. CASE session'.stage \notin {"ticket", "open", "started"}
  BY <1>2 DEF Schedule, Timed
<1> QED
  BY <1>1, <1>2

(* The steps of the browser and of the alarm.                              *)
LEMMA BrowserIsTyped ==
  ASSUME RequestTypeOK, StreamTypeOK,
         \/ CreateTicket \/ AcceptBrowser \/ StartStream \/ BrowserStops \/ BrowserCancels
         \/ BrowserErrs \/ BrowserCloses \/ ExpireStream
  PROVE  RequestTypeOK' /\ StreamTypeOK'
<1> DEFINE SessionOK == session' \in SessionRecord /\ told' \in Nat /\ asrAlarm' \in BOOLEAN
           NodesOK == /\ gate' \in [Device -> NodeOwner \cup {None}]
                      /\ dirty' \subseteq Device
                      /\ wire' \in [Device -> Seq(Message)]
                      /\ live' \in [Device -> Live]
           ReservedOK == reserved' \in [Device -> Owner \cup {None}]
<1>1. ASSUME KeepRelay, UNCHANGED <<linked, tasks, last>>, SessionOK, NodesOK, ReservedOK
      PROVE  RequestTypeOK' /\ StreamTypeOK'
  BY <1>1 DEF KeepRelay, RequestTypeOK, StreamTypeOK, SessionRecord
<1>2. ASSUME KeepNodes, UNCHANGED live \/ CancelLive PROVE NodesOK /\ UNCHANGED <<linked, tasks, last>>
  BY <1>2, CancelLiveIsTyped DEF KeepNodes, RequestTypeOK, StreamTypeOK
<1>3. ASSUME UNCHANGED reserved \/ ReleaseStream PROVE ReservedOK
  BY <1>3 DEF ReleaseStream, RequestTypeOK
<1>4. /\ session \in SessionRecord /\ told \in Nat /\ asrAlarm \in BOOLEAN
      /\ \A s \in Stage : [session EXCEPT !.stage = s] \in SessionRecord
  BY DEF StreamTypeOK, SessionRecord
<1>5. CASE CreateTicket
  <2>1. session' \in SessionRecord
    <3>1. \A d \in Device : [session EXCEPT !.stage = "ticket", !.agent = d] \in SessionRecord
      BY <1>4 DEF SessionRecord, Stage
    <3> QED
      BY <1>5, <3>1 DEF CreateTicket
  <2> QED
    BY <1>1, <1>2, <1>3, <1>4, <1>5, <2>1, ScheduleIsTyped DEF CreateTicket
<1>6. CASE AcceptBrowser
  <2>1. session' \in SessionRecord
    BY <1>4, <1>6 DEF AcceptBrowser, Stage
  <2> QED
    BY <1>1, <1>2, <1>3, <1>4, <1>6, <2>1, ScheduleIsTyped DEF AcceptBrowser
<1>7. CASE StartStream
  <2>1. CASE session.agent \in connected /\ reserved[session.agent] = None
    <3>1. session' \in SessionRecord
      BY <1>4, <1>7, <2>1 DEF StartStream, Stage
    <3>2. session.agent \in Device
      BY <2>1 DEF RequestTypeOK
    <3>3. NodesOK
      BY <1>7, <2>1, <3>2, NodeStartsIsTyped DEF StartStream
    <3>4. ReservedOK
      BY <1>7, <2>1 DEF StartStream, RequestTypeOK, Owner
    <3>5. SessionOK
      BY <1>4, <1>7, <2>1, <3>1, ScheduleIsTyped DEF StartStream
    <3> QED
      BY <1>1, <1>7, <3>3, <3>4, <3>5 DEF StartStream
  <2>2. CASE ~(session.agent \in connected /\ reserved[session.agent] = None)
    <3>1. FailBrowser /\ UNCHANGED <<gate, dirty, wire, live, asrAlarm>>
      BY <1>7, <2>2 DEF StartStream
    <3>2. NodesOK
      BY <3>1 DEF RequestTypeOK, StreamTypeOK
    <3> QED
      BY <1>1, <1>4, <1>7, <3>1, <3>2, FailBrowserIsTyped DEF StartStream
  <2> QED
    BY <2>1, <2>2
<1>8. CASE BrowserStops
  <2>1. SessionOK /\ ReservedOK /\ UNCHANGED live
    BY <1>4, <1>8, StopStreamIsTyped, ScheduleIsTyped DEF BrowserStops, StopStream
  <2> QED
    BY <1>1, <1>2, <1>8, <2>1 DEF BrowserStops
<1>9. CASE BrowserCancels
  <2>1. SessionOK /\ ReservedOK
    BY <1>3, <1>4, <1>9, FailBrowserIsTyped DEF BrowserCancels
  <2> QED
    BY <1>1, <1>2, <1>9, <2>1 DEF BrowserCancels
<1>10. CASE BrowserErrs
  <2>1. SessionOK /\ ReservedOK
    BY <1>4, <1>10, FailBrowserIsTyped DEF BrowserErrs
  <2> QED
    BY <1>1, <1>2, <1>10, <2>1 DEF BrowserErrs
<1>11. CASE BrowserCloses
  <2>1. session' \in SessionRecord
    BY <1>4, <1>11 DEF BrowserCloses, Stage
  <2> QED
    BY <1>1, <1>2, <1>3, <1>4, <1>11, <2>1, ScheduleIsTyped DEF BrowserCloses
<1>12. CASE ExpireStream
  <2>1. /\ session' \in SessionRecord /\ told' \in Nat /\ ReservedOK
        /\ UNCHANGED live \/ CancelLive
    <3>1. CASE /\ session' = [session EXCEPT !.stage = "ended"]
               /\ UNCHANGED <<told, reserved, live>>
      BY <1>3, <1>4, <3>1 DEF Stage
    <3>2. CASE FailBrowser /\ (UNCHANGED live \/ CancelLive)
      BY <3>2, FailBrowserIsTyped
    <3>3. CASE StopStream
      BY <3>3, StopStreamIsTyped DEF StopStream
    <3> QED
      BY <1>12, <3>1, <3>2, <3>3 DEF ExpireStream
  <2> QED
    BY <1>1, <1>2, <1>12, <2>1, ScheduleIsTyped DEF ExpireStream
<1> QED
  BY <1>5, <1>6, <1>7, <1>8, <1>9, <1>10, <1>11, <1>12

(* The node's events at Relay, and its session.                            *)
LEMMA SessionIsTyped ==
  ASSUME RequestTypeOK, StreamTypeOK, NEW d \in Device,
         StreamReady(d) \/ StreamEnd(d) \/ NodeReady(d) \/ NodeEnds(d) \/ NodeLeaves(d)
  PROVE  RequestTypeOK' /\ StreamTypeOK'
<1>1. ASSUME NEW type \in {"ready", "end"}, NEW ok \in BOOLEAN
      PROVE  Sent(d, [type |-> type, of |-> Session, n |-> 0, ok |-> ok]) \in [Device -> Seq(Message)]
  <2>1. [type |-> type, of |-> Session, n |-> 0, ok |-> ok] \in Message
    BY RequestConstants DEF Message, NodeOwner, Owner
  <2> QED
    BY <2>1, SentIsTyped
<1>2. ASSUME NEW type, EventArrives(d, type), session' \in SessionRecord, told' \in Nat,
             asrAlarm' \in BOOLEAN, reserved' \in [Device -> Owner \cup {None}]
      PROVE  RequestTypeOK' /\ StreamTypeOK'
  <2>1. wire' \in [Device -> Seq(Message)]
    BY <1>2, TakenIsTyped DEF EventArrives, Arrives
  <2> QED
    BY <1>2, <2>1 DEF EventArrives, KeepRelay, RequestTypeOK, StreamTypeOK, SessionRecord
<1>3. session \in SessionRecord /\ told \in Nat /\ asrAlarm \in BOOLEAN
      /\ reserved \in [Device -> Owner \cup {None}]
  BY DEF RequestTypeOK, StreamTypeOK, SessionRecord
<1>4. CASE StreamReady(d)
  <2>1. session' \in SessionRecord
    <3> DEFINE r == session.ready \/ session.stage = "started"
    <3>1. r \in BOOLEAN
      BY <1>3 DEF SessionRecord
    <3>2. session' = [session EXCEPT !.ready = r]
      BY <1>4 DEF StreamReady
    <3> HIDE DEF r
    <3> QED
      BY <1>3, <3>1, <3>2 DEF SessionRecord
  <2>2. asrAlarm' \in BOOLEAN
    BY <1>3, <1>4, ScheduleIsTyped DEF StreamReady
  <2> QED
    BY <1>2, <1>3, <1>4, <2>1, <2>2 DEF StreamReady
<1>5. CASE StreamEnd(d)
  BY <1>2, <1>3, <1>5, FailBrowserIsTyped, ScheduleIsTyped DEF StreamEnd
<1>6. \A at \in {"none", "runs", "ready", "over"} : [live EXCEPT ![d].at = at] \in [Device -> Live]
  BY DEF StreamTypeOK, Live
<1>7. CASE NodeReady(d) \/ NodeEnds(d)
  <2>1. wire' \in [Device -> Seq(Message)]
    BY <1>1, <1>7 DEF NodeReady, NodeEnds
  <2>2. live' \in [Device -> Live]
    BY <1>6, <1>7 DEF NodeReady, NodeEnds
  <2> QED
    BY <1>7, <2>1, <2>2 DEF NodeReady, NodeEnds, relayVars, RequestTypeOK, StreamTypeOK
<1>8. CASE NodeLeaves(d)
  <2>1. wire' \in [Device -> Seq(Message)]
    BY <1>1, <1>8 DEF NodeLeaves, RequestTypeOK
  <2>2. live' \in [Device -> Live]
    BY <1>8 DEF NodeLeaves, NotLive, Live, StreamTypeOK
  <2> QED
    BY <1>8, <2>1, <2>2 DEF NodeLeaves, GateChanged, relayVars, RequestTypeOK, StreamTypeOK
<1> QED
  BY <1>4, <1>5, <1>7, <1>8

-----------------------------------------------------------------------------
LEMMA AccountStepIsTyped ==
  ASSUME AccountTypeOK, [AccountNext]_accountVars
  PROVE  AccountTypeOK'
<1>1. CASE RequestStep /\ UNCHANGED <<planVars, streamVars>>
  BY <1>1, RequestsAreTyped
  DEF RequestNext, AccountTypeOK, planVars, streamVars, PlanTypeOK, StreamTypeOK
<1>2. CASE PlanStep /\ UNCHANGED streamVars
  BY <1>2, PlanIsTyped DEF AccountTypeOK, streamVars, StreamTypeOK
<1>3. CASE StreamStep /\ UNCHANGED planVars
  BY <1>3, BrowserIsTyped, SessionIsTyped DEF StreamStep, AccountTypeOK, planVars, PlanTypeOK
<1>4. ASSUME NEW d \in Device, Closes(d) PROVE AccountTypeOK'
  <2>1. StreamTypeOK'
    BY <1>4 DEF Closes, CloseForAgent, AccountTypeOK, StreamTypeOK, Stage
  <2> QED
    BY <1>4, <2>1, RequestsAreTyped DEF Closes, RequestNext, AccountTypeOK, planVars, PlanTypeOK
<1>5. ASSUME NEW d \in Device, Drops(d) PROVE AccountTypeOK'
  <2>1. live' \in [Device -> Live]
    <3> DEFINE c == live[d].at # "none"
    <3>1. live' = [live EXCEPT ![d].cancelled = c] /\ c \in BOOLEAN
      BY <1>5 DEF Drops, LiveLoses
    <3> HIDE DEF c
    <3> QED
      BY <3>1 DEF AccountTypeOK, StreamTypeOK, Live
  <2> QED
    BY <1>5, <2>1, RequestsAreTyped
    DEF Drops, LiveLoses, PlanLosesNodes, RequestNext, AccountTypeOK, PlanTypeOK, StreamTypeOK
<1>6. CASE Restarts
  BY <1>6, RequestsAreTyped
  DEF Restarts, PlanLosesNodes, StreamRestarts, RequestNext, AccountTypeOK, PlanTypeOK,
      StreamTypeOK, Stage
<1>7. CASE UNCHANGED accountVars
  BY <1>7 DEF accountVars, requestVars, relayVars, nodeVars, planVars, streamVars, AccountTypeOK,
              RequestTypeOK, PlanTypeOK, StreamTypeOK
<1> QED
  BY <1>1, <1>2, <1>3, <1>4, <1>5, <1>6, <1>7 DEF AccountNext

(* Whatever the requests, the nodes and the account, every variable keeps  *)
(* its type; in particular nothing a node sends speaks of the reservation  *)
(* of a live session, and only requests are ever in the running placement. *)
THEOREM AccountTypes == AccountSpec => []AccountTypeOK
<1>1. AccountInit => AccountTypeOK
  <2> SUFFICES ASSUME AccountInit PROVE AccountTypeOK
    OBVIOUS
  <2>1. RequestTypeOK
    <3>1. setup.restarts \in Nat
      BY RequestConstants DEF AccountInit, RequestInit, SetupRecord
    <3> QED
      BY <3>1 DEF AccountInit, RequestInit, RequestTypeOK, State
  <2>2. PlanTypeOK
    BY PlanConstants DEF AccountInit, PlanInit, PlanTypeOK, PlanState, TargetState
  <2>3. StreamTypeOK
    BY DEF AccountInit, StreamInit, StreamTypeOK, Stage, NotLive, Live
  <2> QED
    BY <2>1, <2>2, <2>3 DEF AccountTypeOK
<1> QED
  BY <1>1, AccountStepIsTyped, PTL DEF AccountSpec

-----------------------------------------------------------------------------
(* The end of a session is told once                                       *)

(* Once the browser was told an end, its session is over, and no step      *)
(* tells an end of a session that is over.                                 *)
ToldInv == told <= 1 /\ (told # 0 => session.stage = "ended")

LEMMA SessionStepsKeepTold ==
  ASSUME AccountTypeOK, ToldInv, StreamStep
  PROVE  ToldInv'
<1>1. session \in SessionRecord /\ told \in Nat
  BY DEF AccountTypeOK, StreamTypeOK, SessionRecord
<1>2. ASSUME FailBrowser, session.stage # "ended" PROVE ToldInv'
  BY <1>1, <1>2 DEF FailBrowser, ToldInv, SessionRecord
<1>3. ASSUME told' = told, session'.stage = "ended" \/ session'.stage = session.stage
      PROVE  ToldInv'
  BY <1>3 DEF ToldInv
<1>4. ASSUME StopStream, session.stage = "started" PROVE ToldInv'
  <2>1. CASE session.agent \in connected
    BY <1>1, <1>3, <1>4, <2>1 DEF StopStream, SessionRecord
  <2> QED
    BY <1>2, <1>4, <2>1 DEF StopStream
<1>5. CASE CreateTicket \/ AcceptBrowser
  BY <1>1, <1>5 DEF CreateTicket, AcceptBrowser, ToldInv, SessionRecord
<1>6. CASE StartStream
  <2>1. session.stage = "open"
    BY <1>6 DEF StartStream
  <2>2. FailBrowser \/ UNCHANGED told
    BY <1>6 DEF StartStream
  <2> QED
    BY <1>2, <2>1, <2>2 DEF ToldInv
<1>7. CASE BrowserStops
  BY <1>4, <1>7 DEF BrowserStops
<1>8. CASE BrowserCancels \/ BrowserErrs
  BY <1>2, <1>3, <1>8 DEF BrowserCancels, BrowserErrs
<1>9. CASE BrowserCloses
  BY <1>1, <1>3, <1>9 DEF BrowserCloses, SessionRecord
<1>10. CASE ExpireStream
  <2>1. CASE session' = [session EXCEPT !.stage = "ended"] /\ UNCHANGED told
    BY <1>1, <1>3, <2>1 DEF SessionRecord
  <2> QED
    BY <1>2, <1>4, <1>10, <2>1 DEF ExpireStream
<1>11. ASSUME NEW d \in Device,
              StreamReady(d) \/ StreamEnd(d) \/ NodeReady(d) \/ NodeEnds(d) \/ NodeLeaves(d)
       PROVE  ToldInv'
  <2>1. CASE StreamReady(d)
    BY <1>1, <1>3, <2>1 DEF StreamReady, SessionRecord
  <2>2. CASE StreamEnd(d)
    BY <1>2, <1>3, <2>2 DEF StreamEnd
  <2> QED
    BY <1>3, <1>11, <2>1, <2>2 DEF NodeReady, NodeEnds, NodeLeaves
<1> QED
  BY <1>5, <1>6, <1>7, <1>8, <1>9, <1>10, <1>11 DEF StreamStep

(* However the node's last events, the deadlines, Relay's refusals, the    *)
(* browser's messages and the loss of the node race, the browser is told   *)
(* at most one end of its session (relay-asr-stream.ts, failBrowser and    *)
(* handleAsrStreamEvent).                                                  *)
THEOREM EndIsToldOnce == AccountSpec => []EndToldOnce
<1>1. AccountInit => ToldInv
  BY DEF AccountInit, StreamInit, ToldInv
<1>2. AccountTypeOK /\ ToldInv /\ [AccountNext]_accountVars => ToldInv'
  <2> SUFFICES ASSUME AccountTypeOK, ToldInv, [AccountNext]_accountVars PROVE ToldInv'
    OBVIOUS
  <2>1. session \in SessionRecord /\ told \in Nat
    BY DEF AccountTypeOK, StreamTypeOK, SessionRecord
  <2>2. ASSUME NEW d \in Device, CloseForAgent(d) PROVE ToldInv'
    BY <2>1, <2>2 DEF CloseForAgent, ToldInv, SessionRecord
  <2>3. CASE Restarts
    BY <2>1, <2>3 DEF Restarts, StreamRestarts, ToldInv, SessionRecord
  <2>4. CASE UNCHANGED <<session, told>>
    BY <2>4 DEF ToldInv
  <2> QED
    BY <2>2, <2>3, <2>4, SessionStepsKeepTold
    DEF AccountNext, accountVars, streamVars, Closes, Drops, LiveLoses
<1>3. ToldInv => EndToldOnce
  BY DEF ToldInv, EndToldOnce
<1> QED
  BY <1>1, <1>2, <1>3, AccountTypes, PTL DEF AccountSpec

-----------------------------------------------------------------------------
(* A session has its alarm                                                 *)

(* A ticket nobody uses, a session nobody starts, and one whose node never *)
(* answers are all ended by the Durable Object's alarm: whatever step made *)
(* the deadline scheduled the alarm too (scheduleAsrStreamAlarm).          *)
THEOREM SessionsHaveAlarm == AccountSpec => []SessionHasAlarm
<1>1. AccountInit => SessionHasAlarm
  BY DEF AccountInit, StreamInit, SessionHasAlarm, Timed
<1>2. AccountTypeOK /\ SessionHasAlarm /\ [AccountNext]_accountVars => SessionHasAlarm'
  <2> SUFFICES ASSUME AccountTypeOK, SessionHasAlarm, [AccountNext]_accountVars
               PROVE  SessionHasAlarm'
    OBVIOUS
  <2>1. session \in SessionRecord
    BY DEF AccountTypeOK, StreamTypeOK, SessionRecord
  <2>2. ASSUME Schedule PROVE SessionHasAlarm'
    BY <2>2 DEF Schedule, SessionHasAlarm
  <2>3. ASSUME UNCHANGED asrAlarm, session'.stage = session.stage \/ session'.stage = "ended"
        PROVE  SessionHasAlarm'
    BY <2>3 DEF SessionHasAlarm, Timed
  <2>4. ASSUME FailBrowser, UNCHANGED asrAlarm PROVE SessionHasAlarm'
    BY <2>1, <2>3, <2>4 DEF FailBrowser, SessionRecord
  <2>5. ASSUME StreamStep PROVE SessionHasAlarm'
    <3>1. CASE CreateTicket \/ AcceptBrowser \/ BrowserCloses \/ ExpireStream
      BY <2>2, <3>1 DEF CreateTicket, AcceptBrowser, BrowserCloses, ExpireStream
    <3>2. CASE StartStream
      BY <2>2, <2>4, <3>2 DEF StartStream
    <3>3. CASE BrowserStops
      BY <2>2, <2>4, <3>3 DEF BrowserStops, StopStream
    <3>4. CASE BrowserCancels \/ BrowserErrs
      BY <2>3, <2>4, <3>4 DEF BrowserCancels, BrowserErrs
    <3>5. ASSUME NEW d \in Device, StreamReady(d) PROVE SessionHasAlarm'
      BY <2>1, <2>2, <2>3, <3>5 DEF StreamReady, SessionRecord
    <3>6. ASSUME NEW d \in Device, StreamEnd(d) PROVE SessionHasAlarm'
      BY <2>2, <2>3, <3>6 DEF StreamEnd
    <3>7. ASSUME NEW d \in Device, NodeReady(d) \/ NodeEnds(d) \/ NodeLeaves(d)
          PROVE  SessionHasAlarm'
      BY <2>3, <3>7 DEF NodeReady, NodeEnds, NodeLeaves
    <3> QED
      BY <2>5, <3>1, <3>2, <3>3, <3>4, <3>5, <3>6, <3>7 DEF StreamStep
  <2>6. ASSUME NEW d \in Device, CloseForAgent(d) PROVE SessionHasAlarm'
    BY <2>1, <2>3, <2>6 DEF CloseForAgent, SessionRecord
  <2>7. CASE Restarts
    BY <2>1, <2>3, <2>7 DEF Restarts, StreamRestarts, SessionRecord
  <2>8. CASE UNCHANGED <<session, asrAlarm>>
    BY <2>3, <2>8
  <2> QED
    BY <2>5, <2>6, <2>7, <2>8
    DEF AccountNext, accountVars, streamVars, Closes, Drops, LiveLoses
<1> QED
  BY <1>1, <1>2, AccountTypes, PTL DEF AccountSpec

-----------------------------------------------------------------------------
(* No node stays reserved for a session that is over                       *)

(* Who takes a reservation takes it for himself: no step of the requests   *)
(* reserves a node for a live session.                                     *)
NoNewStream == \A d \in Device : reserved'[d] = Stream => reserved[d] = Stream

LEMMA RequestsReserveNoStream ==
  ASSUME RequestTypeOK, RequestNext
  PROVE  NoNewStream
<1>1. Stream \notin NodeOwner \cup {None} /\ Stream \notin Work
  BY RequestConstants DEF NodeOwner, Owner
<1>2. ASSUME UNCHANGED reserved PROVE NoNewStream
  BY <1>2 DEF NoNewStream
<1>3. ASSUME NEW w \in Work, NEW d, Dispatch(w, d) PROVE NoNewStream
  BY <1>1, <1>3 DEF Dispatch, RequestTypeOK, NoNewStream
<1>4. ASSUME NEW w \in Work, Place(w) PROVE NoNewStream
  BY <1>2, <1>3, <1>4 DEF Place
<1>5. ASSUME NEW d, Release(d) PROVE NoNewStream
  BY <1>1, <1>5, RequestConstants DEF Release, NoNewStream, Owner
<1>6. ASSUME NEW d, NEW v \in NodeOwner \cup {None}, reserved' = [reserved EXCEPT ![d] = v]
      PROVE  NoNewStream
  BY <1>1, <1>6 DEF NoNewStream, RequestTypeOK
<1>7. CASE PlaceNext
  <2>1. PICK w \in todo : PlaceNext!(w)
    BY <1>7 DEF PlaceNext
  <2> QED
    BY <1>2, <1>3, <2>1 DEF RequestTypeOK
<1>8. ASSUME NEW w \in Work, SubmitStep(w) \/ PollStep(w) \/ CancelStep(w) \/ ChatHashed(w)
      PROVE  NoNewStream
  <2>1. CASE SubmitStep(w)
    BY <1>2, <1>4, <2>1
    DEF SubmitStep, SubmitChat, RepeatChat, SubmitTalk, SubmitAsr, SubmitEmbed, SubmitOcr,
        SubmitTool, Submit
  <2>2. CASE PollStep(w)
    BY <1>2, <2>2
    DEF PollStep, Poll, PollChat, PollTalk, PollAsr, PollEmbed, PollOcr, PollTool
  <2>3. CASE CancelStep(w)
    BY <1>5, <2>3
    DEF CancelStep, Cancel, CancelChat, CancelTalk, CancelAsr, CancelEmbed, CancelOcr, CancelTool
  <2> QED
    BY <1>5, <1>8, <2>1, <2>2, <2>3 DEF ChatHashed, Settle
<1>9. ASSUME NEW d \in Device, AnswerStep(d) PROVE NoNewStream
  BY <1>2, <1>5, <1>9
  DEF AnswerStep, HandleChatResponse, HandleChatError, HandleTalkAnswer, HandleAsrAnswer,
      HandleEmbedAnswer, HandleOcrAnswer, HandleToolAnswer, LateAnswer, Settle, Ignore
<1>10. ASSUME NEW d \in Device, HandleAvailability(d) PROVE NoNewStream
  <2>1. Head(wire[d]).of \in NodeOwner \cup {None}
    BY <1>10, HeadIsTyped DEF HandleAvailability, Arrives, Message
  <2> QED
    BY <1>2, <1>6, <1>10, <2>1 DEF HandleAvailability
<1>11. ASSUME NEW d \in Device, HandleAuth(d) PROVE NoNewStream
  <2>1. gate[d] \in NodeOwner \cup {None}
    BY DEF RequestTypeOK
  <2> QED
    BY <1>6, <1>11, <2>1 DEF HandleAuth
<1>12. ASSUME NEW d \in Device,
              \/ HandleInventory(d) \/ Publish(d) \/ LocalStarts(d) \/ LocalEnds(d) \/ NodeDrop(d)
              \/ \E p \in {"open", "closed", "revoked"} : SetPolicy(d, p)
       PROVE  NoNewStream
  BY <1>2, <1>12
  DEF HandleInventory, Publish, LocalStarts, LocalEnds, NodeDrop, SetPolicy, relayVars
<1>13. ASSUME NEW d \in Device, HandleClose(d) PROVE NoNewStream
  BY <1>6, <1>13 DEF HandleClose
<1>14. ASSUME NEW t \in tasks, TaskStep(t) \/ HandleToolProgress(t) PROVE NoNewStream
  BY <1>2, <1>14
  DEF TaskStep, TaskStarts, TaskLeaves, ToolStops, Reports, ChatReports, TalkReports, AsrReports,
      EmbedReports, OcrReports, ToolReports, PlanReports, HandleToolProgress, relayVars
<1>15. ASSUME NEW D \in SUBSET Device, CleanupStale(D) PROVE NoNewStream
  BY <1>1, <1>15 DEF CleanupStale, NoNewStream
<1>16. CASE Hibernate \/ Restart
  BY <1>1, <1>2, <1>16 DEF Hibernate, Restart, NoNewStream
<1> QED
  BY <1>7, <1>8, <1>9, <1>10, <1>11, <1>12, <1>13, <1>14, <1>15, <1>16 DEF RequestNext, RequestStep

LEMMA PlansReserveNoStream ==
  ASSUME RequestTypeOK, PlanStep
  PROVE  NoNewStream
<1>1. Stream # Plan /\ Stream # None
  BY RequestConstants DEF Owner
<1>2. ASSUME UNCHANGED requestVars PROVE NoNewStream
  BY <1>2 DEF requestVars, relayVars, NoNewStream
<1>3. ASSUME NEW d \in Device, HandlePlanResult(d) PROVE NoNewStream
  BY <1>1, <1>3 DEF HandlePlanResult, Release, Ignore, NoNewStream
<1>4. ASSUME NEW lacking, NEW barred, ApplyPlan(lacking, barred) PROVE NoNewStream
  BY <1>1, <1>4 DEF ApplyPlan, Applied, NoNewStream
<1> QED
  BY <1>2, <1>3, <1>4 DEF PlanStep, CancelPlan, CreatePlan

LEMMA SessionStepsKeepReservation ==
  ASSUME AccountTypeOK, NoDeadReservation, StreamStep
  PROVE  NoDeadReservation'
<1>1. session \in SessionRecord /\ Stream # None /\ reserved \in [Device -> Owner \cup {None}]
  BY RequestConstants DEF AccountTypeOK, RequestTypeOK, StreamTypeOK, SessionRecord, Owner
<1>2. ASSUME ReleaseStream, session'.agent = session.agent PROVE NoDeadReservation'
  <2>1. \A d \in Device : reserved'[d] # Stream
    BY <1>1, <1>2 DEF ReleaseStream, NoDeadReservation
  <2> QED
    BY <2>1 DEF NoDeadReservation
<1>3. ASSUME UNCHANGED reserved,
             \/ session'.stage = session.stage /\ session'.agent = session.agent
             \/ session.stage # "started"
      PROVE  NoDeadReservation'
  BY <1>3 DEF NoDeadReservation
<1>4. ASSUME FailBrowser PROVE NoDeadReservation'
  BY <1>1, <1>2, <1>4 DEF FailBrowser, SessionRecord
<1>5. ASSUME StopStream PROVE NoDeadReservation'
  BY <1>1, <1>3, <1>4, <1>5 DEF StopStream, SessionRecord
<1>6. CASE CreateTicket \/ AcceptBrowser
  BY <1>3, <1>6 DEF CreateTicket, AcceptBrowser
<1>7. CASE StartStream
  <2>1. CASE FailBrowser
    BY <1>4, <2>1
  <2>2. CASE /\ session' = [session EXCEPT !.stage = "started"]
             /\ reserved' = [reserved EXCEPT ![session.agent] = Stream]
    <3>1. \A d \in Device : reserved[d] # Stream
      BY <1>7 DEF StartStream, NoDeadReservation
    <3> QED
      BY <1>1, <2>2, <3>1 DEF NoDeadReservation, SessionRecord
  <2> QED
    BY <1>7, <2>1, <2>2 DEF StartStream
<1>8. CASE BrowserStops \/ BrowserCancels \/ BrowserErrs
  BY <1>3, <1>4, <1>5, <1>8 DEF BrowserStops, BrowserCancels, BrowserErrs
<1>9. CASE BrowserCloses
  BY <1>1, <1>2, <1>9 DEF BrowserCloses, SessionRecord
<1>10. CASE ExpireStream
  BY <1>3, <1>4, <1>5, <1>10 DEF ExpireStream
<1>11. ASSUME NEW d \in Device,
              StreamReady(d) \/ StreamEnd(d) \/ NodeReady(d) \/ NodeEnds(d) \/ NodeLeaves(d)
       PROVE  NoDeadReservation'
  <2>1. CASE StreamReady(d)
    <3>1. session'.stage = session.stage /\ session'.agent = session.agent
      BY <1>1, <2>1 DEF StreamReady, SessionRecord
    <3> QED
      BY <1>3, <2>1, <3>1 DEF StreamReady
  <2>2. CASE StreamEnd(d)
    BY <1>3, <1>4, <2>2 DEF StreamEnd
  <2> QED
    BY <1>3, <1>11, <2>1, <2>2 DEF NodeReady, NodeEnds, NodeLeaves, relayVars
<1> QED
  BY <1>6, <1>7, <1>8, <1>9, <1>10, <1>11 DEF StreamStep

(* A node is reserved for a live session only while that session is under  *)
(* way: every way a session ends takes the reservation back, and neither a *)
(* frame of the node's gate nor a request, a plan, a policy or a lost node *)
(* leaves or makes one nobody would release (relay-asr-stream.ts,          *)
(* releaseAgent; relay-agent-auth.ts, handleAvailabilityUpdate).           *)
THEOREM ReservationIsAlive == AccountSpec => []NoDeadReservation
<1>1. AccountInit => NoDeadReservation
  <2>1. Stream # None
    BY RequestConstants DEF Owner
  <2> QED
    BY <2>1 DEF AccountInit, RequestInit, NoDeadReservation
<1>2. AccountTypeOK /\ NoDeadReservation /\ [AccountNext]_accountVars => NoDeadReservation'
  <2> SUFFICES ASSUME AccountTypeOK, NoDeadReservation, [AccountNext]_accountVars
               PROVE  NoDeadReservation'
    OBVIOUS
  <2>1. RequestTypeOK /\ session \in SessionRecord /\ Stream # None
    BY RequestConstants DEF AccountTypeOK, StreamTypeOK, SessionRecord, Owner
  <2>2. ASSUME NoNewStream, UNCHANGED session PROVE NoDeadReservation'
    BY <2>2 DEF NoNewStream, NoDeadReservation
  <2>3. CASE RequestStep /\ UNCHANGED <<planVars, streamVars>>
    BY <2>1, <2>2, <2>3, RequestsReserveNoStream DEF RequestNext, streamVars
  <2>4. CASE PlanStep /\ UNCHANGED streamVars
    BY <2>1, <2>2, <2>4, PlansReserveNoStream DEF streamVars
  <2>5. ASSUME NEW d \in Device, Closes(d) PROVE NoDeadReservation'
    <3>1. NoNewStream
      BY <2>1, <2>5, RequestsReserveNoStream DEF Closes, RequestNext
    <3>2. reserved'[d] # Stream
      BY <2>1, <2>5 DEF Closes, HandleClose, RequestTypeOK
    <3>3. session.agent # d => UNCHANGED session
      BY <2>5 DEF Closes, CloseForAgent
    <3> QED
      BY <2>2, <3>1, <3>2, <3>3 DEF NoNewStream, NoDeadReservation
  <2>6. ASSUME NEW d \in Device, Drops(d) PROVE NoDeadReservation'
    BY <2>1, <2>2, <2>6, RequestsReserveNoStream DEF Drops, LiveLoses, RequestNext
  <2>7. CASE Restarts
    BY <2>1, <2>7 DEF Restarts, Restart, NoDeadReservation
  <2>8. CASE UNCHANGED accountVars
    BY <2>2, <2>8 DEF accountVars, requestVars, relayVars, streamVars, NoNewStream
  <2> QED
    BY <2>3, <2>4, <2>5, <2>6, <2>7, <2>8, SessionStepsKeepReservation DEF AccountNext
<1> QED
  BY <1>1, <1>2, AccountTypes, PTL DEF AccountSpec

-----------------------------------------------------------------------------
(* An idempotency key names one chat                                       *)

Untaken == {"new", "refused", "repeated"}

(* A chat of the key that was taken is the one the idempotency record      *)
(* names; and what a running placement has left is queued, so that placing *)
(* takes nothing that was not taken before.                                *)
KeyInv ==
  /\ \A w \in todo : work[w].state = "queued"
  /\ \A v \in setup.keyed : work[v].state \in Untaken \/ keyed = v

(* A step that takes no chat of the key, for a key that stays as it is.    *)
NoneTaken ==
  /\ UNCHANGED <<setup, keyed>>
  /\ \A v \in setup.keyed : work[v].state \in Untaken => work'[v].state \in Untaken

TodoQueued == \A w \in todo : work[w].state = "queued"

LEMMA NoneTakenKeepsKey ==
  ASSUME KeyInv, NoneTaken, TodoQueued'
  PROVE  KeyInv'
  BY DEF KeyInv, NoneTaken, TodoQueued

LEMMA KeyedAreChats ==
  ASSUME RequestTypeOK
  PROVE  setup.keyed \subseteq Work /\ \A v \in setup.keyed : kind[v] = "chat"
  BY RequestConstants DEF RequestTypeOK, SetupRecord, kind

LEMMA FailTakesNone ==
  ASSUME RequestTypeOK, KeyInv, NEW D, FailWork(D), UNCHANGED <<setup, keyed>>
  PROVE  NoneTaken
  BY KeyedAreChats DEF FailWork, Lost, NoneTaken, Untaken, RequestTypeOK

(* The end of a request of another kind, or of a chat that was taken.      *)
LEMMA SettleTakesNone ==
  ASSUME RequestTypeOK, NEW w \in Work, NEW s, Settle(w, s), UNCHANGED <<setup, keyed>>,
         kind[w] # "chat" \/ work[w].state \notin Untaken
  PROVE  NoneTaken /\ TodoQueued'
<1>1. NoneTaken
  BY KeyedAreChats DEF Settle, SetState, NoneTaken, RequestTypeOK
<1> QED
  BY <1>1 DEF Settle, AssignQueued, TodoQueued

LEMMA SubmitKeepsKey ==
  ASSUME RequestTypeOK, KeyInv, NEW w \in Work, SubmitStep(w)
  PROVE  KeyInv'
<1>1. ASSUME Place(w) PROVE \A v \in Work \ {w} : work'[v] = work[v]
  BY <1>1 DEF Place, Dispatch, SetState, RequestTypeOK
<1>2. ASSUME Submitted(w) PROVE UNCHANGED setup /\ TodoQueued'
  BY <1>2 DEF Submitted, Quiet, TodoQueued
<1>3. CASE SubmitChat(w)
  <2>1. CASE w \in setup.keyed
    <3>1. keyed = None \/ work[keyed].state = "refused"
      BY <1>3, <2>1 DEF SubmitChat, KnownKey
    <3>2. \A v \in setup.keyed \ {w} : work[v].state \in Untaken
      BY <3>1, KeyedAreChats, RequestConstants DEF KeyInv, Untaken, Owner
    <3>3. \A v \in setup.keyed \ {w} : work'[v].state \in Untaken
      BY <1>1, <1>3, <3>2, KeyedAreChats DEF SubmitChat
    <3> QED
      BY <1>2, <1>3, <2>1, <3>3 DEF SubmitChat, KeyInv, TodoQueued
  <2>2. CASE w \notin setup.keyed
    <3>1. NoneTaken
      BY <1>1, <1>2, <1>3, <2>2, KeyedAreChats DEF SubmitChat, NoneTaken
    <3> QED
      BY <1>2, <1>3, <3>1, NoneTakenKeepsKey DEF SubmitChat
  <2> QED
    BY <2>1, <2>2
<1>4. CASE RepeatChat(w)
  <2>1. NoneTaken
    BY <1>2, <1>4, KeyedAreChats DEF RepeatChat, SetState, NoneTaken, Untaken, RequestTypeOK
  <2> QED
    BY <1>2, <1>4, <2>1, NoneTakenKeepsKey DEF RepeatChat
<1>5. ASSUME NEW k \in Kind \ {"chat"}, Submit(w, k) PROVE KeyInv'
  <2>1. w \notin setup.keyed
    BY <1>5, KeyedAreChats DEF Submit
  <2>2. NoneTaken
    BY <1>1, <1>2, <1>5, <2>1, KeyedAreChats DEF Submit, NoneTaken
  <2> QED
    BY <1>2, <1>5, <2>2, NoneTakenKeepsKey DEF Submit
<1> QED
  BY <1>3, <1>4, <1>5
  DEF SubmitStep, SubmitTalk, SubmitAsr, SubmitEmbed, SubmitOcr, SubmitTool, Kind

LEMMA AnswerKeepsKey ==
  ASSUME RequestTypeOK, KeyInv, NEW d \in Device, AnswerStep(d)
  PROVE  KeyInv'
<1> DEFINE w == Head(wire[d]).of
<1>1. ASSUME NEW k, Answer(d, k)
      PROVE  w \in Work /\ kind[w] = k /\ UNCHANGED <<setup, keyed>> /\ TodoQueued
  BY <1>1 DEF Answer, Quiet, TodoQueued
<1>2. ASSUME NEW k, Answer(d, k), Ignore PROVE KeyInv'
  BY <1>1, <1>2, NoneTakenKeepsKey DEF Ignore, NoneTaken, TodoQueued
<1>3. ASSUME NEW k, Answer(d, k), NEW s, Settle(w, s),
             k # "chat" \/ work[w].state \notin Untaken
      PROVE  KeyInv'
  BY <1>1, <1>3, SettleTakesNone, NoneTakenKeepsKey
<1>4. CASE HandleChatResponse(d)
  <2>1. CASE Believed(d, w)
    <3>1. Answer(d, "chat") /\ SetState(w, "claimed") /\ UNCHANGED todo
      BY <1>4, <2>1 DEF HandleChatResponse
    <3>2. NoneTaken
      BY <1>1, <2>1, <3>1, KeyedAreChats
      DEF Believed, SetState, NoneTaken, Untaken, RequestTypeOK
    <3>3. TodoQueued'
      BY <3>1 DEF Answer, Quiet, TodoQueued
    <3> QED
      BY <3>2, <3>3, NoneTakenKeepsKey
  <2> QED
    BY <1>2, <1>4, <2>1 DEF HandleChatResponse
<1>5. CASE HandleChatError(d)
  BY <1>2, <1>3, <1>5 DEF HandleChatError, Believed, Untaken
<1>6. ASSUME NEW k, k # "chat", LateAnswer(d, k) PROVE KeyInv'
  BY <1>2, <1>3, <1>6 DEF LateAnswer
<1>7. CASE HandleToolAnswer(d)
  BY <1>3, <1>7 DEF HandleToolAnswer
<1> QED
  BY <1>4, <1>5, <1>6, <1>7
  DEF AnswerStep, HandleTalkAnswer, HandleAsrAnswer, HandleEmbedAnswer, HandleOcrAnswer

LEMMA RequestsKeepKey ==
  ASSUME RequestTypeOK, KeyInv, RequestNext
  PROVE  KeyInv'
<1>1. TodoQueued
  BY DEF KeyInv, TodoQueued
<1>2. ASSUME UNCHANGED <<setup, keyed, work, todo>> PROVE KeyInv'
  BY <1>2 DEF KeyInv
<1>3. ASSUME AssignQueued PROVE TodoQueued'
  BY <1>3 DEF AssignQueued, TodoQueued
<1>4. ASSUME UNCHANGED <<setup, keyed, work>>, AssignQueued PROVE KeyInv'
  BY <1>3, <1>4, NoneTakenKeepsKey DEF NoneTaken
<1>5. ASSUME NEW D, FailWork(D), UNCHANGED <<setup, keyed>>, AssignQueued PROVE KeyInv'
  BY <1>3, <1>5, FailTakesNone, NoneTakenKeepsKey
<1>6. CASE PlaceNext
  <2>1. PICK w \in todo : PlaceNext!(w)
    BY <1>6 DEF PlaceNext
  <2>2. \A v \in Work \ {w} : work'[v] = work[v]
    BY <2>1 DEF Dispatch, RequestTypeOK
  <2>3. todo' = todo \ {w} /\ todo \subseteq Work /\ work[w].state = "queued"
    BY <1>1, <2>1 DEF TodoQueued, RequestTypeOK
  <2>4. TodoQueued'
    BY <1>1, <2>2, <2>3 DEF TodoQueued
  <2>5. NoneTaken
    BY <2>1, <2>2, <2>3, KeyedAreChats DEF NoneTaken, Untaken
  <2> QED
    BY <2>4, <2>5, NoneTakenKeepsKey
<1>7. ASSUME NEW w \in Work, PollStep(w) PROVE KeyInv'
  BY <1>2, <1>7
  DEF PollStep, Poll, PollChat, PollTalk, PollAsr, PollEmbed, PollOcr, PollTool
<1>8. ASSUME NEW w \in Work, CancelStep(w) PROVE KeyInv'
  <2>1. ASSUME NEW k, Cancel(w, k) PROVE KeyInv'
    <3>1. NoneTaken
      BY <2>1, KeyedAreChats DEF Cancel, SetState, NoneTaken, Untaken, RequestTypeOK
    <3> QED
      BY <1>3, <2>1, <3>1, NoneTakenKeepsKey DEF Cancel
  <2> QED
    BY <1>8, <2>1
    DEF CancelStep, CancelChat, CancelTalk, CancelAsr, CancelEmbed, CancelOcr, CancelTool
<1>9. ASSUME NEW w \in Work, ChatHashed(w) PROVE KeyInv'
  BY <1>9, SettleTakesNone, NoneTakenKeepsKey DEF ChatHashed, Untaken
<1>10. ASSUME NEW d \in Device, HandleAvailability(d) PROVE KeyInv'
  BY <1>2, <1>4, <1>10 DEF HandleAvailability
<1>11. ASSUME NEW d \in Device, HandleAuth(d) PROVE KeyInv'
  <2>1. NoneTaken
    BY <1>11, FailTakesNone DEF HandleAuth
  <2>2. TodoQueued'
    <3>1. CASE AssignQueued
      BY <1>3, <3>1
    <3>2. CASE UNCHANGED todo
      BY <1>11, <3>2 DEF HandleAuth, Quiet, TodoQueued
    <3> QED
      BY <1>11, <3>1, <3>2 DEF HandleAuth
  <2> QED
    BY <2>1, <2>2, NoneTakenKeepsKey
<1>12. ASSUME NEW d \in Device,
              \/ \E p \in {"open", "closed", "revoked"} : SetPolicy(d, p)
              \/ HandleClose(d) \/ HandleInventory(d)
       PROVE  KeyInv'
  BY <1>4, <1>5, <1>12 DEF SetPolicy, HandleClose, HandleInventory
<1>13. ASSUME NEW d \in Device, Publish(d) \/ LocalStarts(d) \/ LocalEnds(d) \/ NodeDrop(d)
       PROVE  KeyInv'
  BY <1>2, <1>13 DEF Publish, LocalStarts, LocalEnds, NodeDrop, relayVars
<1>14. ASSUME NEW t \in tasks, TaskStep(t) \/ HandleToolProgress(t) PROVE KeyInv'
  BY <1>2, <1>14
  DEF TaskStep, TaskStarts, TaskLeaves, ToolStops, Reports, ChatReports, TalkReports, AsrReports,
      EmbedReports, OcrReports, ToolReports, PlanReports, HandleToolProgress, relayVars
<1>15. ASSUME NEW D \in SUBSET Device, CleanupStale(D) PROVE KeyInv'
  BY <1>5, <1>15 DEF CleanupStale
<1>16. CASE Hibernate
  BY <1>2, <1>16 DEF Hibernate
<1>17. CASE Restart
  <2>1. NoneTaken
    BY <1>17, KeyedAreChats DEF Restart, NoneTaken, Untaken, RequestTypeOK
  <2> QED
    BY <1>17, <2>1, NoneTakenKeepsKey DEF Restart, TodoQueued
<1> QED
  BY <1>6, <1>7, <1>8, <1>9, <1>10, <1>11, <1>12, <1>13, <1>14, <1>15, <1>16, <1>17,
     SubmitKeepsKey, AnswerKeepsKey
  DEF RequestNext, RequestStep

LEMMA KeyIsKept == AccountSpec => []KeyInv
<1>1. AccountInit => KeyInv
  <2> SUFFICES ASSUME AccountInit PROVE KeyInv
    OBVIOUS
  <2>1. setup.keyed \subseteq Work
    BY RequestConstants DEF AccountInit, RequestInit, SetupRecord
  <2> QED
    BY <2>1 DEF AccountInit, RequestInit, KeyInv, Untaken
<1>2. AccountTypeOK /\ KeyInv /\ [AccountNext]_accountVars => KeyInv'
  <2> SUFFICES ASSUME AccountTypeOK, KeyInv, [AccountNext]_accountVars PROVE KeyInv'
    OBVIOUS
  <2>1. RequestTypeOK
    BY DEF AccountTypeOK
  <2>2. ASSUME UNCHANGED <<setup, keyed, work, todo>> PROVE KeyInv'
    BY <2>2 DEF KeyInv
  <2>3. CASE PlanStep
    <3>1. ASSUME NEW d \in Device, HandlePlanResult(d) PROVE KeyInv'
      <4>1. CASE AssignQueued /\ UNCHANGED <<setup, keyed, work>>
        BY <4>1, NoneTakenKeepsKey DEF AssignQueued, TodoQueued, NoneTaken
      <4> QED
        BY <2>2, <3>1, <4>1 DEF HandlePlanResult, Ignore
    <3> QED
      BY <2>2, <2>3, <3>1
      DEF PlanStep, CancelPlan, CreatePlan, ApplyPlan, Applied, requestVars, relayVars
  <2>4. CASE StreamStep
    BY <2>2, <2>4
    DEF StreamStep, CreateTicket, AcceptBrowser, StartStream, BrowserStops, BrowserCancels,
        BrowserErrs, BrowserCloses, ExpireStream, StreamReady, StreamEnd, EventArrives, NodeReady,
        NodeEnds, NodeLeaves, KeepRelay, relayVars
  <2>5. CASE UNCHANGED accountVars
    BY <2>2, <2>5 DEF accountVars, requestVars, relayVars
  <2> QED
    BY <2>1, <2>3, <2>4, <2>5, RequestsKeepKey
    DEF AccountNext, Closes, Drops, Restarts, RequestNext
<1> QED
  BY <1>1, <1>2, AccountTypes, PTL DEF AccountSpec

(* However often a chat is submitted with one idempotency key, and         *)
(* whatever restarts, refusals and losses come in between, at most one of  *)
(* the submissions is taken (relay-api-chat.ts, handleSubmitChat).         *)
THEOREM KeyNamesOneChat == AccountSpec => []OneChatPerKey
<1>1. KeyInv => OneChatPerKey
  BY DEF KeyInv, OneChatPerKey, Untaken
<1> QED
  BY <1>1, KeyIsKept, PTL
=============================================================================
