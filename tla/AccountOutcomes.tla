-------------------------- MODULE AccountOutcomes --------------------------
(***************************************************************************)
(* What holds of the outcomes of requests and plans, and of the            *)
(* reservations of requests, for any requests, nodes, accounts and bounds. *)
(***************************************************************************)
EXTENDS AccountProofs

-----------------------------------------------------------------------------
(* A request is answered once                                              *)
(*                                                                         *)
(* A request is given to one node once, and its task sends one answer, so  *)
(* there is at most one of: a task that has still to report, an answer on  *)
(* its way.  A request that has not been placed, or whose answer was       *)
(* taken, has neither.                                                     *)

Unreported(t) == t.at # "reported"

Answers(s, i, w) == s[i].type = "result" /\ s[i].of = w

Clean == {"new", "queued", "refused", "repeated", "claimed", "complete"}

OneTask ==
  \A t, u \in tasks :
    t.work \in Work /\ t.work = u.work /\ Unreported(t) /\ Unreported(u) => t = u

TaskOrAnswer ==
  \A t \in tasks, d \in Device : t.work \in Work /\ Unreported(t) =>
    \A i \in DOMAIN wire[d] : ~Answers(wire[d], i, t.work)

OneAnswer ==
  \A d, e \in Device : \A i \in DOMAIN wire[d], j \in DOMAIN wire[e] : \A w \in Work :
    Answers(wire[d], i, w) /\ Answers(wire[e], j, w) => d = e /\ i = j

CleanHasNone ==
  \A w \in Work : work[w].state \in Clean =>
    /\ \A t \in tasks : Unreported(t) => t.work # w
    /\ \A d \in Device : \A i \in DOMAIN wire[d] : ~Answers(wire[d], i, w)

AnswerInv == OneTask /\ TaskOrAnswer /\ OneAnswer /\ CleanHasNone

-----------------------------------------------------------------------------
(* The effects a step can have on tasks, answers and states.               *)

Open == {"new", "queued", "processing", "claimed"}

Moves(w) ==
  \/ work'[w].state = work[w].state
  \/ work[w].state \in Open /\ (work'[w].state \in Clean => work[w].state \in Clean)

NoNewTasks == \A t \in tasks' : t.work \in Work /\ Unreported(t) => t \in tasks

NoNewAnswers ==
  \A e \in Device : \A i \in DOMAIN wire'[e] : \A w \in Work :
    Answers(wire'[e], i, w) => i \in DOMAIN wire[e] /\ Answers(wire[e], i, w)

Nothing == NoNewTasks /\ NoNewAnswers /\ \A w \in Work : Moves(w)

(* A message is taken; the outcome it carries may be that of a request.    *)
Takes(d) ==
  /\ wire[d] # <<>> /\ Taken(d)
  /\ NoNewTasks
  /\ \A w \in Work :
       \/ Moves(w)
       \/ /\ Answers(wire[d], 1, w)
          /\ \/ work[w].state \in Open \/ kind[w] = "tool"
             \/ kind[w] # "chat" /\ work[w].state # "cancelled"

Places(w, d) == work[w].state \in {"new", "queued"} /\ Dispatch(w, d) /\ UNCHANGED wire

(* Tasks go on, or are stopped.                                            *)
Renames(f) ==
  /\ tasks' = {f[t] : t \in tasks}
  /\ \A t \in tasks : f[t].work = t.work /\ (Unreported(f[t]) => Unreported(t))
  /\ UNCHANGED wire
  /\ \A w \in Work : Moves(w)

Answered(t) == Unreported(t) /\ Reports(t)

Effect ==
  \/ Nothing
  \/ \E d \in Device : Takes(d)
  \/ \E w \in Work, d \in Device : Places(w, d)
  \/ \E f \in [tasks -> Task] : Renames(f)
  \/ \E t \in tasks : Answered(t)

LEMMA NothingKeepsAnswers ==
  ASSUME AnswerInv, Nothing
  PROVE  AnswerInv'
<1>1. OneTask'
  BY DEF AnswerInv, OneTask, Nothing, NoNewTasks
<1>2. TaskOrAnswer'
  BY DEF AnswerInv, TaskOrAnswer, Nothing, NoNewTasks, NoNewAnswers
<1>3. OneAnswer'
  BY DEF AnswerInv, OneAnswer, Nothing, NoNewAnswers
<1>4. CleanHasNone'
  <2> SUFFICES ASSUME NEW w \in Work, work'[w].state \in Clean
               PROVE  /\ \A t \in tasks' : Unreported(t) => t.work # w
                      /\ \A d \in Device : \A i \in DOMAIN wire'[d] : ~Answers(wire'[d], i, w)
    BY DEF CleanHasNone
  <2>1. work[w].state \in Clean
    BY DEF Nothing, Moves
  <2>2. \A t \in tasks' : Unreported(t) => t.work # w
    BY <2>1 DEF AnswerInv, CleanHasNone, Nothing, NoNewTasks
  <2>3. \A d \in Device : \A i \in DOMAIN wire'[d] : ~Answers(wire'[d], i, w)
    BY <2>1 DEF AnswerInv, CleanHasNone, Nothing, NoNewAnswers
  <2> QED
    BY <2>2, <2>3
<1> QED
  BY <1>1, <1>2, <1>3, <1>4 DEF AnswerInv

(* What is left after one message was taken stood one place further back.  *)
LEMMA TakenShifts ==
  ASSUME RequestTypeOK, NEW d \in Device, wire[d] # <<>>, Taken(d)
  PROVE  /\ 1 \in DOMAIN wire[d] /\ Head(wire[d]) = wire[d][1]
         /\ \A e \in Device \ {d} : wire'[e] = wire[e]
         /\ \A i \in DOMAIN wire'[d] :
              i \in Nat \ {0} /\ i + 1 \in DOMAIN wire[d] /\ wire'[d][i] = wire[d][i + 1]
<1>1. wire[d] \in Seq(Message) /\ wire'[d] = Tail(wire[d])
  BY DEF Taken, RequestTypeOK
<1> QED
  BY <1>1 DEF Taken, RequestTypeOK

LEMMA TakingKeepsAnswers ==
  ASSUME RequestTypeOK, AnswerInv, NEW d \in Device, Takes(d)
  PROVE  AnswerInv'
<1> DEFINE Was(e, i) == IF e = d THEN i + 1 ELSE i
<1>1. /\ \A e \in Device \ {d} : wire'[e] = wire[e]
      /\ 1 \in DOMAIN wire[d]
      /\ \A i \in DOMAIN wire'[d] :
           i \in Nat \ {0} /\ i + 1 \in DOMAIN wire[d] /\ wire'[d][i] = wire[d][i + 1]
  BY TakenShifts DEF Takes
<1>2. \A e \in Device : \A i \in DOMAIN wire'[e] :
        Was(e, i) \in DOMAIN wire[e] /\ wire'[e][i] = wire[e][Was(e, i)]
  BY <1>1
<1>3. \A e \in Device : \A i, j \in DOMAIN wire'[e] : Was(e, i) = Was(e, j) => i = j
  BY <1>1
<1>4. \A i \in DOMAIN wire'[d] : Was(d, i) # 1
  BY <1>1
<1> HIDE DEF Was
<1>5. OneTask'
  BY DEF AnswerInv, OneTask, Takes, NoNewTasks
<1>6. TaskOrAnswer'
  BY <1>2 DEF AnswerInv, TaskOrAnswer, Takes, NoNewTasks, Answers
<1>7. OneAnswer'
  BY <1>2, <1>3 DEF AnswerInv, OneAnswer, Answers
<1>8. CleanHasNone'
  <2> SUFFICES ASSUME NEW w \in Work, work'[w].state \in Clean
               PROVE  /\ \A t \in tasks' : Unreported(t) => t.work # w
                      /\ \A e \in Device : \A i \in DOMAIN wire'[e] : ~Answers(wire'[e], i, w)
    BY DEF CleanHasNone
  <2>1. CASE work[w].state \in Clean
    BY <1>2, <2>1 DEF AnswerInv, CleanHasNone, Takes, NoNewTasks, Answers
  <2>2. CASE Answers(wire[d], 1, w)
    <3>1. \A t \in tasks : Unreported(t) => t.work # w
      BY <1>1, <2>2 DEF AnswerInv, TaskOrAnswer
    <3>2. \A e \in Device : \A i \in DOMAIN wire[e] : Answers(wire[e], i, w) => e = d /\ i = 1
      BY <1>1, <2>2 DEF AnswerInv, OneAnswer
    <3>3. \A e \in Device : \A i \in DOMAIN wire'[e] : ~Answers(wire'[e], i, w)
      BY <1>2, <1>4, <3>2 DEF Answers
    <3> QED
      BY <3>1, <3>3 DEF Takes, NoNewTasks
  <2> QED
    BY <2>1, <2>2 DEF Takes, Moves
<1> QED
  BY <1>5, <1>6, <1>7, <1>8 DEF AnswerInv

LEMMA PlacingKeepsAnswers ==
  ASSUME RequestTypeOK, AnswerInv, NEW w \in Work, NEW d \in Device, Places(w, d)
  PROVE  AnswerInv'
<1> DEFINE new == [dev |-> d, work |-> w, n |-> 0, at |-> "waits"]
<1>1. \A t \in tasks' : t \in tasks \/ t = new
  BY DEF Places, Dispatch
<1>2. /\ \A t \in tasks : Unreported(t) => t.work # w
      /\ \A e \in Device : \A i \in DOMAIN wire[e] : ~Answers(wire[e], i, w)
  BY DEF Places, AnswerInv, CleanHasNone, Clean
<1>3. new.work = w
  OBVIOUS
<1>4. work'[w].state = "processing" /\ \A v \in Work \ {w} : work'[v] = work[v]
  BY DEF Places, Dispatch, RequestTypeOK
<1>5. wire' = wire
  BY DEF Places
<1> HIDE DEF new
<1>6. OneTask'
  BY <1>1, <1>2, <1>3 DEF AnswerInv, OneTask
<1>7. TaskOrAnswer'
  BY <1>1, <1>2, <1>3, <1>5 DEF AnswerInv, TaskOrAnswer
<1>8. OneAnswer'
  BY <1>5 DEF AnswerInv, OneAnswer
<1>9. CleanHasNone'
  BY <1>1, <1>3, <1>4, <1>5 DEF AnswerInv, CleanHasNone, Clean
<1> QED
  BY <1>6, <1>7, <1>8, <1>9 DEF AnswerInv

LEMMA RenamingKeepsAnswers ==
  ASSUME AnswerInv, NEW f, Renames(f)
  PROVE  AnswerInv'
<1>1. \A t \in tasks' : \E u \in tasks :
        t = f[u] /\ t.work = u.work /\ (Unreported(t) => Unreported(u))
  BY DEF Renames
<1>2. OneTask'
  BY <1>1 DEF AnswerInv, OneTask
<1>3. TaskOrAnswer'
  BY <1>1 DEF AnswerInv, TaskOrAnswer, Renames
<1>4. OneAnswer'
  BY DEF AnswerInv, OneAnswer, Renames
<1>5. \A w \in Work : work'[w].state \in Clean => work[w].state \in Clean
  BY DEF Renames, Moves
<1>6. CleanHasNone'
  BY <1>1, <1>5 DEF AnswerInv, CleanHasNone, Renames
<1> QED
  BY <1>2, <1>3, <1>4, <1>6 DEF AnswerInv

LEMMA ReportingKeepsAnswers ==
  ASSUME RequestTypeOK, AnswerInv, NEW t \in tasks, Answered(t)
  PROVE  AnswerInv'
<1>1. \A u \in tasks' : Unreported(u) => u \in tasks \ {t}
  <2>1. t \in Task
    BY DEF RequestTypeOK
  <2> QED
    BY <2>1 DEF Answered, Reports, Moved, Unreported, Task
<1>2. \A e \in Device : \A i \in DOMAIN wire'[e] : \A w \in Work : Answers(wire'[e], i, w) =>
        \/ i \in DOMAIN wire[e] /\ Answers(wire[e], i, w)
        \/ e = t.dev /\ i = Len(wire[e]) + 1 /\ w = t.work
  <2>1. PICK ok \in BOOLEAN :
          wire' = Sent(t.dev, [type |-> "result", of |-> t.work, n |-> t.n, ok |-> ok])
    BY DEF Answered, Reports
  <2> DEFINE m == [type |-> "result", of |-> t.work, n |-> t.n, ok |-> ok]
  <2>2. wire' = wire \/ wire' = [wire EXCEPT ![t.dev] = Append(@, m)]
    BY <2>1 DEF Sent
  <2>3. m.of = t.work
    OBVIOUS
  <2>4. t.dev \in Device /\ \A e \in Device : wire[e] \in Seq(Message)
    BY DEF RequestTypeOK, Task
  <2>5. m \in Message
    <3>1. t \in Task /\ t.work \in NodeOwner
      BY RequestConstants DEF RequestTypeOK, Task, NodeOwner, Owner
    <3> QED
      BY <3>1 DEF Message, Task
  <2> HIDE DEF m
  <2>6. \A i \in DOMAIN Append(wire[t.dev], m) :
          \/ i \in DOMAIN wire[t.dev] /\ Append(wire[t.dev], m)[i] = wire[t.dev][i]
          \/ i = Len(wire[t.dev]) + 1 /\ Append(wire[t.dev], m)[i] = m
    BY <2>4, <2>5
  <2> QED
    BY <2>2, <2>3, <2>4, <2>6 DEF Answers, RequestTypeOK
<1>3. work' = work
  BY DEF Answered, Reports, relayVars
<1>4. t.work \in Work =>
        /\ work[t.work].state \notin Clean
        /\ \A u \in tasks \ {t} : Unreported(u) => u.work # t.work
        /\ \A e \in Device : \A i \in DOMAIN wire[e] : ~Answers(wire[e], i, t.work)
  BY DEF Answered, AnswerInv, CleanHasNone, OneTask, TaskOrAnswer
<1>5. OneTask'
  BY <1>1 DEF AnswerInv, OneTask
<1>6. TaskOrAnswer'
  BY <1>1, <1>2, <1>4 DEF AnswerInv, TaskOrAnswer
<1>7. OneAnswer'
  BY <1>2, <1>4 DEF AnswerInv, OneAnswer
<1>8. CleanHasNone'
  BY <1>1, <1>2, <1>3, <1>4 DEF AnswerInv, CleanHasNone
<1> QED
  BY <1>5, <1>6, <1>7, <1>8 DEF AnswerInv

-----------------------------------------------------------------------------
(* Every step has one of these effects                                     *)

LEMMA SameWire ==
  ASSUME RequestTypeOK, \A e \in Device : wire'[e] \in {wire[e], <<>>}
  PROVE  NoNewAnswers
<1>1. DOMAIN <<>> = {}
  OBVIOUS
<1>2. \A e \in Device : wire'[e] = wire[e] \/ DOMAIN wire'[e] = {}
  BY <1>1
<1> QED
  BY <1>2 DEF NoNewAnswers

LEMMA SentAnswersNothing ==
  ASSUME RequestTypeOK, NEW d \in Device, NEW m \in Message, m.type # "result",
         wire' = Sent(d, m)
  PROVE  NoNewAnswers
<1>1. wire' = wire \/ wire' = [wire EXCEPT ![d] = Append(@, m)]
  BY DEF Sent
<1>2. \A e \in Device : wire[e] \in Seq(Message)
  BY DEF RequestTypeOK
<1>3. \A i \in DOMAIN Append(wire[d], m) :
        \/ i \in DOMAIN wire[d] /\ Append(wire[d], m)[i] = wire[d][i]
        \/ Append(wire[d], m)[i] = m
  BY <1>2
<1> QED
  BY <1>1, <1>2, <1>3 DEF NoNewAnswers, Answers, RequestTypeOK

LEMMA SameState ==
  ASSUME work' = work
  PROVE  \A w \in Work : Moves(w)
  BY DEF Moves

LEMMA FailMoves ==
  ASSUME RequestTypeOK, NEW D, FailWork(D)
  PROVE  \A w \in Work : Moves(w)
  BY DEF FailWork, Lost, Moves, Open, Clean, RequestTypeOK

LEMMA SetMoves ==
  ASSUME RequestTypeOK, NEW w \in Work, NEW s, SetState(w, s), work[w].state \in Open,
         s \in Clean => work[w].state \in Clean
  PROVE  \A v \in Work : Moves(v)
  BY DEF SetState, Moves, RequestTypeOK

LEMMA SubmitHasEffect ==
  ASSUME RequestTypeOK, NEW w \in Work, SubmitStep(w)
  PROVE  Effect
<1>1. ASSUME Submitted(w) PROVE work[w].state = "new" /\ UNCHANGED wire
  BY <1>1 DEF Submitted
<1>2. ASSUME Submitted(w), NEW s \in {"refused", "queued", "repeated"}, SetState(w, s),
             UNCHANGED tasks
      PROVE  Effect
  <2>1. \A v \in Work : Moves(v)
    BY <1>1, <1>2, SetMoves DEF Open, Clean
  <2>2. NoNewAnswers
    BY <1>1, <1>2, SameWire
  <2> QED
    BY <1>2, <2>1, <2>2 DEF Effect, Nothing, NoNewTasks
<1>3. ASSUME Submitted(w), Place(w) PROVE Effect
  <2>1. ASSUME NEW d \in Candidates(w), Dispatch(w, d) PROVE Effect
    <3>1. d \in Device
      BY DEF Candidates, RequestTypeOK
    <3> QED
      BY <1>1, <1>3, <2>1, <3>1 DEF Effect, Places
  <2>2. (IF Refused(w) THEN "refused" ELSE "queued") \in {"refused", "queued", "repeated"}
    OBVIOUS
  <2> QED
    BY <1>2, <1>3, <2>1, <2>2 DEF Place
<1>4. CASE RepeatChat(w)
  BY <1>2, <1>4 DEF RepeatChat
<1> QED
  BY <1>3, <1>4
  DEF SubmitStep, SubmitChat, SubmitTalk, SubmitAsr, SubmitEmbed, SubmitOcr, SubmitTool, Submit

LEMMA CancelHasEffect ==
  ASSUME RequestTypeOK, NEW w \in Work, CancelStep(w)
  PROVE  Effect
<1>1. ASSUME NEW k, Cancel(w, k) PROVE Effect
  <2> DEFINE f == [t \in tasks |->
                     IF t.work = w /\ kind[w] = "tool" /\ t.at = "runs" /\ t.dev \in linked \cap connected
                     THEN [t EXCEPT !.at = "stopped"] ELSE t]
  <2>1. \A t \in tasks : /\ f[t] \in Task /\ f[t].work = t.work
                         /\ Unreported(f[t]) => Unreported(t)
    <3> SUFFICES ASSUME NEW t \in tasks
                 PROVE  f[t] \in Task /\ f[t].work = t.work /\ (Unreported(f[t]) => Unreported(t))
      OBVIOUS
    <3>1. f[t] = t \/ (t.at = "runs" /\ f[t] = [t EXCEPT !.at = "stopped"])
      OBVIOUS
    <3> HIDE DEF f
    <3>2. t \in Task
      BY DEF RequestTypeOK
    <3> QED
      BY <3>1, <3>2 DEF Task, Unreported
  <2>2. tasks' = {f[t] : t \in tasks}
    BY <1>1 DEF Cancel, Stopped
  <2>3. \A v \in Work : Moves(v)
    BY <1>1, SetMoves DEF Cancel, Open, Clean
  <2>4. f \in [tasks -> Task] /\ UNCHANGED wire
    BY <1>1, <2>1 DEF Cancel
  <2> HIDE DEF f
  <2>5. Renames(f)
    BY <2>1, <2>2, <2>3, <2>4 DEF Renames
  <2> QED
    BY <2>4, <2>5 DEF Effect
<1> QED
  BY <1>1
  DEF CancelStep, CancelChat, CancelTalk, CancelAsr, CancelEmbed, CancelOcr, CancelTool

LEMMA AnswerHasEffect ==
  ASSUME RequestTypeOK, NEW d \in Device, AnswerStep(d)
  PROVE  Effect
<1> DEFINE w == Head(wire[d]).of
<1>1. ASSUME NEW k, Answer(d, k), \A v \in Work : v # w => work'[v] = work[v],
             \/ work' = work \/ work[w].state \in Open \/ kind[w] = "tool"
             \/ kind[w] # "chat" /\ work[w].state # "cancelled"
      PROVE  Effect
  <2>1. wire[d] # <<>> /\ Taken(d) /\ Head(wire[d]).type = "result" /\ UNCHANGED tasks
    BY <1>1 DEF Answer, Arrives
  <2>2. Answers(wire[d], 1, w)
    BY <2>1, TakenShifts DEF Answers
  <2>3. Takes(d)
    BY <1>1, <2>1, <2>2 DEF Takes, Moves, NoNewTasks
  <2> QED
    BY <2>3 DEF Effect
<1>2. ASSUME NEW k, Answer(d, k) PROVE kind[w] = k
  BY <1>2 DEF Answer
<1>3. ASSUME NEW s, SetState(w, s) PROVE \A v \in Work : v # w => work'[v] = work[v]
  BY <1>3 DEF SetState, RequestTypeOK
<1>4. ASSUME NEW s, Settle(w, s) PROVE \A v \in Work : v # w => work'[v] = work[v]
  BY <1>3, <1>4 DEF Settle
<1>5. ASSUME Ignore PROVE work' = work
  BY <1>5 DEF Ignore
<1>6. CASE HandleChatResponse(d) \/ HandleChatError(d)
  BY <1>1, <1>3, <1>4, <1>5, <1>6 DEF HandleChatResponse, HandleChatError, Believed, Open
<1>7. ASSUME NEW k, k # "chat", LateAnswer(d, k) PROVE Effect
  BY <1>1, <1>2, <1>4, <1>5, <1>7 DEF LateAnswer, Late
<1>8. CASE HandleToolAnswer(d)
  BY <1>1, <1>2, <1>4, <1>8 DEF HandleToolAnswer
<1> QED
  BY <1>6, <1>7, <1>8
  DEF AnswerStep, HandleTalkAnswer, HandleAsrAnswer, HandleEmbedAnswer, HandleOcrAnswer

LEMMA TaskHasEffect ==
  ASSUME RequestTypeOK, NEW t \in tasks, TaskStep(t)
  PROVE  Effect
<1>1. t \in Task
  BY DEF RequestTypeOK
<1>2. CASE TaskStarts(t)
  <2> DEFINE f == [u \in tasks |-> IF u = t THEN [t EXCEPT !.at = "runs"] ELSE u]
  <2>1. \A u \in tasks : /\ f[u] \in Task /\ f[u].work = u.work
                         /\ Unreported(f[u]) => Unreported(u)
    BY <1>1, <1>2 DEF RequestTypeOK, Task, Unreported, TaskStarts
  <2>2. tasks' = {f[u] : u \in tasks}
    BY <1>2 DEF TaskStarts, Moved
  <2>3. f \in [tasks -> Task] /\ UNCHANGED <<wire, work>>
    BY <1>2, <2>1 DEF TaskStarts, relayVars
  <2> HIDE DEF f
  <2>4. Renames(f)
    BY <2>1, <2>2, <2>3, SameState DEF Renames
  <2> QED
    BY <2>3, <2>4 DEF Effect
<1>3. ASSUME UNCHANGED <<wire, work>>, \A u \in tasks' : Unreported(u) => u \in tasks
      PROVE  Effect
  BY <1>3, SameWire, SameState DEF Effect, Nothing, NoNewTasks
<1>4. CASE TaskLeaves(t)
  BY <1>3, <1>4 DEF TaskLeaves, relayVars
<1>5. ASSUME Reports(t), Unreported(t) PROVE Effect
  BY <1>5 DEF Effect, Answered
<1>6. CASE ToolStops(t)
  <2>1. CASE Moved(t, "reported") /\ UNCHANGED <<relayVars, wire>>
    <3>1. \A u \in tasks' : Unreported(u) => u \in tasks
      BY <1>1, <2>1 DEF Moved, Unreported, Task
    <3> QED
      BY <1>3, <2>1, <3>1 DEF relayVars
  <2> QED
    BY <1>5, <1>6, <2>1 DEF ToolStops, Unreported
<1> QED
  BY <1>2, <1>4, <1>5, <1>6
  DEF TaskStep, ChatReports, TalkReports, AsrReports, EmbedReports, OcrReports, ToolReports,
      PlanReports, Runs, Unreported

LEMMA RequestsHaveEffect ==
  ASSUME RequestTypeOK, KeyInv, RequestNext
  PROVE  Effect
<1>1. ASSUME NoNewTasks, NoNewAnswers, \A w \in Work : Moves(w) PROVE Effect
  BY <1>1 DEF Effect, Nothing
<1>2. ASSUME UNCHANGED tasks PROVE NoNewTasks
  BY <1>2 DEF NoNewTasks
<1>3. CASE PlaceNext
  <2>1. PICK w \in todo : PlaceNext!(w)
    BY <1>3 DEF PlaceNext
  <2>2. w \in Work /\ work[w].state = "queued" /\ Candidates(w) \subseteq Device
    BY <2>1 DEF KeyInv, Candidates, RequestTypeOK
  <2>3. CASE UNCHANGED <<work, mem, reserved, tasks>>
    BY <1>1, <1>2, <2>1, <2>3, SameWire, SameState
  <2>4. ASSUME NEW d \in Candidates(w), Dispatch(w, d) PROVE Effect
    BY <2>1, <2>2, <2>4 DEF Effect, Places
  <2> QED
    BY <2>1, <2>3, <2>4
<1>4. ASSUME NEW w \in Work, PollStep(w) PROVE Effect
  BY <1>1, <1>2, <1>4, SameWire, SameState
  DEF PollStep, Poll, PollChat, PollTalk, PollAsr, PollEmbed, PollOcr, PollTool, nodeVars
<1>5. ASSUME NEW w \in Work, ChatHashed(w) PROVE Effect
  <2>1. \A v \in Work : Moves(v)
    BY <1>5, SetMoves DEF ChatHashed, Settle, Open, Clean
  <2> QED
    BY <1>1, <1>2, <1>5, <2>1, SameWire DEF ChatHashed, nodeVars
<1>6. ASSUME NEW d \in Device, HandleAvailability(d) PROVE Effect
  <2>1. Takes(d)
    BY <1>2, <1>6, SameState DEF HandleAvailability, Arrives, Takes
  <2> QED
    BY <2>1 DEF Effect
<1>7. ASSUME NEW d \in Device, HandleAuth(d) \/ HandleClose(d) PROVE Effect
  <2>1. NoNewAnswers
    BY <1>7, SameWire DEF HandleAuth, HandleClose, RequestTypeOK
  <2> QED
    BY <1>1, <1>2, <1>7, <2>1, FailMoves DEF HandleAuth, HandleClose
<1>8. ASSUME NEW d \in Device, \E p \in {"open", "closed", "revoked"} : SetPolicy(d, p)
      PROVE  Effect
  BY <1>1, <1>2, <1>8, SameWire, FailMoves DEF SetPolicy, nodeVars
<1>9. ASSUME NEW D \in SUBSET Device, CleanupStale(D) PROVE Effect
  BY <1>1, <1>2, <1>9, SameWire, FailMoves DEF CleanupStale, nodeVars
<1>10. ASSUME NEW d \in Device, HandleInventory(d) \/ LocalStarts(d) \/ LocalEnds(d) PROVE Effect
  BY <1>1, <1>2, <1>10, SameWire, SameState
  DEF HandleInventory, LocalStarts, LocalEnds, nodeVars, relayVars
<1>11. ASSUME NEW d \in Device, NodeDrop(d) PROVE Effect
  BY <1>1, <1>11, SameWire, SameState DEF NodeDrop, relayVars, NoNewTasks
<1>12. ASSUME NEW d \in Device, Publish(d) PROVE Effect
  <2> DEFINE id == IF gate[d] # None THEN gate[d] ELSE last[d]
             m == [type |-> IF gate[d] # None THEN "busy" ELSE "online",
                   of |-> id, n |-> 0, ok |-> TRUE]
  <2>1. m \in Message /\ m.type # "result"
    BY DEF RequestTypeOK, Message
  <2>2. wire' = Sent(d, m)
    BY <1>12 DEF Publish
  <2> HIDE DEF m
  <2>3. NoNewAnswers
    BY <2>1, <2>2, SentAnswersNothing
  <2> QED
    BY <1>1, <1>2, <1>12, <2>3, SameState DEF Publish, relayVars
<1>13. ASSUME NEW t \in tasks, HandleToolProgress(t) PROVE Effect
  BY <1>1, <1>2, <1>13, SameWire, SameState DEF HandleToolProgress, nodeVars
<1>14. CASE Hibernate
  BY <1>1, <1>2, <1>14, SameWire, SameState DEF Hibernate, nodeVars
<1>15. CASE Restart
  <2>1. \A w \in Work : Moves(w)
    BY <1>15 DEF Restart, Moves, Open, Clean, RequestTypeOK
  <2> QED
    BY <1>1, <1>2, <1>15, <2>1, SameWire DEF Restart
<1> QED
  BY <1>3, <1>4, <1>5, <1>6, <1>7, <1>8, <1>9, <1>10, <1>11, <1>12, <1>13, <1>14, <1>15,
     SubmitHasEffect, CancelHasEffect, AnswerHasEffect, TaskHasEffect
  DEF RequestNext, RequestStep

LEMMA PlansHaveEffect ==
  ASSUME RequestTypeOK, PlanStep
  PROVE  Effect
<1>1. ASSUME NEW lacking, NEW barred, ApplyPlan(lacking, barred) PROVE Effect
  <2>1. \A D : \A t \in PlanTasks(D) : t.work = Plan
    BY DEF PlanTasks
  <2>2. NoNewTasks
    BY <1>1, <2>1, RequestConstants DEF ApplyPlan, Applied, NoNewTasks
  <2> QED
    BY <1>1, <2>2, SameWire, SameState DEF ApplyPlan, Applied, Effect, Nothing
<1>2. ASSUME NEW d \in Device, HandlePlanResult(d) PROVE Effect
  <2>1. work' = work /\ UNCHANGED tasks /\ wire[d] # <<>> /\ Taken(d)
    BY <1>2 DEF HandlePlanResult, Ignore, Arrives
  <2>2. Takes(d)
    BY <2>1, SameState DEF Takes, NoNewTasks
  <2> QED
    BY <2>2 DEF Effect
<1>3. ASSUME UNCHANGED requestVars PROVE Effect
  BY <1>3, SameWire, SameState
  DEF requestVars, relayVars, nodeVars, Effect, Nothing, NoNewTasks
<1> QED
  BY <1>1, <1>2, <1>3 DEF PlanStep, CancelPlan, CreatePlan

LEMMA SessionsHaveEffect ==
  ASSUME AccountTypeOK, StreamStep
  PROVE  Effect
<1>1. RequestTypeOK
  BY DEF AccountTypeOK
<1>2. ASSUME NoNewAnswers, UNCHANGED <<work, tasks>> PROVE Effect
  BY <1>2, SameState DEF Effect, Nothing, NoNewTasks
<1>3. ASSUME UNCHANGED <<work, tasks, wire>> PROVE Effect
  BY <1>1, <1>2, <1>3, SameWire
<1>4. ASSUME NEW d \in Device, NEW type \in {"ready", "end"}, NEW ok \in BOOLEAN,
             wire' = Sent(d, [type |-> type, of |-> Session, n |-> 0, ok |-> ok])
      PROVE  NoNewAnswers
  <2> DEFINE m == [type |-> type, of |-> Session, n |-> 0, ok |-> ok]
  <2>1. m \in Message /\ m.type # "result"
    BY RequestConstants DEF Message, NodeOwner, Owner
  <2>2. wire' = Sent(d, m)
    BY <1>4
  <2> HIDE DEF m
  <2> QED
    BY <1>1, <2>1, <2>2, SentAnswersNothing
<1>5. CASE StartStream
  <2>1. UNCHANGED <<work, tasks>>
    BY <1>5 DEF StartStream, KeepRelay
  <2>2. CASE session.agent \in connected /\ reserved[session.agent] = None
    <3>1. session.agent \in Device /\ NodeStarts(session.agent)
      BY <1>1, <1>5, <2>2 DEF StartStream, RequestTypeOK
    <3>2. NoNewAnswers
      BY <1>1, <1>4, <3>1, SameWire DEF NodeStarts
    <3> QED
      BY <1>2, <2>1, <3>2
  <2> QED
    BY <1>3, <1>5, <2>1, <2>2 DEF StartStream
<1>6. ASSUME NEW d \in Device, NodeReady(d) \/ NodeEnds(d) \/ NodeLeaves(d) PROVE Effect
  <2>1. NoNewAnswers
    BY <1>1, <1>4, <1>6, SameWire DEF NodeReady, NodeEnds, NodeLeaves
  <2> QED
    BY <1>2, <1>6, <2>1 DEF NodeReady, NodeEnds, NodeLeaves, relayVars
<1>7. ASSUME NEW d \in Device, NEW type, EventArrives(d, type) PROVE Effect
  <2>1. Takes(d)
    BY <1>7, SameState DEF EventArrives, Arrives, KeepRelay, Takes, NoNewTasks
  <2> QED
    BY <2>1 DEF Effect
<1> QED
  BY <1>3, <1>5, <1>6, <1>7
  DEF StreamStep, CreateTicket, AcceptBrowser, BrowserStops, BrowserCancels, BrowserErrs,
      BrowserCloses, ExpireStream, KeepRelay, KeepNodes, StreamReady, StreamEnd

LEMMA AccountHasEffect ==
  ASSUME AccountTypeOK, KeyInv, AccountNext
  PROVE  Effect
<1>1. RequestTypeOK
  BY DEF AccountTypeOK
<1> QED
  BY <1>1, RequestsHaveEffect, PlansHaveEffect, SessionsHaveEffect
  DEF AccountNext, Closes, Drops, Restarts, RequestNext

LEMMA AnswersAreKept == AccountSpec => []AnswerInv
<1>1. AccountInit => AnswerInv
  BY DEF AccountInit, RequestInit, AnswerInv, OneTask, TaskOrAnswer, OneAnswer, CleanHasNone
<1>2. AccountTypeOK /\ KeyInv /\ AnswerInv /\ [AccountNext]_accountVars => AnswerInv'
  <2> SUFFICES ASSUME AccountTypeOK, KeyInv, AnswerInv, [AccountNext]_accountVars PROVE AnswerInv'
    OBVIOUS
  <2>1. RequestTypeOK
    BY DEF AccountTypeOK
  <2>2. CASE Effect
    BY <2>1, <2>2, NothingKeepsAnswers, TakingKeepsAnswers, PlacingKeepsAnswers,
       RenamingKeepsAnswers, ReportingKeepsAnswers DEF Effect
  <2>3. CASE UNCHANGED accountVars
    BY <2>3
    DEF accountVars, requestVars, relayVars, nodeVars, AnswerInv, OneTask, TaskOrAnswer, OneAnswer,
        CleanHasNone
  <2> QED
    BY <2>2, <2>3, AccountHasEffect
<1> QED
  BY <1>1, <1>2, AccountTypes, KeyIsKept, PTL DEF AccountSpec

OutcomeKept(w) ==
  /\ work[w].state = "complete" => work'[w].state = "complete"
  /\ work[w].state = "cancelled" /\ kind[w] # "tool" => work'[w].state = "cancelled"
  /\ work[w].state \in {"failed", "refused"} /\ kind[w] = "chat" => work'[w].state = work[w].state

(* For any requests, nodes and schedule, with messages late, lost or of a  *)
(* node long given up: a complete request stays complete, since nothing    *)
(* can answer it again, a cancelled one stays cancelled unless it is a     *)
(* tool, and a failed or refused chat is never revived by its node's       *)
(* answer (relay-agent-chat.ts, -talk.ts, -asr.ts, -embed.ts, -ocr.ts,     *)
(* -tool.ts).                                                              *)
THEOREM OutcomesAreFinal == AccountSpec => OutcomeFinal
<1>1. AccountTypeOK /\ KeyInv /\ AnswerInv /\ [AccountNext]_accountVars =>
        [\A w \in Work : OutcomeKept(w)]_requestVars
  <2> SUFFICES ASSUME AccountTypeOK, KeyInv, AnswerInv, AccountNext, NEW w \in Work
               PROVE  OutcomeKept(w)
    BY DEF accountVars, requestVars
  <2>1. ASSUME Moves(w) PROVE OutcomeKept(w)
    BY <2>1 DEF Moves, Open, OutcomeKept
  <2>2. ASSUME NEW d \in Device, Takes(d) PROVE OutcomeKept(w)
    <3>1. 1 \in DOMAIN wire[d]
      BY <2>2, TakenShifts DEF Takes, AccountTypeOK
    <3>2. Answers(wire[d], 1, w) => work[w].state # "complete"
      BY <3>1 DEF AnswerInv, CleanHasNone, Clean
    <3> QED
      BY <2>1, <2>2, <3>2 DEF Takes, Open, OutcomeKept
  <2>3. ASSUME NEW v \in Work, NEW d \in Device, Places(v, d) PROVE OutcomeKept(w)
    BY <2>3 DEF Places, Dispatch, OutcomeKept, AccountTypeOK, RequestTypeOK
  <2>4. ASSUME NEW t \in tasks, Answered(t) PROVE OutcomeKept(w)
    BY <2>1, <2>4, SameState DEF Answered, Reports, relayVars
  <2> QED
    BY <2>1, <2>2, <2>3, <2>4, AccountHasEffect DEF Effect, Nothing, Renames
<1> QED
  BY <1>1, AccountTypes, KeyIsKept, AnswersAreKept, PTL DEF AccountSpec, OutcomeFinal, OutcomeKept

-----------------------------------------------------------------------------
(* A model plan's targets are settled                                      *)

(* The devices whose agent and Relay agree that they are connected, and    *)
(* the attempts a device's unhandled plan results are of.                  *)
Tied == linked \cap connected

Reported(d) ==
  {n \in Nat : \E i \in DOMAIN wire[d] :
     wire[d][i].type = "result" /\ wire[d][i].of = Plan /\ wire[d][i].n = n}

AtWork(t) == t.work = Plan /\ Unreported(t)

(* A task at work over a connection that was kept is of the attempt under  *)
(* way, its target is still applying, and its result is not yet sent; only *)
(* because of that can the next attempt count on finding the node free.    *)
PlanTasksInv ==
  \A t \in tasks : t.work = Plan =>
    /\ t.at # "stopped" /\ t.n <= plan.attempt
    /\ Unreported(t) /\ t.dev \in Tied =>
         t.dev \in sent /\ target[t.dev] = "applying" /\ t.n = plan.attempt

OneAtWork == \A t, u \in tasks : AtWork(t) /\ AtWork(u) /\ t.dev = u.dev => t = u

ReportedInv ==
  \A d \in Device :
    /\ \A n \in Reported(d) : n <= plan.attempt
    /\ d \in sent /\ plan.attempt \in Reported(d) => \A t \in tasks : AtWork(t) => t.dev # d

StateInv ==
  /\ plan.state \in {"planned", "finished", "failed"} => \A d \in Device : target[d] # "applying"
  /\ plan.state = "none" => \A d \in Device : target[d] = "none"

Underway ==
  \A d \in sent : target[d] = "applying" =>
    \/ \E t \in tasks : AtWork(t) /\ t.dev = d /\ t.n = plan.attempt
    \/ plan.attempt \in Reported(d)

PlanInv ==
  /\ sent \subseteq Tied
  /\ PlanTasksInv /\ OneAtWork /\ ReportedInv /\ StateInv /\ Underway

LEMMA PlanInvMeans ==
  ASSUME AccountTypeOK, PlanInv
  PROVE  PlanUnderway
<1>1. \A t \in tasks : AtWork(t) => t.work = Plan /\ t.at \in {"waits", "runs"}
  BY DEF AccountTypeOK, RequestTypeOK, Task, AtWork, Unreported, PlanInv, PlanTasksInv
<1> QED
  BY <1>1 DEF PlanUnderway, PlanInv, Underway, Reported

-----------------------------------------------------------------------------
(* What leaves the plan alone                                              *)

SamePlanTasks == \A t : t.work = Plan => (t \in tasks' <=> t \in tasks)

(* A device that becomes tied has no task, and no result is lost between   *)
(* the two sides of a connection that is kept.                             *)
PlanKept ==
  /\ SamePlanTasks
  /\ \A d \in Tied' \ Tied : \A t \in tasks : t.dev # d
  /\ \A d \in Device : Reported(d)' \subseteq Reported(d)
  /\ \A d \in Device : d \in Tied /\ d \in Tied' => Reported(d)' = Reported(d)

LEMMA KeptKeepsPlan ==
  ASSUME AccountTypeOK, PlanInv, PlanKept, UNCHANGED <<plan, target>>, sent' = sent \cap Tied'
  PROVE  PlanInv'
<1>1. PlanTasksInv'
  BY DEF PlanInv, PlanTasksInv, PlanKept, SamePlanTasks
<1>2. OneAtWork'
  BY DEF PlanInv, OneAtWork, PlanKept, SamePlanTasks, AtWork
<1>3. ReportedInv'
  BY DEF PlanInv, ReportedInv, PlanKept, SamePlanTasks, AtWork
<1>4. StateInv'
  BY DEF PlanInv, StateInv
<1>5. Underway'
  <2>1. sent \subseteq Device
    BY DEF AccountTypeOK, PlanTypeOK
  <2> QED
    BY <2>1 DEF PlanInv, Underway, PlanKept, SamePlanTasks, AtWork
<1> QED
  BY <1>1, <1>2, <1>3, <1>4, <1>5 DEF PlanInv

LEMMA WireKeepsReported ==
  ASSUME UNCHANGED wire
  PROVE  \A d \in Device : Reported(d)' = Reported(d)
  BY DEF Reported

LEMMA SentKeepsReported ==
  ASSUME RequestTypeOK, NEW d \in Device, NEW m \in Message, wire' = Sent(d, m),
         m.type # "result" \/ m.of # Plan
  PROVE  \A e \in Device : Reported(e)' = Reported(e)
<1>1. CASE wire' = wire
  BY <1>1, WireKeepsReported
<1>2. CASE wire' = [wire EXCEPT ![d] = Append(@, m)]
  <2>1. \A e \in Device : wire[e] \in Seq(Message)
    BY DEF RequestTypeOK
  <2> DEFINE s == Append(wire[d], m)
  <2>2. /\ \A i \in DOMAIN s : (i \in DOMAIN wire[d] /\ s[i] = wire[d][i]) \/ s[i] = m
        /\ \A i \in DOMAIN wire[d] : i \in DOMAIN s /\ s[i] = wire[d][i]
    BY <2>1
  <2>3. wire'[d] = s /\ \A e \in Device \ {d} : wire'[e] = wire[e]
    BY <1>2 DEF RequestTypeOK
  <2> HIDE DEF s
  <2> QED
    BY <2>2, <2>3 DEF Reported
<1> QED
  BY <1>1, <1>2 DEF Sent

LEMMA TakenKeepsReported ==
  ASSUME RequestTypeOK, NEW d \in Device, wire[d] # <<>>, Taken(d)
  PROVE  /\ \A e \in Device : Reported(e)' \subseteq Reported(e)
         /\ \A e \in Device : \A n \in Reported(e) :
              \/ n \in Reported(e)'
              \/ e = d /\ Head(wire[d]).type = "result" /\ Head(wire[d]).of = Plan
                 /\ Head(wire[d]).n = n
<1>1. /\ Head(wire[d]) = wire[d][1]
      /\ \A e \in Device \ {d} : wire'[e] = wire[e]
      /\ \A i \in DOMAIN wire'[d] : i + 1 \in DOMAIN wire[d] /\ wire'[d][i] = wire[d][i + 1]
  BY TakenShifts
<1>2. \A i \in DOMAIN wire[d] : i = 1 \/ \E j \in DOMAIN wire'[d] : wire'[d][j] = wire[d][i]
  <2>1. wire[d] \in Seq(Message) /\ wire'[d] = Tail(wire[d])
    BY DEF Taken, RequestTypeOK
  <2>2. \A i \in DOMAIN wire[d] : i # 1 => i - 1 \in DOMAIN wire'[d] /\ wire'[d][i - 1] = wire[d][i]
    BY <2>1
  <2> QED
    BY <2>2
<1>3. \A e \in Device : Reported(e)' \subseteq Reported(e)
  BY <1>1 DEF Reported
<1>4. \A e \in Device \ {d} : Reported(e)' = Reported(e)
  BY <1>1 DEF Reported
<1>5. \A n \in Reported(d) :
        \/ n \in Reported(d)'
        \/ Head(wire[d]).type = "result" /\ Head(wire[d]).of = Plan /\ Head(wire[d]).n = n
  BY <1>1, <1>2 DEF Reported
<1> QED
  BY <1>3, <1>4, <1>5

LEMMA TakingKeepsPlan ==
  ASSUME RequestTypeOK, NEW d \in Device, wire[d] # <<>>, Taken(d), UNCHANGED <<tasks, linked, connected>>,
         Head(wire[d]).type # "result" \/ Head(wire[d]).of # Plan
  PROVE  PlanKept
<1>1. \A e \in Device : Reported(e)' = Reported(e)
  <2> SUFFICES ASSUME NEW e \in Device PROVE Reported(e)' = Reported(e)
    OBVIOUS
  <2>1. Reported(e)' \subseteq Reported(e) /\ Reported(e) \subseteq Reported(e)'
    BY TakenKeepsReported
  <2> QED
    BY <2>1
<1> QED
  BY <1>1 DEF PlanKept, SamePlanTasks, Tied

LEMMA SilenceKeepsPlan ==
  ASSUME UNCHANGED <<wire, linked, connected>>, SamePlanTasks
  PROVE  PlanKept
  BY WireKeepsReported DEF PlanKept, Tied

LEMMA DispatchKeepsTasks ==
  ASSUME NEW w \in Work, NEW d, Dispatch(w, d)
  PROVE  SamePlanTasks
<1> DEFINE new == [dev |-> d, work |-> w, n |-> 0, at |-> "waits"]
<1>1. new.work # Plan
  BY RequestConstants
<1>2. tasks' = tasks \/ tasks' = tasks \cup {new}
  BY DEF Dispatch
<1> HIDE DEF new
<1> QED
  BY <1>1, <1>2 DEF SamePlanTasks

(* Requests and their tasks leave the tasks of the plan alone.             *)
LEMMA TaskKeepsPlan ==
  ASSUME RequestTypeOK, NEW t \in tasks, t.work # Plan, TaskStep(t)
  PROVE  PlanKept
<1>1. t \in Task
  BY DEF RequestTypeOK
<1>2. ASSUME NEW at, Moved(t, at) PROVE SamePlanTasks
  <2>1. [t EXCEPT !.at = at].work # Plan
    BY <1>1 DEF Task
  <2> QED
    BY <1>2, <2>1 DEF Moved, SamePlanTasks
<1>3. CASE TaskStarts(t)
  BY <1>2, <1>3, SilenceKeepsPlan DEF TaskStarts, relayVars
<1>4. CASE TaskLeaves(t)
  BY <1>4, SilenceKeepsPlan DEF TaskLeaves, relayVars, SamePlanTasks
<1>5. ASSUME Reports(t) PROVE PlanKept
  <2>1. PICK ok \in BOOLEAN :
          wire' = Sent(t.dev, [type |-> "result", of |-> t.work, n |-> t.n, ok |-> ok])
    BY <1>5 DEF Reports
  <2> DEFINE m == [type |-> "result", of |-> t.work, n |-> t.n, ok |-> ok]
  <2>2. m \in Message /\ m.of # Plan
    BY <1>1, RequestConstants DEF Message, Task, NodeOwner, Owner
  <2>3. wire' = Sent(t.dev, m) /\ t.dev \in Device
    BY <1>1, <2>1 DEF Task
  <2> HIDE DEF m
  <2>4. \A e \in Device : Reported(e)' = Reported(e)
    BY <2>2, <2>3, SentKeepsReported
  <2> QED
    BY <1>2, <1>5, <2>4 DEF Reports, relayVars, PlanKept, Tied
<1>6. CASE ToolStops(t)
  BY <1>2, <1>5, <1>6, SilenceKeepsPlan DEF ToolStops, relayVars
<1> QED
  BY <1>3, <1>4, <1>5, <1>6
  DEF TaskStep, ChatReports, TalkReports, AsrReports, EmbedReports, OcrReports, ToolReports,
      PlanReports

LEMMA OwnerKeepsPlan ==
  ASSUME RequestTypeOK, NEW w \in Work, SubmitStep(w) \/ PollStep(w) \/ CancelStep(w)
  PROVE  PlanKept
<1>1. ASSUME UNCHANGED <<wire, linked, connected, tasks>> PROVE PlanKept
  BY <1>1, SilenceKeepsPlan DEF SamePlanTasks
<1>2. ASSUME Place(w), UNCHANGED <<wire, linked, connected>> PROVE PlanKept
  BY <1>1, <1>2, SilenceKeepsPlan, DispatchKeepsTasks DEF Place
<1>3. ASSUME NEW k, Cancel(w, k) PROVE PlanKept
  <2>1. \A t \in tasks : t.work = w => [t EXCEPT !.at = "stopped"].work # Plan
    BY RequestConstants DEF RequestTypeOK, Task
  <2>2. w # Plan
    BY RequestConstants
  <2>3. SamePlanTasks
    BY <1>3, <2>1, <2>2 DEF Cancel, Stopped, SamePlanTasks
  <2> QED
    BY <1>3, <2>3, SilenceKeepsPlan DEF Cancel
<1>4. CASE SubmitStep(w)
  BY <1>1, <1>2, <1>4
  DEF SubmitStep, SubmitChat, SubmitTalk, SubmitAsr, SubmitEmbed, SubmitOcr, SubmitTool, Submit,
      Submitted, RepeatChat
<1>5. CASE PollStep(w)
  BY <1>1, <1>5
  DEF PollStep, Poll, PollChat, PollTalk, PollAsr, PollEmbed, PollOcr, PollTool, nodeVars
<1> QED
  BY <1>3, <1>4, <1>5
  DEF CancelStep, CancelChat, CancelTalk, CancelAsr, CancelEmbed, CancelOcr, CancelTool

LEMMA AuthKeepsPlan ==
  ASSUME RequestTypeOK, NEW d \in Device, HandleAuth(d)
  PROVE  PlanKept /\ Tied \subseteq Tied'
<1>1. d \notin linked /\ UNCHANGED tasks /\ \A t \in tasks : t.dev # d
  BY DEF HandleAuth
<1>2. wire'[d] = <<>> /\ \A e \in Device \ {d} : wire'[e] = wire[e]
  BY DEF HandleAuth, RequestTypeOK
<1>3. DOMAIN <<>> = {}
  OBVIOUS
<1>4. Reported(d)' = {} /\ \A e \in Device \ {d} : Reported(e)' = Reported(e)
  BY <1>2, <1>3 DEF Reported
<1>5. Tied \subseteq Tied' /\ Tied' \subseteq Tied \cup {d} /\ d \notin Tied
  BY <1>1 DEF HandleAuth, Tied
<1> QED
  BY <1>1, <1>4, <1>5 DEF PlanKept, SamePlanTasks

LEMMA RequestsKeepPlan ==
  ASSUME RequestTypeOK, RequestStep, ~ \E t \in tasks : t.work = Plan /\ TaskStep(t)
  PROVE  PlanKept /\ Tied \subseteq Tied'
<1>1. ASSUME UNCHANGED <<wire, linked, connected, tasks>> PROVE PlanKept /\ Tied \subseteq Tied'
  BY <1>1, SilenceKeepsPlan DEF SamePlanTasks, Tied
<1>2. ASSUME UNCHANGED <<linked, connected>>, PlanKept PROVE PlanKept /\ Tied \subseteq Tied'
  BY <1>2 DEF Tied
<1>3. CASE PlaceNext
  BY <1>2, <1>3, SilenceKeepsPlan, DispatchKeepsTasks DEF PlaceNext, RequestTypeOK, SamePlanTasks
<1>4. ASSUME NEW w \in Work, SubmitStep(w) \/ PollStep(w) \/ CancelStep(w)
      PROVE  PlanKept /\ Tied \subseteq Tied'
  <2>1. UNCHANGED <<linked, connected>>
    BY <1>4
    DEF SubmitStep, SubmitChat, SubmitTalk, SubmitAsr, SubmitEmbed, SubmitOcr, SubmitTool, Submit,
        Submitted, RepeatChat, PollStep, Poll, PollChat, PollTalk, PollAsr, PollEmbed, PollOcr,
        PollTool, nodeVars, CancelStep, Cancel, CancelChat, CancelTalk, CancelAsr, CancelEmbed,
        CancelOcr, CancelTool
  <2> QED
    BY <1>2, <1>4, <2>1, OwnerKeepsPlan
<1>5. ASSUME NEW d \in Device, AnswerStep(d) PROVE PlanKept /\ Tied \subseteq Tied'
  <2>1. PICK k \in Kind : Answer(d, k)
    BY <1>5
    DEF AnswerStep, HandleChatResponse, HandleChatError, HandleTalkAnswer, HandleAsrAnswer,
        HandleEmbedAnswer, HandleOcrAnswer, HandleToolAnswer, LateAnswer, Kind
  <2>2. /\ wire[d] # <<>> /\ Taken(d) /\ Head(wire[d]).of # Plan
        /\ UNCHANGED <<linked, connected, tasks>>
    BY <2>1, RequestConstants DEF Answer, Arrives
  <2> QED
    BY <1>2, <2>2, TakingKeepsPlan
<1>6. ASSUME NEW d \in Device, HandleAvailability(d) PROVE PlanKept /\ Tied \subseteq Tied'
  <2>1. /\ wire[d] # <<>> /\ Taken(d) /\ Head(wire[d]).type # "result"
        /\ UNCHANGED <<linked, connected, tasks>>
    BY <1>6 DEF HandleAvailability, Arrives
  <2> QED
    BY <1>2, <2>1, TakingKeepsPlan
<1>7. ASSUME NEW d \in Device,
             \/ HandleInventory(d) \/ LocalStarts(d) \/ LocalEnds(d)
             \/ \E p \in {"open", "closed", "revoked"} : SetPolicy(d, p)
      PROVE  PlanKept /\ Tied \subseteq Tied'
  BY <1>1, <1>7 DEF HandleInventory, LocalStarts, LocalEnds, SetPolicy, nodeVars, relayVars
<1>8. ASSUME NEW d \in Device, Publish(d) PROVE PlanKept /\ Tied \subseteq Tied'
  <2> DEFINE id == IF gate[d] # None THEN gate[d] ELSE last[d]
             m == [type |-> IF gate[d] # None THEN "busy" ELSE "online",
                   of |-> id, n |-> 0, ok |-> TRUE]
  <2>1. m \in Message /\ m.type # "result"
    BY DEF RequestTypeOK, Message
  <2>2. wire' = Sent(d, m) /\ UNCHANGED <<linked, connected, tasks>>
    BY <1>8 DEF Publish, relayVars
  <2> HIDE DEF m
  <2>3. \A e \in Device : Reported(e)' = Reported(e)
    BY <2>1, <2>2, SentKeepsReported
  <2> QED
    BY <2>2, <2>3 DEF PlanKept, SamePlanTasks, Tied
<1>9. ASSUME NEW t \in tasks, TaskStep(t) \/ HandleToolProgress(t)
      PROVE  PlanKept /\ Tied \subseteq Tied'
  <2>1. CASE HandleToolProgress(t)
    BY <1>1, <2>1 DEF HandleToolProgress, nodeVars
  <2>2. CASE TaskStep(t)
    <3>1. t.work # Plan /\ UNCHANGED <<linked, connected>>
      BY <2>2
      DEF TaskStep, TaskStarts, TaskLeaves, ToolStops, Reports, ChatReports, TalkReports,
          AsrReports, EmbedReports, OcrReports, ToolReports, PlanReports, relayVars
    <3> QED
      BY <1>2, <2>2, <3>1, TaskKeepsPlan
  <2> QED
    BY <1>9, <2>1, <2>2
<1>10. CASE \/ Hibernate \/ \E w \in Work : ChatHashed(w)
            \/ \E D \in SUBSET Device : CleanupStale(D)
  BY <1>1, <1>10 DEF Hibernate, ChatHashed, CleanupStale, nodeVars
<1> QED
  BY <1>3, <1>4, <1>5, <1>6, <1>7, <1>8, <1>9, <1>10, AuthKeepsPlan DEF RequestStep

LEMMA SessionsKeepPlan ==
  ASSUME AccountTypeOK, StreamStep
  PROVE  PlanKept /\ UNCHANGED <<linked, connected>>
<1>1. RequestTypeOK
  BY DEF AccountTypeOK
<1>2. ASSUME UNCHANGED <<tasks, linked, connected>>, \A e \in Device : Reported(e)' = Reported(e)
      PROVE  PlanKept
  BY <1>2 DEF PlanKept, SamePlanTasks, Tied
<1>3. ASSUME UNCHANGED <<tasks, linked, connected, wire>> PROVE PlanKept
  BY <1>2, <1>3, WireKeepsReported
<1>4. ASSUME NEW d \in Device, NEW type \in {"ready", "end"}, NEW ok \in BOOLEAN,
             wire' = Sent(d, [type |-> type, of |-> Session, n |-> 0, ok |-> ok])
      PROVE  \A e \in Device : Reported(e)' = Reported(e)
  <2> DEFINE m == [type |-> type, of |-> Session, n |-> 0, ok |-> ok]
  <2>1. m \in Message /\ m.type # "result"
    BY RequestConstants DEF Message, NodeOwner, Owner
  <2>2. wire' = Sent(d, m)
    BY <1>4
  <2> HIDE DEF m
  <2> QED
    BY <1>1, <2>1, <2>2, SentKeepsReported
<1>5. CASE StartStream
  <2>1. UNCHANGED <<tasks, linked, connected>>
    BY <1>5 DEF StartStream, KeepRelay
  <2>2. CASE session.agent \in connected /\ reserved[session.agent] = None
    <3>1. session.agent \in Device /\ NodeStarts(session.agent)
      BY <1>1, <1>5, <2>2 DEF StartStream, RequestTypeOK
    <3>2. \A e \in Device : Reported(e)' = Reported(e)
      BY <1>4, <3>1, WireKeepsReported DEF NodeStarts
    <3> QED
      BY <1>2, <2>1, <3>2
  <2> QED
    BY <1>3, <1>5, <2>1, <2>2 DEF StartStream
<1>6. ASSUME NEW d \in Device, NodeReady(d) \/ NodeEnds(d) \/ NodeLeaves(d)
      PROVE  PlanKept /\ UNCHANGED <<linked, connected>>
  <2>1. \A e \in Device : Reported(e)' = Reported(e)
    BY <1>4, <1>6, WireKeepsReported DEF NodeReady, NodeEnds, NodeLeaves
  <2> QED
    BY <1>2, <1>6, <2>1 DEF NodeReady, NodeEnds, NodeLeaves, relayVars
<1>7. ASSUME NEW d \in Device, NEW type \in {"ready", "end"}, EventArrives(d, type)
      PROVE  PlanKept /\ UNCHANGED <<linked, connected>>
  <2>1. /\ wire[d] # <<>> /\ Taken(d) /\ Head(wire[d]).type # "result"
        /\ UNCHANGED <<tasks, linked, connected>>
    BY <1>7 DEF EventArrives, Arrives, KeepRelay
  <2> QED
    BY <1>1, <2>1, TakingKeepsPlan
<1>8. CASE StreamStep /\ UNCHANGED <<tasks, linked, connected, wire>>
  BY <1>3, <1>8
<1>9. StartStream => UNCHANGED <<linked, connected>>
  BY DEF StartStream, KeepRelay
<1> QED
  BY <1>5, <1>6, <1>7, <1>8, <1>9
  DEF StreamStep, CreateTicket, AcceptBrowser, BrowserStops, BrowserCancels, BrowserErrs,
      BrowserCloses, ExpireStream, KeepRelay, KeepNodes, StreamReady, StreamEnd

-----------------------------------------------------------------------------
(* The plan's own steps                                                    *)

LEMMA PlanStateMeans ==
  ASSUME NEW t, plan.state # "cancelled",
         PlanStateOf(t) \in {"planned", "finished", "failed"}
  PROVE  \A d \in Device : t[d] # "applying"
<1> DEFINE now == {t[d] : d \in Device} \ {"none"}
<1>1. ASSUME "applying" \in now PROVE FALSE
  BY <1>1 DEF PlanStateOf
<1> QED
  BY <1>1

LEMMA PlanStateNotNone ==
  ASSUME NEW t, plan.state # "cancelled"
  PROVE  PlanStateOf(t) # "none"
<1> DEFINE now == {t[d] : d \in Device} \ {"none"}
<1>1. CASE "applying" \in now
  BY <1>1 DEF PlanStateOf
<1>2. CASE "applying" \notin now /\ "ready" \in now
  BY <1>2 DEF PlanStateOf
<1>3. CASE "applying" \notin now /\ "ready" \notin now
  BY <1>3 DEF PlanStateOf
<1> QED
  BY <1>1, <1>2, <1>3

LEMMA PlanStateCancelled ==
  ASSUME NEW t, plan.state = "cancelled"
  PROVE  PlanStateOf(t) = "cancelled"
  BY DEF PlanStateOf

(* The task of a target takes the gate, or reports.                        *)
LEMMA PlanTaskKeepsPlan ==
  ASSUME AccountTypeOK, PlanInv, NEW t \in tasks, t.work = Plan, TaskStep(t),
         UNCHANGED planVars
  PROVE  PlanInv'
<1>1. /\ t \in Task /\ t.dev \in Device /\ RequestTypeOK
      /\ UNCHANGED <<plan, target, sent>>
      /\ plan.attempt \in Nat /\ sent \subseteq Device
  BY PlanConstants DEF AccountTypeOK, RequestTypeOK, PlanTypeOK, Task, planVars
<1>2. Plan \notin Work
  BY RequestConstants
<1>3. UNCHANGED <<linked, connected>>
  BY DEF TaskStep, TaskStarts, TaskLeaves, ToolStops, Reports, ChatReports, TalkReports,
         AsrReports, EmbedReports, OcrReports, ToolReports, PlanReports, relayVars
<1>4. CASE TaskStarts(t)
  <2> DEFINE u == [t EXCEPT !.at = "runs"]
  <2>1. tasks' = (tasks \ {t}) \cup {u} /\ wire' = wire
    BY <1>4 DEF TaskStarts, Moved
  <2>2. /\ u.work = Plan /\ u.dev = t.dev /\ u.n = t.n /\ u.at = "runs" /\ AtWork(u)
        /\ AtWork(t)
    BY <1>1, <1>4 DEF Task, TaskStarts, AtWork, Unreported
  <2> HIDE DEF u
  <2>3. \A d \in Device : Reported(d)' = Reported(d)
    BY <2>1, WireKeepsReported
  <2>4. PlanTasksInv'
    BY <1>1, <1>3, <2>1, <2>2 DEF PlanInv, PlanTasksInv, Tied, AtWork
  <2>5. OneAtWork'
    BY <2>1, <2>2 DEF PlanInv, OneAtWork
  <2>6. ReportedInv'
    BY <1>1, <2>1, <2>2, <2>3 DEF PlanInv, ReportedInv
  <2>7. StateInv'
    BY <1>1 DEF PlanInv, StateInv
  <2>8. Underway'
    BY <1>1, <2>1, <2>2, <2>3 DEF PlanInv, Underway
  <2> QED
    BY <1>1, <1>3, <2>4, <2>5, <2>6, <2>7, <2>8 DEF PlanInv, Tied
<1>5. CASE TaskLeaves(t)
  <2>1. tasks' = tasks \ {t} /\ wire' = wire /\ ~AtWork(t)
    BY <1>5 DEF TaskLeaves, AtWork, Unreported
  <2>2. \A d \in Device : Reported(d)' = Reported(d)
    BY <2>1, WireKeepsReported
  <2>3. PlanTasksInv'
    BY <1>1, <1>3, <2>1 DEF PlanInv, PlanTasksInv, Tied
  <2>4. OneAtWork'
    BY <2>1 DEF PlanInv, OneAtWork
  <2>5. ReportedInv'
    BY <1>1, <2>1, <2>2 DEF PlanInv, ReportedInv
  <2>6. StateInv'
    BY <1>1 DEF PlanInv, StateInv
  <2>7. Underway'
    BY <1>1, <2>1, <2>2 DEF PlanInv, Underway
  <2> QED
    BY <1>1, <1>3, <2>3, <2>4, <2>5, <2>6, <2>7 DEF PlanInv, Tied
<1>6. ASSUME t.at = "runs", Reports(t) PROVE PlanInv'
  <2> DEFINE u == [t EXCEPT !.at = "reported"]
  <2>1. tasks' = (tasks \ {t}) \cup {u}
    BY <1>6 DEF Reports, Moved
  <2>2. u.work = Plan /\ u.n = t.n /\ u.at = "reported" /\ ~AtWork(u) /\ AtWork(t)
    BY <1>1, <1>6 DEF Task, AtWork, Unreported
  <2> HIDE DEF u
  <2>3. t.n \in Nat /\ t.n <= plan.attempt
    BY <1>1 DEF PlanInv, PlanTasksInv, Task
  <2>4. /\ \A d \in Device : \A n \in Reported(d)' : n \in Reported(d) \/ (d = t.dev /\ n = t.n)
        /\ \A d \in Device : Reported(d) \subseteq Reported(d)'
        /\ t.dev \in Tied => t.n \in Reported(t.dev)'
    <3>1. PICK ok \in BOOLEAN :
            wire' = Sent(t.dev, [type |-> "result", of |-> t.work, n |-> t.n, ok |-> ok])
      BY <1>6 DEF Reports
    <3> DEFINE m == [type |-> "result", of |-> t.work, n |-> t.n, ok |-> ok]
               s == Append(wire[t.dev], m)
    <3>2. m.type = "result" /\ m.of = Plan /\ m.n = t.n /\ m \in Message
      BY <1>1, RequestConstants DEF Message, NodeOwner, Owner, Task
    <3>3. wire' = IF t.dev \in Tied THEN [wire EXCEPT ![t.dev] = s] ELSE wire
      BY <3>1 DEF Sent, Tied
    <3>4. wire[t.dev] \in Seq(Message)
      BY <1>1 DEF RequestTypeOK
    <3>5. /\ \A i \in DOMAIN s : (i \in DOMAIN wire[t.dev] /\ s[i] = wire[t.dev][i]) \/ s[i] = m
          /\ \A i \in DOMAIN wire[t.dev] : i \in DOMAIN s /\ s[i] = wire[t.dev][i]
          /\ Len(wire[t.dev]) + 1 \in DOMAIN s /\ s[Len(wire[t.dev]) + 1] = m
      BY <3>2, <3>4
    <3> HIDE DEF m, s
    <3>6. CASE t.dev \in Tied
      <4>1. wire'[t.dev] = s /\ \A d \in Device \ {t.dev} : wire'[d] = wire[d]
        BY <1>1, <3>3, <3>6 DEF RequestTypeOK
      <4> QED
        BY <1>1, <2>3, <3>2, <3>5, <4>1 DEF Reported
    <3>7. CASE t.dev \notin Tied
      BY <3>3, <3>7, WireKeepsReported
    <3> QED
      BY <3>6, <3>7
  <2>5. PlanTasksInv'
    BY <1>1, <1>3, <2>1, <2>2, <2>3 DEF PlanInv, PlanTasksInv, Tied, AtWork, Unreported
  <2>6. OneAtWork'
    BY <2>1, <2>2 DEF PlanInv, OneAtWork
  <2>7. ReportedInv'
    <3>1. \A d \in Device : \A n \in Reported(d)' : n <= plan.attempt
      BY <2>3, <2>4 DEF PlanInv, ReportedInv
    <3>2. ASSUME NEW d \in Device, d \in sent, plan.attempt \in Reported(d)', NEW v \in tasks',
                 AtWork(v), v.dev = d
          PROVE  FALSE
      <4>1. v \in tasks /\ v # t
        BY <2>1, <2>2, <3>2
      <4>2. CASE plan.attempt \in Reported(d)
        BY <3>2, <4>1, <4>2 DEF PlanInv, ReportedInv
      <4>3. CASE d = t.dev
        BY <2>2, <3>2, <4>1, <4>3 DEF PlanInv, OneAtWork
      <4> QED
        BY <2>4, <3>2, <4>2, <4>3
    <3> QED
      BY <1>1, <3>1, <3>2 DEF ReportedInv
  <2>8. StateInv'
    BY <1>1 DEF PlanInv, StateInv
  <2>9. Underway'
    <3> SUFFICES ASSUME NEW d \in sent, target[d] = "applying"
                 PROVE  \/ \E v \in tasks' : AtWork(v) /\ v.dev = d /\ v.n = plan.attempt
                        \/ plan.attempt \in Reported(d)'
      BY <1>1 DEF Underway
    <3>1. CASE plan.attempt \in Reported(d)
      BY <1>1, <2>4, <3>1
    <3>2. ASSUME NEW v \in tasks, AtWork(v), v.dev = d, v.n = plan.attempt
          PROVE  \/ \E x \in tasks' : AtWork(x) /\ x.dev = d /\ x.n = plan.attempt
                 \/ plan.attempt \in Reported(d)'
      BY <2>1, <2>4, <3>2 DEF PlanInv
    <3> QED
      BY <3>1, <3>2 DEF PlanInv, Underway
  <2> QED
    BY <1>1, <1>3, <2>5, <2>6, <2>7, <2>8, <2>9 DEF PlanInv, Tied
<1> QED
  BY <1>2, <1>4, <1>5, <1>6
  DEF TaskStep, ToolStops, PlanInv, PlanTasksInv, ChatReports, TalkReports, AsrReports,
      EmbedReports, OcrReports, ToolReports, PlanReports, Runs

(* No node is at work on a plan that can be applied, over a connection     *)
(* that was kept: each target gets its task.                               *)
LEMMA ApplyingKeepsPlan ==
  ASSUME AccountTypeOK, PlanInv, NEW lacking, NEW barred, ApplyPlan(lacking, barred)
  PROVE  PlanInv'
<1> DEFINE D == {d \in Device : target'[d] = "applying"}
           N == plan.attempt + 1
           new(d) == [dev |-> d, work |-> Plan, n |-> N, at |-> "waits"]
<1>1. /\ RequestTypeOK /\ plan.attempt \in Nat /\ N \in Nat /\ N > plan.attempt
      /\ plan.state \in {"planned", "finished", "failed"}
      /\ UNCHANGED <<linked, connected, wire>>
  BY PlanConstants DEF ApplyPlan, Applied, AccountTypeOK, PlanTypeOK
<1>2. /\ D \subseteq connected /\ sent' = D \cap linked
      /\ plan'.attempt = N /\ plan'.state = PlanStateOf(target')
      /\ tasks' = tasks \cup PlanTasks(D)
  BY DEF ApplyPlan, Applied, Attempted
<1>3. \A t \in tasks : AtWork(t) => t.dev \notin Tied
  BY <1>1 DEF AccountTypeOK, RequestTypeOK, Task, AtWork, PlanInv, PlanTasksInv, StateInv
<1>4. PlanTasks(D) = {new(d) : d \in D \cap linked}
  <2>1. D \cap linked \subseteq Tied
    BY <1>2 DEF Tied
  <2>2. \A d \in D \cap linked : \A t \in tasks : t.dev = d /\ t.work = Plan => t.at = "reported"
    BY <1>3, <2>1 DEF AtWork, Unreported
  <2> QED
    BY <2>2 DEF PlanTasks
<1>5. \A t \in tasks' : t \in tasks \/ \E d \in sent' : t = new(d)
  BY <1>2, <1>4
<1>6. \A d \in sent' : new(d) \in tasks' /\ AtWork(new(d)) /\ new(d).dev = d /\ new(d).n = N
                       /\ new(d).work = Plan /\ new(d).at = "waits"
  BY <1>2, <1>4 DEF AtWork, Unreported
<1>7. sent' \subseteq Tied /\ \A d \in sent' : target'[d] = "applying"
  BY <1>2 DEF Tied
<1>8. Tied' = Tied /\ \A d \in Device : Reported(d)' = Reported(d)
  BY <1>1, WireKeepsReported DEF Tied
<1>9. sent' \subseteq Device
  BY <1>2
<1> HIDE DEF D, N, new
<1>10. PlanTasksInv'
  <2> SUFFICES ASSUME NEW t \in tasks', t.work = Plan
               PROVE  /\ t.at # "stopped" /\ t.n <= N
                      /\ Unreported(t) /\ t.dev \in Tied =>
                           t.dev \in sent' /\ target'[t.dev] = "applying" /\ t.n = N
    BY <1>2, <1>8 DEF PlanTasksInv
  <2>1. CASE t \in tasks
    <3>1. t.n \in Nat /\ t.n <= plan.attempt /\ t.at # "stopped"
      BY <1>1, <2>1 DEF RequestTypeOK, Task, PlanInv, PlanTasksInv
    <3> QED
      BY <1>1, <1>3, <2>1, <3>1 DEF AtWork
  <2>2. ASSUME NEW d \in sent', t = new(d)
        PROVE  t.at # "stopped" /\ t.n = N /\ t.dev = d
    BY <1>6, <2>2
  <2> QED
    BY <1>1, <1>5, <1>7, <2>1, <2>2
<1>11. OneAtWork'
  <2> SUFFICES ASSUME NEW t \in tasks', NEW u \in tasks', AtWork(t), AtWork(u), t.dev = u.dev
               PROVE  t = u
    BY DEF OneAtWork
  <2>1. ASSUME NEW v \in tasks, AtWork(v), NEW d \in sent' PROVE v.dev # new(d).dev
    BY <1>3, <1>6, <1>7, <2>1
  <2> QED
    BY <1>5, <1>6, <2>1 DEF PlanInv, OneAtWork
<1>12. ReportedInv'
  <2>1. \A d \in Device : \A n \in Reported(d) : n \in Nat /\ n < N
    BY <1>1 DEF PlanInv, ReportedInv, Reported
  <2> QED
    BY <1>1, <1>2, <1>8, <2>1 DEF ReportedInv
<1>13. StateInv'
  <2>1. plan'.state \in {"planned", "finished", "failed"} => \A d \in Device : target'[d] # "applying"
    BY <1>1, <1>2, PlanStateMeans
  <2>2. plan'.state # "none"
    <3>1. plan.state # "cancelled"
      BY <1>1
    <3> QED
      BY <1>2, <3>1, PlanStateNotNone
  <2> QED
    BY <2>1, <2>2 DEF StateInv
<1>14. Underway'
  BY <1>2, <1>6 DEF Underway
<1> QED
  BY <1>7, <1>8, <1>10, <1>11, <1>12, <1>13, <1>14 DEF PlanInv

(* A result of the attempt under way settles its target; any other is      *)
(* dropped.                                                                *)
LEMMA ResultKeepsPlan ==
  ASSUME AccountTypeOK, PlanInv, NEW d \in Device, HandlePlanResult(d)
  PROVE  PlanInv'
<1> DEFINE m == Head(wire[d])
<1>1. /\ RequestTypeOK /\ plan.attempt \in Nat /\ sent \subseteq Device
      /\ target \in [Device -> TargetState]
      /\ UNCHANGED <<linked, connected, tasks>> /\ sent' \subseteq sent
      /\ wire[d] # <<>> /\ Taken(d) /\ m.of = Plan /\ m.type = "result"
  BY PlanConstants DEF HandlePlanResult, Arrives, Ignore, planVars, AccountTypeOK, PlanTypeOK
<1>2. /\ \A e \in Device : Reported(e)' \subseteq Reported(e)
      /\ \A e \in Device : \A n \in Reported(e) : n \in Reported(e)' \/ (e = d /\ m.n = n)
  BY <1>1, TakenKeepsReported
<1>3. m.n \in Reported(d)
  <2>1. 1 \in DOMAIN wire[d] /\ m = wire[d][1]
    BY <1>1, TakenShifts
  <2>2. m.n \in Nat
    BY <1>1, HeadIsTyped DEF Message
  <2> HIDE DEF m
  <2> QED
    BY <1>1, <2>1, <2>2 DEF Reported
<1> HIDE DEF m
<1>4. OneAtWork' /\ sent' \subseteq Tied'
  BY <1>1 DEF PlanInv, OneAtWork, Tied
<1>5. ASSUME PlanCurrent(d, m.n)
      PROVE  \A t \in tasks : AtWork(t) /\ t.dev = d => t.dev \notin Tied
  BY <1>1, <1>3, <1>5 DEF PlanCurrent, PlanInv, PlanTasksInv, ReportedInv, AtWork
<1>6. \/ /\ PlanCurrent(d, m.n) /\ UNCHANGED sent
         /\ \E s \in Settled(m.ok) : target' = [target EXCEPT ![d] = s]
         /\ plan' = [plan EXCEPT !.state = PlanStateOf(target')]
      \/ PlanCurrent(d, m.n) /\ UNCHANGED <<plan, target>> /\ sent' = sent \ {d}
      \/ ~PlanCurrent(d, m.n) /\ UNCHANGED <<plan, target, sent>>
  BY DEF HandlePlanResult, planVars, m
<1>7. CASE /\ PlanCurrent(d, m.n) /\ UNCHANGED sent
           /\ \E s \in Settled(m.ok) : target' = [target EXCEPT ![d] = s]
           /\ plan' = [plan EXCEPT !.state = PlanStateOf(target')]
  <2>1. /\ m.n = plan.attempt /\ target[d] = "applying"
        /\ plan' = [plan EXCEPT !.state = PlanStateOf(target')]
        /\ \E s \in {"finished", "failed", "cancelled"} : target' = [target EXCEPT ![d] = s]
    BY <1>7 DEF PlanCurrent, Settled
  <2>2. plan'.attempt = plan.attempt /\ plan'.state = PlanStateOf(target')
    BY <2>1 DEF AccountTypeOK, PlanTypeOK
  <2>3. target'[d] # "applying" /\ \A e \in Device \ {d} : target'[e] = target[e]
    BY <1>1, <2>1
  <2>4. PlanTasksInv'
    <3>1. \A t \in tasks : t.dev \in Device
      BY <1>1 DEF RequestTypeOK, Task
    <3> QED
      BY <1>1, <2>2, <2>3, <1>5, <1>7, <3>1 DEF PlanInv, PlanTasksInv, Tied, AtWork
  <2>5. ReportedInv'
    BY <1>1, <1>2, <2>2 DEF PlanInv, ReportedInv
  <2>6. StateInv'
    <3>1. plan.state # "none"
      BY <2>1 DEF PlanInv, StateInv
    <3>2. CASE plan.state = "cancelled"
      BY <2>2, <3>2, PlanStateCancelled DEF StateInv
    <3>3. CASE plan.state # "cancelled"
      BY <2>2, <3>3, PlanStateMeans, PlanStateNotNone DEF StateInv
    <3> QED
      BY <3>2, <3>3
  <2>7. Underway'
    BY <1>1, <1>2, <2>2, <2>3 DEF PlanInv, Underway
  <2> QED
    BY <1>1, <1>4, <2>4, <2>5, <2>6, <2>7 DEF PlanInv, Tied
<1>8. CASE /\ UNCHANGED <<plan, target>>
           /\ IF PlanCurrent(d, m.n) THEN sent' = sent \ {d} ELSE UNCHANGED sent
  <2>1. PlanTasksInv' /\ StateInv'
    BY <1>1, <1>5, <1>6, <1>8 DEF PlanInv, PlanTasksInv, StateInv, Tied, AtWork
  <2>2. ReportedInv'
    BY <1>1, <1>2, <1>8 DEF PlanInv, ReportedInv
  <2>3. Underway'
    <3>1. CASE PlanCurrent(d, m.n)
      <4>1. sent' = sent \ {d} /\ UNCHANGED <<plan, target, tasks>>
        BY <1>1, <1>8, <3>1
      <4> QED
        BY <1>1, <1>2, <4>1 DEF PlanInv, Underway
    <3>2. CASE ~PlanCurrent(d, m.n)
      <4>1. d \in sent /\ target[d] = "applying" => m.n # plan.attempt
        BY <3>2 DEF PlanCurrent
      <4>2. UNCHANGED sent
        BY <1>8, <3>2
      <4> QED
        BY <1>1, <1>2, <1>8, <4>1, <4>2 DEF PlanInv, Underway
    <3> QED
      BY <3>1, <3>2
  <2> QED
    BY <1>1, <1>4, <2>1, <2>2, <2>3 DEF PlanInv
<1> QED
  BY <1>6, <1>7, <1>8

LEMMA PlanStepsKeepPlan ==
  ASSUME AccountTypeOK, PlanInv, PlanStep
  PROVE  PlanInv'
<1>1. ASSUME UNCHANGED <<requestVars, sent>> PROVE
        /\ Tied' = Tied /\ tasks' = tasks /\ sent' = sent
        /\ \A e \in Device : Reported(e)' = Reported(e)
  BY <1>1, WireKeepsReported DEF requestVars, relayVars, nodeVars, Tied
<1>2. CASE CancelPlan
  <2>1. plan'.state = "cancelled" /\ plan'.attempt = plan.attempt /\ target' = target
    BY <1>2 DEF CancelPlan, AccountTypeOK, PlanTypeOK
  <2>2. sent \subseteq Device
    BY DEF AccountTypeOK, PlanTypeOK
  <2>3. UNCHANGED <<requestVars, sent>>
    BY <1>2 DEF CancelPlan
  <2>4. PlanTasksInv' /\ OneAtWork' /\ StateInv'
    BY <1>1, <2>1, <2>3 DEF PlanInv, PlanTasksInv, OneAtWork, StateInv
  <2>5. ReportedInv'
    BY <1>1, <2>1, <2>3 DEF PlanInv, ReportedInv
  <2>6. Underway'
    BY <1>1, <2>1, <2>2, <2>3 DEF PlanInv, Underway
  <2> QED
    BY <1>1, <2>3, <2>4, <2>5, <2>6 DEF PlanInv
<1>3. ASSUME NEW lacking, NEW D, CreatePlan(D, lacking) PROVE PlanInv'
  <2>1. /\ plan.state = "none" /\ plan'.state = PlanStateOf(target')
        /\ plan'.attempt = plan.attempt
        /\ \A d \in Device : target'[d] # "applying"
    BY <1>3 DEF CreatePlan, AccountTypeOK, PlanTypeOK
  <2>2. \A d \in Device : target[d] = "none"
    BY <2>1 DEF PlanInv, StateInv
  <2>3. PlanTasksInv'
    <3>1. \A t \in tasks : t.dev \in Device
      BY DEF AccountTypeOK, RequestTypeOK, Task
    <3> QED
      BY <1>1, <1>3, <2>1, <2>2, <3>1 DEF CreatePlan, PlanInv, PlanTasksInv
  <2>4. StateInv'
    BY <2>1, PlanStateNotNone DEF StateInv
  <2>5. sent \subseteq Device
    BY DEF AccountTypeOK, PlanTypeOK
  <2>6. OneAtWork' /\ ReportedInv' /\ Underway'
    BY <1>1, <1>3, <2>1, <2>5 DEF CreatePlan, PlanInv, OneAtWork, ReportedInv, Underway
  <2> QED
    BY <1>1, <1>3, <2>3, <2>4, <2>6 DEF CreatePlan, PlanInv
<1> QED
  BY <1>2, <1>3, ApplyingKeepsPlan, ResultKeepsPlan DEF PlanStep

(* A target that is applying over a connection it has kept is waited for   *)
(* with reason: whatever was lost, cancelled or applied again before, the  *)
(* node works at this very attempt, or its result is on the way.  Not so a *)
(* target whose result came with an inventory Relay could not read: that   *)
(* result is gone (relay-model-plans.ts, applyFleetModelPlan and           *)
(* handleFleetModelPlanResult; relay-websocket.ts; agent.rs,               *)
(* ModelPlanRequest).                                                      *)
THEOREM PlansAreUnderway == AccountSpec => []PlanUnderway
<1>1. AccountInit => PlanInv
  <2> SUFFICES ASSUME AccountInit PROVE PlanInv
    OBVIOUS
  <2>1. \A d \in Device : Reported(d) = {}
    BY DEF AccountInit, RequestInit, Reported
  <2> QED
    BY <2>1
    DEF AccountInit, RequestInit, PlanInit, PlanInv, PlanTasksInv, OneAtWork, ReportedInv, StateInv,
        Underway
<1>2. AccountTypeOK /\ PlanInv /\ [AccountNext]_accountVars => PlanInv'
  <2> SUFFICES ASSUME AccountTypeOK, PlanInv, [AccountNext]_accountVars PROVE PlanInv'
    OBVIOUS
  <2>1. RequestTypeOK /\ sent \subseteq Tied
    BY DEF AccountTypeOK, PlanInv
  <2>2. CASE RequestStep /\ UNCHANGED planVars
    <3>1. CASE \E t \in tasks : t.work = Plan /\ TaskStep(t)
      BY <2>2, <3>1, PlanTaskKeepsPlan
    <3>2. CASE ~ \E t \in tasks : t.work = Plan /\ TaskStep(t)
      <4>1. PlanKept /\ Tied \subseteq Tied'
        BY <2>1, <2>2, <3>2, RequestsKeepPlan
      <4> QED
        BY <2>1, <2>2, <4>1, KeptKeepsPlan DEF planVars
    <3> QED
      BY <3>1, <3>2
  <2>3. CASE StreamStep /\ UNCHANGED planVars
    <3>1. PlanKept /\ Tied' = Tied
      BY <2>3, SessionsKeepPlan DEF Tied
    <3> QED
      BY <2>1, <2>3, <3>1, KeptKeepsPlan DEF planVars
  <2>4. ASSUME NEW d \in Device, Closes(d) PROVE PlanInv'
    <3>1. /\ d \notin linked /\ UNCHANGED <<tasks, linked>> /\ connected' = connected \ {d}
          /\ wire'[d] = <<>> /\ \A e \in Device \ {d} : wire'[e] = wire[e]
      BY <2>1, <2>4 DEF Closes, HandleClose, RequestTypeOK
    <3>2. DOMAIN <<>> = {}
      OBVIOUS
    <3>3. Reported(d)' = {} /\ \A e \in Device \ {d} : Reported(e)' = Reported(e)
      BY <3>1, <3>2 DEF Reported
    <3>4. Tied' = Tied /\ d \notin Tied
      BY <3>1 DEF Tied
    <3>5. PlanKept
      BY <3>1, <3>3, <3>4 DEF PlanKept, SamePlanTasks
    <3> QED
      BY <2>1, <2>4, <3>4, <3>5, KeptKeepsPlan DEF Closes, planVars
  <2>5. ASSUME NEW d \in Device, Drops(d) PROVE PlanInv'
    <3>1. /\ linked' = linked \ {d} /\ UNCHANGED <<wire, connected>>
          /\ tasks' = {t \in tasks : t.dev # d \/ t.work = Plan}
          /\ sent' = sent \ {d} /\ UNCHANGED <<plan, target>>
      BY <2>5 DEF Drops, NodeDrop, PlanLosesNodes, relayVars
    <3>2. \A e \in Device : Reported(e)' = Reported(e)
      BY <3>1, WireKeepsReported
    <3>3. Tied' = Tied \ {d}
      BY <3>1 DEF Tied
    <3>4. PlanKept
      BY <3>1, <3>2, <3>3 DEF PlanKept, SamePlanTasks
    <3> QED
      BY <2>1, <3>1, <3>3, <3>4, KeptKeepsPlan
  <2>6. CASE Restarts
    <3>1. /\ connected' = {} /\ wire' = [d \in Device |-> <<>>] /\ UNCHANGED tasks
          /\ sent' = sent \ Device /\ UNCHANGED <<plan, target>>
      BY <2>6 DEF Restarts, Restart, PlanLosesNodes
    <3>2. DOMAIN <<>> = {}
      OBVIOUS
    <3>3. \A e \in Device : Reported(e)' = {}
      BY <3>1, <3>2 DEF Reported
    <3>4. Tied' = {} /\ sent' = {}
      BY <3>1 DEF Tied, AccountTypeOK, PlanTypeOK
    <3>5. PlanKept
      BY <3>1, <3>3, <3>4 DEF PlanKept, SamePlanTasks
    <3> QED
      BY <3>1, <3>4, <3>5, KeptKeepsPlan
  <2>7. CASE UNCHANGED accountVars
    <3>1. PlanKept /\ Tied' = Tied
      BY <2>7, SilenceKeepsPlan
      DEF accountVars, requestVars, relayVars, nodeVars, SamePlanTasks, Tied
    <3> QED
      BY <2>1, <2>7, <3>1, KeptKeepsPlan DEF accountVars, planVars
  <2> QED
    BY <2>2, <2>3, <2>4, <2>5, <2>6, <2>7, PlanStepsKeepPlan DEF AccountNext
<1> QED
  BY <1>1, <1>2, PlanInvMeans, AccountTypes, PTL DEF AccountSpec

-----------------------------------------------------------------------------
(* A request keeps its node                                                *)
(*                                                                         *)
(* The only message that could free a node from a request under way is a   *)
(* frame that says "online" and names it.  A node sends one only after     *)
(* the request's task has left the gate, so after its answer, and in one   *)
(* connection the answer is handled first, which ends the request.         *)

Unplaced == {"new", "queued", "refused", "repeated"}
Over == {"complete", "failed", "cancelled"}

Holds(w, d) == work[w].state = "processing" /\ work[w].agent = d

OnWay(d, w) == \E i \in DOMAIN wire[d] : Answers(wire[d], i, w)

AnsweredBefore(d, w, k) == \E i \in DOMAIN wire[d] : i < k /\ Answers(wire[d], i, w)

(* Who has started and not left owns the node's gate, alone.               *)
GateHeld ==
  /\ \A t \in tasks : t.at # "waits" => gate[t.dev] = t.work
  /\ \A t, u \in tasks : t.at # "waits" /\ u.at # "waits" /\ t.dev = u.dev => t = u
  /\ \A d \in Device : live[d].at # "none" => gate[d] = Session

(* A node without a connection has nothing of a request.                   *)
OfflineForgets ==
  \A d \in Device \ linked :
    /\ \A t \in tasks : t.dev = d => t.work = Plan
    /\ gate[d] \notin Work /\ last[d] = None

(* No node knows a request that was not placed.                            *)
UnplacedUnknown ==
  \A w \in Work : work[w].state \in Unplaced =>
    /\ \A t \in tasks : t.work # w
    /\ \A d \in Device : /\ gate[d] # w /\ last[d] # w
                         /\ \A i \in DOMAIN wire[d] : wire[d][i].of # w

StoppedIsOver ==
  \A t \in tasks : t.at = "stopped" => t.work \in Work /\ work[t.work].state \in Over

(* What a node sent of a request under way: over the connection it has,    *)
(* and over any that Relay still has.                                      *)
Ordered(w, d) ==
  /\ d \in Tied =>
       /\ \A t \in tasks : t.work = w /\ t.dev = d /\ t.at = "reported" => OnWay(d, w)
       /\ last[d] = w /\ gate[d] # w => OnWay(d, w)
  /\ \A i \in DOMAIN wire[d] :
       wire[d][i].type = "online" /\ wire[d][i].of = w => AnsweredBefore(d, w, i)

AnswerFirst == \A w \in Work, d \in Device : Holds(w, d) => Ordered(w, d)

OrderInv ==
  GateHeld /\ OfflineForgets /\ UnplacedUnknown /\ StoppedIsOver /\ AnswerFirst

ReservedConnected == \A d \in Device : reserved[d] # None => d \in connected

(* How a step may change the states of requests, but for a placement.      *)
StatesGoOn ==
  \A w \in Work :
    /\ work'[w].state \in Unplaced => work[w].state \in Unplaced
    /\ work[w].state \in Over => work'[w].state \in Over
    /\ \A d \in Device : Holds(w, d)' => Holds(w, d) \/ (wire'[d] = <<>> /\ d \notin Tied')

SameLive == \A d \in Device : live'[d].at = live[d].at

(* A request placed anew has a node with nothing on the way.               *)
LEMMA HeldBefore ==
  ASSUME OrderInv, StatesGoOn, NEW w \in Work, NEW d \in Device, Holds(w, d)'
  PROVE  (Holds(w, d) /\ Ordered(w, d)) \/ Ordered(w, d)'
<1>1. CASE wire'[d] = <<>> /\ d \notin Tied'
  <2>1. DOMAIN <<>> = {}
    OBVIOUS
  <2> QED
    BY <1>1, <2>1 DEF Ordered
<1> QED
  BY <1>1 DEF OrderInv, AnswerFirst, StatesGoOn

(* Steps of Relay that no node takes part in, the ends of connections at   *)
(* Relay's side included.                                                  *)
LEMMA RelayKeepsOrder ==
  ASSUME RequestTypeOK, OrderInv, StatesGoOn, SameLive, UNCHANGED <<tasks, gate, last, linked>>,
         Tied' \subseteq Tied,
         \A d \in Device : wire'[d] = wire[d] \/ (wire'[d] = <<>> /\ d \notin Tied')
  PROVE  OrderInv'
<1>1. GateHeld'
  BY DEF OrderInv, GateHeld, SameLive
<1>2. OfflineForgets'
  BY DEF OrderInv, OfflineForgets
<1>3. UnplacedUnknown'
  <2>1. DOMAIN <<>> = {}
    OBVIOUS
  <2>2. \A d \in Device : \A i \in DOMAIN wire'[d] : i \in DOMAIN wire[d] /\ wire'[d][i] = wire[d][i]
    BY <2>1
  <2> QED
    BY <2>2 DEF OrderInv, UnplacedUnknown, StatesGoOn
<1>4. StoppedIsOver'
  BY DEF OrderInv, StoppedIsOver, StatesGoOn
<1>5. AnswerFirst'
  <2> SUFFICES ASSUME NEW w \in Work, NEW d \in Device, Holds(w, d)'
               PROVE  Ordered(w, d)'
    BY DEF AnswerFirst
  <2>1. CASE wire'[d] = <<>> /\ d \notin Tied'
    <3>1. DOMAIN <<>> = {}
      OBVIOUS
    <3> QED
      BY <2>1, <3>1 DEF Ordered
  <2>2. CASE wire'[d] = wire[d] /\ Ordered(w, d)
    BY <2>2 DEF Ordered, OnWay, AnsweredBefore
  <2> QED
    BY <2>1, <2>2, HeldBefore
<1> QED
  BY <1>1, <1>2, <1>3, <1>4, <1>5 DEF OrderInv

(* Relay takes a message; an answer ends its request, if the node has it.  *)
LEMMA TakingKeepsOrder ==
  ASSUME RequestTypeOK, OrderInv, StatesGoOn, SameLive, NEW e \in Device,
         wire[e] # <<>>, Taken(e), UNCHANGED <<tasks, gate, last, linked, connected>>,
         \A w \in Work : Answers(wire[e], 1, w) => ~Holds(w, e)'
  PROVE  OrderInv'
<1>1. /\ \A d \in Device \ {e} : wire'[d] = wire[d]
      /\ \A i \in DOMAIN wire'[e] :
           i \in Nat \ {0} /\ i + 1 \in DOMAIN wire[e] /\ wire'[e][i] = wire[e][i + 1]
  BY TakenShifts
<1>2. \A i \in DOMAIN wire[e] :
        i \in Nat /\ (i = 1 \/ (i - 1 \in DOMAIN wire'[e] /\ wire'[e][i - 1] = wire[e][i]))
  <2>1. wire[e] \in Seq(Message) /\ wire'[e] = Tail(wire[e])
    BY DEF Taken, RequestTypeOK
  <2> QED
    BY <2>1
<1>3. GateHeld' /\ OfflineForgets' /\ StoppedIsOver'
  BY DEF OrderInv, GateHeld, SameLive, OfflineForgets, StoppedIsOver, StatesGoOn
<1>4. UnplacedUnknown'
  BY <1>1 DEF OrderInv, UnplacedUnknown, StatesGoOn
<1>5. AnswerFirst'
  <2> SUFFICES ASSUME NEW w \in Work, NEW d \in Device, Holds(w, d)'
               PROVE  Ordered(w, d)'
    BY DEF AnswerFirst
  <2>1. Tied' = Tied
    BY DEF Tied
  <2>2. CASE d # e /\ Ordered(w, d)
    <3>1. wire'[d] = wire[d]
      BY <1>1, <2>2
    <3> QED
      BY <2>1, <2>2, <3>1 DEF Ordered, OnWay, AnsweredBefore
  <2>3. CASE d = e /\ Ordered(w, d)
    <3>1. ~Answers(wire[e], 1, w)
      BY <2>3
    <3>2. OnWay(e, w) => OnWay(e, w)'
      BY <1>2, <3>1 DEF OnWay, Answers
    <3>3. \A i \in DOMAIN wire'[e] : AnsweredBefore(e, w, i + 1) => AnsweredBefore(e, w, i)'
      <4> SUFFICES ASSUME NEW i \in DOMAIN wire'[e], NEW j \in DOMAIN wire[e], j < i + 1,
                          Answers(wire[e], j, w)
                   PROVE  \E k \in DOMAIN wire'[e] : k < i /\ Answers(wire'[e], k, w)
        BY <2>3 DEF AnsweredBefore
      <4>1. j - 1 \in DOMAIN wire'[e] /\ wire'[e][j - 1] = wire[e][j]
        BY <1>2, <3>1
      <4>2. i \in Nat /\ j \in Nat /\ j - 1 < i
        BY <1>1, <1>2
      <4> QED
        BY <4>1, <4>2 DEF Answers
    <3> QED
      BY <1>1, <2>1, <2>3, <3>2, <3>3 DEF Ordered
  <2> QED
    BY <2>2, <2>3, HeldBefore
<1> QED
  BY <1>3, <1>4, <1>5 DEF OrderInv

LEMMA PlacingKeepsOrder ==
  ASSUME RequestTypeOK, OrderInv, SameLive, NEW v \in Work, NEW e \in Device, Places(v, e),
         UNCHANGED <<gate, last, linked, connected>>
  PROVE  OrderInv'
<1> DEFINE new == [dev |-> e, work |-> v, n |-> 0, at |-> "waits"]
<1>1. tasks' = tasks \/ (e \in linked /\ tasks' = tasks \cup {new})
  BY DEF Places, Dispatch
<1>2. new.dev = e /\ new.work = v /\ new.at = "waits"
  OBVIOUS
<1> HIDE DEF new
<1>3. /\ work'[v] = [state |-> "processing", agent |-> e]
      /\ \A w \in Work \ {v} : work'[w] = work[w]
      /\ wire' = wire
  BY DEF Places, Dispatch, RequestTypeOK
<1>4. work[v].state \in Unplaced
  BY DEF Places, Unplaced
<1>5. GateHeld'
  BY <1>1, <1>2 DEF OrderInv, GateHeld, SameLive
<1>6. OfflineForgets'
  BY <1>1, <1>2 DEF OrderInv, OfflineForgets
<1>7. UnplacedUnknown'
  BY <1>1, <1>2, <1>3 DEF OrderInv, UnplacedUnknown, Unplaced
<1>8. StoppedIsOver'
  BY <1>1, <1>2, <1>3, <1>4 DEF OrderInv, StoppedIsOver, Unplaced, Over
<1>9. AnswerFirst'
  <2> SUFFICES ASSUME NEW w \in Work, NEW d \in Device, Holds(w, d)'
               PROVE  Ordered(w, d)'
    BY DEF AnswerFirst
  <2>1. Tied' = Tied
    BY DEF Tied
  <2>2. CASE w = v
    BY <1>1, <1>2, <1>3, <1>4, <2>1, <2>2 DEF OrderInv, UnplacedUnknown, Ordered
  <2>3. CASE w # v
    <3>1. Ordered(w, d)
      BY <1>3, <2>3 DEF OrderInv, AnswerFirst, Holds
    <3> QED
      BY <1>1, <1>2, <1>3, <2>1, <3>1 DEF Ordered, OnWay, AnsweredBefore
  <2> QED
    BY <2>2, <2>3
<1> QED
  BY <1>5, <1>6, <1>7, <1>8, <1>9 DEF OrderInv

(* A tool's task that the owner's cancel stops.                            *)
LEMMA StoppingKeepsOrder ==
  ASSUME RequestTypeOK, OrderInv, StatesGoOn, SameLive, NEW v \in Work, NEW k, Cancel(v, k)
  PROVE  OrderInv'
<1>1. /\ UNCHANGED <<gate, last, linked, connected, wire>> /\ tasks' = Stopped(v)
      /\ work'[v].state \in Over
  BY DEF Cancel, SetState, Over, RequestTypeOK
<1>2. \A t \in tasks' : \E u \in tasks :
        /\ t.dev = u.dev /\ t.work = u.work
        /\ t = u \/ (t.at = "stopped" /\ u.at = "runs" /\ t.work = v)
  <2> SUFFICES ASSUME NEW u \in tasks
               PROVE  LET s == [u EXCEPT !.at = "stopped"] IN
                      s.dev = u.dev /\ s.work = u.work /\ s.at = "stopped"
    BY <1>1 DEF Stopped
  <2> QED
    BY DEF RequestTypeOK, Task
<1>3. GateHeld'
  <2>1. \A t \in tasks' : t.at # "waits" => gate[t.dev] = t.work
    BY <1>2 DEF OrderInv, GateHeld
  <2>2. ASSUME NEW t \in tasks', NEW u \in tasks', t.at # "waits", u.at # "waits", t.dev = u.dev
        PROVE  t = u
    <3>1. PICK x \in tasks : t = (IF x.work = v /\ kind[v] = "tool" /\ x.at = "runs"
                                     /\ x.dev \in linked \cap connected
                                  THEN [x EXCEPT !.at = "stopped"] ELSE x)
      BY <1>1 DEF Stopped
    <3>2. PICK y \in tasks : u = (IF y.work = v /\ kind[v] = "tool" /\ y.at = "runs"
                                     /\ y.dev \in linked \cap connected
                                  THEN [y EXCEPT !.at = "stopped"] ELSE y)
      BY <1>1 DEF Stopped
    <3>3. x \in Task /\ y \in Task
      BY DEF RequestTypeOK
    <3>4. x.dev = t.dev /\ y.dev = u.dev /\ x.at # "waits" /\ y.at # "waits"
      BY <2>2, <3>1, <3>2, <3>3 DEF Task
    <3>5. x = y
      BY <2>2, <3>4 DEF OrderInv, GateHeld
    <3> QED
      BY <3>1, <3>2, <3>5
  <2> QED
    BY <1>1, <2>1, <2>2 DEF OrderInv, GateHeld, SameLive
<1>4. OfflineForgets' /\ UnplacedUnknown'
  BY <1>1, <1>2 DEF OrderInv, OfflineForgets, UnplacedUnknown, StatesGoOn
<1>5. StoppedIsOver'
  BY <1>1, <1>2 DEF OrderInv, StoppedIsOver, StatesGoOn
<1>6. AnswerFirst'
  <2> SUFFICES ASSUME NEW w \in Work, NEW d \in Device, Holds(w, d)'
               PROVE  Ordered(w, d)'
    BY DEF AnswerFirst
  <2>1. Tied' = Tied
    BY <1>1 DEF Tied
  <2>2. \A t \in tasks' : t.at = "reported" => t \in tasks
    BY <1>2
  <2>3. ASSUME Ordered(w, d) PROVE Ordered(w, d)'
    BY <1>1, <2>1, <2>2, <2>3 DEF Ordered, OnWay, AnsweredBefore
  <2> QED
    BY <2>3, HeldBefore
<1> QED
  BY <1>3, <1>4, <1>5, <1>6 DEF OrderInv

(* A connection begins: the node has no request's task, and has sent       *)
(* nothing over it.                                                        *)
LEMMA ConnectingKeepsOrder ==
  ASSUME RequestTypeOK, OrderInv, StatesGoOn, SameLive, NEW e \in Device, HandleAuth(e)
  PROVE  OrderInv'
<1>1. /\ UNCHANGED <<tasks, gate, last>>
      /\ e \notin linked /\ linked \subseteq linked' /\ \A t \in tasks : t.dev # e
      /\ Tied' \subseteq Tied \cup {e}
      /\ wire'[e] = <<>> /\ \A d \in Device \ {e} : wire'[d] = wire[d]
  BY DEF HandleAuth, Tied, RequestTypeOK
<1>2. DOMAIN <<>> = {}
  OBVIOUS
<1>3. GateHeld' /\ OfflineForgets' /\ StoppedIsOver'
  BY <1>1 DEF OrderInv, GateHeld, SameLive, OfflineForgets, StoppedIsOver, StatesGoOn
<1>4. UnplacedUnknown'
  BY <1>1, <1>2 DEF OrderInv, UnplacedUnknown, StatesGoOn
<1>5. AnswerFirst'
  <2> SUFFICES ASSUME NEW w \in Work, NEW d \in Device, Holds(w, d)'
               PROVE  Ordered(w, d)'
    BY DEF AnswerFirst
  <2>1. CASE d = e
    <3>1. last'[d] # w
      BY <1>1, <2>1, RequestConstants DEF OrderInv, OfflineForgets, Owner
    <3> QED
      BY <1>1, <1>2, <2>1, <3>1 DEF Ordered
  <2>2. CASE d # e
    <3>1. wire'[d] = wire[d] /\ (d \in Tied' => d \in Tied)
      BY <1>1, <2>2
    <3>2. ASSUME Ordered(w, d) PROVE Ordered(w, d)'
      BY <1>1, <3>1, <3>2 DEF Ordered, OnWay, AnsweredBefore
    <3> QED
      BY <3>2, HeldBefore
  <2> QED
    BY <2>1, <2>2
<1> QED
  BY <1>3, <1>4, <1>5 DEF OrderInv

-----------------------------------------------------------------------------
(* The nodes' steps                                                        *)

SameWork == UNCHANGED <<work, linked, connected>>

(* What is sent comes last.                                                *)
LEMMA SentComesLast ==
  ASSUME RequestTypeOK, NEW e \in Device, NEW m \in Message, wire' = Sent(e, m)
  PROVE  /\ \A d \in Device, w \in Work : OnWay(d, w) => OnWay(d, w)'
         /\ \A d \in Device, w \in Work : \A k : AnsweredBefore(d, w, k) => AnsweredBefore(d, w, k)'
         /\ \A d \in Device : \A i \in DOMAIN wire'[d] :
              \/ i \in DOMAIN wire[d] /\ wire'[d][i] = wire[d][i]
              \/ /\ d = e /\ wire'[d][i] = m
                 /\ \A w \in Work : OnWay(d, w) => AnsweredBefore(d, w, i)'
         /\ e \in Tied /\ m.type = "result" => OnWay(e, m.of)'
<1> DEFINE s == Append(wire[e], m)
           n == Len(wire[e]) + 1
<1>1. wire' = IF e \in Tied THEN [wire EXCEPT ![e] = s] ELSE wire
  BY DEF Sent, Tied
<1>2. wire[e] \in Seq(Message)
  BY DEF RequestTypeOK
<1>3. /\ n \in DOMAIN s /\ s[n] = m /\ n \in Nat
      /\ \A i \in DOMAIN wire[e] : i \in DOMAIN s /\ s[i] = wire[e][i] /\ i < n
      /\ \A i \in DOMAIN s : i = n \/ i \in DOMAIN wire[e]
  <2>1. DOMAIN wire[e] = 1 .. Len(wire[e]) /\ DOMAIN s = 1 .. n /\ n \in Nat
    BY <1>2
  <2>2. (\A i \in DOMAIN wire[e] : s[i] = wire[e][i]) /\ s[n] = m
    BY <1>2
  <2>3. n \in DOMAIN s /\ \A i \in DOMAIN wire[e] : i \in DOMAIN s /\ i < n
    BY <2>1
  <2>4. \A i \in DOMAIN s : i = n \/ i \in DOMAIN wire[e]
    BY <2>1
  <2> HIDE DEF s, n
  <2> QED
    BY <2>1, <2>2, <2>3, <2>4
<1> HIDE DEF s, n
<1>4. CASE e \notin Tied
  BY <1>1, <1>4 DEF OnWay, AnsweredBefore
<1>5. CASE e \in Tied
  <2>1. wire'[e] = s /\ \A d \in Device \ {e} : wire'[d] = wire[d]
    BY <1>1, <1>5 DEF RequestTypeOK
  <2>2. \A d \in Device : \A i \in DOMAIN wire[d] : i \in DOMAIN wire'[d] /\ wire'[d][i] = wire[d][i]
    BY <1>3, <2>1
  <2>3. /\ \A d \in Device, w \in Work : OnWay(d, w) => OnWay(d, w)'
        /\ \A d \in Device, w \in Work : \A k : AnsweredBefore(d, w, k) => AnsweredBefore(d, w, k)'
    BY <2>2 DEF OnWay, AnsweredBefore, Answers
  <2>4. ASSUME NEW i, i = n, NEW w \in Work, OnWay(e, w)
        PROVE  AnsweredBefore(e, w, i)'
    BY <1>3, <2>1, <2>4 DEF OnWay, AnsweredBefore, Answers
  <2>5. m.type = "result" => OnWay(e, m.of)'
    BY <1>3, <2>1 DEF OnWay, Answers
  <2> QED
    BY <1>3, <2>1, <2>3, <2>4, <2>5
<1> QED
  BY <1>4, <1>5

(* A step of a node keeps what it sent in order, if nobody leaves the gate *)
(* unanswered.                                                             *)
LEMMA NodeKeepsOrdered ==
  ASSUME RequestTypeOK, AnswerFirst, SameWork, NEW e \in Device, NEW m,
         wire' = wire \/ (m \in Message /\ wire' = Sent(e, m)),
         \A w \in Work, d \in Tied : Holds(w, d) =>
           /\ \A t \in tasks' : t.work = w /\ t.dev = d /\ t.at = "reported" =>
                t \in tasks \/ OnWay(d, w)'
           /\ last'[d] = w /\ gate'[d] # w =>
                \/ last[d] = w /\ gate[d] # w
                \/ \E t \in tasks : t.work = w /\ t.dev = d /\ t.at = "reported",
         \A w \in Work : wire' # wire /\ m.type = "online" /\ m.of = w => last[e] = w /\ gate[e] # w
  PROVE  AnswerFirst'
<1> SUFFICES ASSUME NEW w \in Work, NEW d \in Device, Holds(w, d)'
             PROVE  Ordered(w, d)'
  BY DEF AnswerFirst
<1>1. Tied' = Tied /\ Holds(w, d) /\ Ordered(w, d)
  BY DEF AnswerFirst, SameWork, Tied, Holds
<1>2. OnWay(d, w) => OnWay(d, w)'
  BY SentComesLast DEF OnWay
<1>3. d \in Tied => \A t \in tasks' : t.work = w /\ t.dev = d /\ t.at = "reported" => OnWay(d, w)'
  BY <1>1, <1>2 DEF Ordered
<1>4. d \in Tied /\ last'[d] = w /\ gate'[d] # w => OnWay(d, w)'
  BY <1>1, <1>2 DEF Ordered
<1>5. ASSUME NEW i \in DOMAIN wire'[d], wire'[d][i].type = "online", wire'[d][i].of = w
      PROVE  AnsweredBefore(d, w, i)'
  <2>1. CASE wire' = wire
    BY <1>1, <1>5, <2>1 DEF Ordered, AnsweredBefore
  <2>2. CASE m \in Message /\ wire' = Sent(e, m) /\ i \in DOMAIN wire[d] /\ wire'[d][i] = wire[d][i]
    BY <1>1, <1>5, <2>2, SentComesLast DEF Ordered
  <2>3. CASE /\ m \in Message /\ wire' = Sent(e, m) /\ wire' # wire /\ d = e /\ wire'[d][i] = m
             /\ OnWay(d, w) => AnsweredBefore(d, w, i)'
    <3>1. d \in Tied
      BY <2>3 DEF Sent, Tied
    <3> QED
      BY <1>1, <1>5, <2>3, <3>1 DEF Ordered
  <2> QED
    BY <1>1, <1>5, <2>1, <2>2, <2>3, SentComesLast
<1> QED
  BY <1>1, <1>3, <1>4, <1>5 DEF Ordered

LEMMA SentIsKnown ==
  ASSUME RequestTypeOK, UnplacedUnknown, SameWork, NEW e \in Device, NEW m,
         wire' = wire \/ (m \in Message /\ wire' = Sent(e, m)),
         \A w \in Work : work[w].state \in Unplaced =>
           /\ \A t \in tasks' : t.work # w
           /\ \A d \in Device : gate'[d] # w /\ last'[d] # w
           /\ wire' # wire => m.of # w
  PROVE  UnplacedUnknown'
<1>1. \A d \in Device : \A i \in DOMAIN wire'[d] :
        (i \in DOMAIN wire[d] /\ wire'[d][i] = wire[d][i]) \/ wire'[d][i] = m
  BY SentComesLast
<1> QED
  BY <1>1 DEF UnplacedUnknown, SameWork

LEMMA MovingKeepsOrder ==
  ASSUME RequestTypeOK, OrderInv, SameLive, SameWork, NEW t \in tasks, UNCHANGED last,
         \/ TaskStarts(t)
         \/ t.at \in {"runs", "stopped"} /\ Reports(t)
         \/ t.at = "stopped" /\ Moved(t, "reported") /\ UNCHANGED <<wire, gate>>
  PROVE  OrderInv'
<1> DEFINE at == IF t.at = "waits" THEN "runs" ELSE "reported"
           u == [t EXCEPT !.at = at]
           sends(m) == m.type = "result" /\ m.of = t.work /\ m \in Message
<1>1. t \in Task /\ t.dev \in Device
  BY DEF RequestTypeOK, Task
<1>2. /\ u.dev = t.dev /\ u.work = t.work /\ u.at \notin {"waits", "stopped"}
      /\ t.at = "waits" <=> u.at = "runs"
  BY <1>1 DEF Task
<1>3. tasks' = (tasks \ {t}) \cup {u}
  BY DEF TaskStarts, Reports, Moved
<1>4. gate' = IF t.at = "waits" THEN [gate EXCEPT ![t.dev] = t.work] ELSE gate
  BY DEF TaskStarts, Reports
<1>5. \E m : \/ wire' = wire /\ (t.at = "waits" \/ t.at = "stopped")
             \/ sends(m) /\ wire' = Sent(t.dev, m) /\ t.at \in {"runs", "stopped"}
  <2>1. ASSUME NEW ok \in BOOLEAN
        PROVE  sends([type |-> "result", of |-> t.work, n |-> t.n, ok |-> ok])
    BY <1>1, RequestConstants DEF Message, Task, NodeOwner, Owner
  <2> HIDE DEF sends
  <2> QED
    BY <2>1 DEF TaskStarts, Reports
<1>6. PICK m : \/ wire' = wire /\ (t.at = "waits" \/ t.at = "stopped")
               \/ sends(m) /\ wire' = Sent(t.dev, m) /\ t.at \in {"runs", "stopped"}
  BY <1>5
<1> HIDE DEF at, u
<1>7. \A d \in Device : gate'[d] = IF t.at = "waits" /\ d = t.dev THEN t.work ELSE gate[d]
  BY <1>4 DEF RequestTypeOK
<1>8. t.at = "waits" => gate[t.dev] = None
  BY <1>1 DEF TaskStarts
<1>9. \A v \in tasks : v.at # "waits" => gate[v.dev] = v.work /\ v.work # None
  BY RequestConstants DEF OrderInv, GateHeld, RequestTypeOK, Task, Owner
<1>10. GateHeld'
  <2>1. \A v \in tasks' : v.at # "waits" => gate'[v.dev] = v.work
    <3>1. \A v \in tasks : v.dev \in Device
      BY DEF RequestTypeOK, Task
    <3> QED
      BY <1>1, <1>2, <1>3, <1>7, <1>8, <1>9, <3>1
  <2>2. \A v, x \in tasks' : v.at # "waits" /\ x.at # "waits" /\ v.dev = x.dev => v = x
    BY <1>2, <1>3, <1>8, <1>9 DEF OrderInv, GateHeld
  <2>3. \A d \in Device : live'[d].at # "none" => gate'[d] = Session
    BY <1>7, <1>8, RequestConstants DEF OrderInv, GateHeld, SameLive, Owner
  <2> QED
    BY <2>1, <2>2, <2>3 DEF GateHeld
<1>11. OfflineForgets'
  BY <1>1, <1>2, <1>3, <1>7, RequestConstants DEF OrderInv, OfflineForgets, SameWork
<1>12. UnplacedUnknown'
  <2>1. \A w \in Work : work[w].state \in Unplaced =>
           /\ \A v \in tasks' : v.work # w
           /\ \A d \in Device : gate'[d] # w /\ last'[d] # w
           /\ wire' # wire => m.of # w
    BY <1>2, <1>3, <1>6, <1>7 DEF OrderInv, UnplacedUnknown
  <2>2. wire' = wire \/ (m \in Message /\ wire' = Sent(t.dev, m))
    BY <1>6
  <2> QED
    BY <1>1, <2>1, <2>2, SentIsKnown DEF OrderInv
<1>13. StoppedIsOver'
  BY <1>2, <1>3 DEF OrderInv, StoppedIsOver, SameWork
<1>14. AnswerFirst'
  <2>1. wire' = wire \/ (m \in Message /\ wire' = Sent(t.dev, m))
    BY <1>6
  <2>2. \A w \in Work : ~(wire' # wire /\ m.type = "online" /\ m.of = w)
    BY <1>6
  <2>3. ASSUME NEW w \in Work, NEW d \in Tied, Holds(w, d)
        PROVE  /\ \A v \in tasks' : v.work = w /\ v.dev = d /\ v.at = "reported" =>
                    v \in tasks \/ OnWay(d, w)'
               /\ last'[d] = w /\ gate'[d] # w => last[d] = w /\ gate[d] # w
    <3>1. d \in Device
      BY DEF Tied, RequestTypeOK
    <3>2. ASSUME u.work = w, u.dev = d, u.at = "reported" PROVE OnWay(d, w)'
      <4>1. t.at # "stopped"
        BY <1>2, <2>3, <3>2 DEF OrderInv, StoppedIsOver, Holds, Over
      <4> QED
        BY <1>1, <1>2, <1>6, <2>3, <3>2, <4>1, SentComesLast
    <3>3. w # None
      BY RequestConstants DEF Owner
    <3> QED
      BY <1>3, <1>7, <1>8, <3>1, <3>2, <3>3
  <2> QED
    BY <1>1, <2>1, <2>2, <2>3, NodeKeepsOrdered DEF OrderInv
<1> QED
  BY <1>10, <1>11, <1>12, <1>13, <1>14 DEF OrderInv

(* A task's end is the end of its hold on the gate; it has reported.       *)
LEMMA LeavingKeepsOrder ==
  ASSUME RequestTypeOK, OrderInv, SameLive, SameWork, NEW t \in tasks, TaskLeaves(t)
  PROVE  OrderInv'
<1>1. t \in Task /\ t.dev \in Device /\ t.at = "reported" /\ UNCHANGED <<wire, last>>
      /\ tasks' = tasks \ {t}
  BY DEF TaskLeaves, RequestTypeOK, Task
<1>2. \A d \in Device : gate'[d] = IF d = t.dev THEN None ELSE gate[d]
  BY DEF TaskLeaves, RequestTypeOK
<1>3. gate[t.dev] = t.work /\ t.work # Session
  BY <1>1, RequestConstants DEF OrderInv, GateHeld, Task
<1>4. GateHeld'
  <2>1. \A v \in tasks' : v.dev \in Device /\ (v.at # "waits" => v.dev # t.dev)
    BY <1>1 DEF OrderInv, GateHeld, RequestTypeOK, Task
  <2> QED
    BY <1>1, <1>2, <1>3, <2>1 DEF OrderInv, GateHeld, SameLive
<1>5. None \notin Work
  BY RequestConstants DEF Owner
<1>6. OfflineForgets' /\ UnplacedUnknown' /\ StoppedIsOver'
  BY <1>1, <1>2, <1>5 DEF OrderInv, OfflineForgets, UnplacedUnknown, StoppedIsOver, SameWork
<1>7. AnswerFirst'
  <2>1. ASSUME NEW w \in Work, NEW d \in Tied, last'[d] = w, gate'[d] # w, gate[d] = w
        PROVE  t.work = w /\ t.dev = d
    BY <1>2, <1>3, <2>1 DEF Tied, RequestTypeOK
  <2>2. \A w \in Work, d \in Tied : last'[d] = w /\ gate'[d] # w =>
          \/ last[d] = w /\ gate[d] # w
          \/ \E v \in tasks : v.work = w /\ v.dev = d /\ v.at = "reported"
    BY <1>1, <2>1
  <2> QED
    BY <1>1, <2>2, NodeKeepsOrdered DEF OrderInv
<1> QED
  BY <1>4, <1>6, <1>7 DEF OrderInv

(* The publisher says "online" only of what it saw before, once the gate   *)
(* is free of it.                                                          *)
LEMMA PublishingKeepsOrder ==
  ASSUME RequestTypeOK, OrderInv, SameLive, NEW e \in Device, Publish(e)
  PROVE  OrderInv'
<1> DEFINE id == IF gate[e] # None THEN gate[e] ELSE last[e]
           m == [type |-> IF gate[e] # None THEN "busy" ELSE "online",
                 of |-> id, n |-> 0, ok |-> TRUE]
<1>1. m \in Message /\ m.of = id /\ (m.type = "online" => gate[e] = None)
  BY DEF RequestTypeOK, Message
<1>2. wire' = Sent(e, m)
  BY DEF Publish
<1>3. /\ UNCHANGED <<tasks, gate, linked>> /\ SameWork /\ e \in linked
      /\ \A d \in Device : last'[d] = IF d = e THEN id ELSE last[d]
  BY DEF Publish, SameWork, relayVars, RequestTypeOK
<1> HIDE DEF m
<1>4. None \notin Work
  BY RequestConstants DEF Owner
<1>5. GateHeld' /\ OfflineForgets' /\ StoppedIsOver'
  BY <1>3 DEF OrderInv, GateHeld, OfflineForgets, StoppedIsOver, SameLive, SameWork
<1>6. UnplacedUnknown'
  BY <1>1, <1>2, <1>3, SentIsKnown DEF OrderInv, UnplacedUnknown
<1>7. AnswerFirst'
  <2>1. \A w \in Work : wire' # wire /\ m.type = "online" /\ m.of = w => last[e] = w /\ gate[e] # w
    BY <1>1, <1>4
  <2>2. \A w \in Work, d \in Tied : last'[d] = w /\ gate'[d] # w => last[d] = w /\ gate[d] # w
    BY <1>3, <1>4 DEF Tied, RequestTypeOK
  <2> QED
    BY <1>1, <1>2, <1>3, <2>1, <2>2, NodeKeepsOrdered DEF OrderInv
<1> QED
  BY <1>5, <1>6, <1>7 DEF OrderInv

(* Other users take a free gate, and leave it; what the node says of them  *)
(* names no request.                                                       *)
LEMMA OthersKeepOrder ==
  ASSUME RequestTypeOK, OrderInv, SameWork, UNCHANGED <<tasks, last>>, NEW e \in Device, NEW m,
         wire' = wire \/ (m \in Message /\ m.of = Session /\ m.type # "online" /\ wire' = Sent(e, m)),
         NEW from \in {None, Local, Session}, NEW to \in {None, Local, Session},
         (gate[e] = from /\ gate' = [gate EXCEPT ![e] = to]) \/ (gate' = gate /\ from = to),
         from # to => \A t \in tasks : t.at # "waits" => t.dev # e,
         \A d \in Device : live'[d].at # "none" => gate'[d] = Session
  PROVE  OrderInv'
<1>1. \A d \in Device : gate'[d] = IF d = e /\ from # to THEN to ELSE gate[d]
  BY DEF RequestTypeOK
<1>2. {None, Local, Session} \cap Work = {}
  BY RequestConstants DEF Owner
<1>3. GateHeld'
  <2>1. \A t \in tasks : t.dev \in Device
    BY DEF RequestTypeOK, Task
  <2> QED
    BY <1>1, <2>1 DEF OrderInv, GateHeld
<1>4. OfflineForgets' /\ StoppedIsOver'
  BY <1>1, <1>2 DEF OrderInv, OfflineForgets, StoppedIsOver, SameWork
<1>5. UnplacedUnknown'
  <2>1. \A w \in Work : work[w].state \in Unplaced =>
           /\ \A t \in tasks' : t.work # w
           /\ \A d \in Device : gate'[d] # w /\ last'[d] # w
           /\ wire' # wire => m.of # w
    BY <1>1, <1>2 DEF OrderInv, UnplacedUnknown
  <2> QED
    BY <2>1, SentIsKnown DEF OrderInv
<1>6. AnswerFirst'
  <2>1. \A w \in Work, d \in Tied : last'[d] = w /\ gate'[d] # w =>
          \/ last[d] = w /\ gate[d] # w
          \/ \E t \in tasks : t.work = w /\ t.dev = d /\ t.at = "reported"
    BY <1>1, <1>2 DEF Tied, RequestTypeOK
  <2> QED
    BY <2>1, NodeKeepsOrdered DEF OrderInv
<1> QED
  BY <1>3, <1>4, <1>5, <1>6 DEF OrderInv

LEMMA DroppingKeepsOrder ==
  ASSUME RequestTypeOK, OrderInv, SameLive, NEW e \in Device, NodeDrop(e)
  PROVE  OrderInv'
<1>1. /\ UNCHANGED <<work, wire>> /\ tasks' \subseteq tasks
      /\ linked' = linked \ {e} /\ Tied' = Tied \ {e}
      /\ \A t \in tasks' : t.dev # e \/ t.work = Plan
      /\ \A d \in Device : last'[d] = IF d = e THEN None ELSE last[d]
      /\ \A d \in Device : gate'[d] = IF d = e /\ gate[e] \notin {Local, Plan, Session}
                                      THEN None ELSE gate[d]
  BY DEF NodeDrop, Tied, relayVars, RequestTypeOK
<1>2. ({Local, Plan, Session} \cup {None}) \cap Work = {} /\ None \notin {Local, Plan, Session}
  BY RequestConstants DEF Owner
<1>3. \A t \in tasks : t.dev \in Device
  BY DEF RequestTypeOK, Task
<1>4. GateHeld'
  BY <1>1, <1>2, <1>3 DEF OrderInv, GateHeld, SameLive
<1>5. OfflineForgets'
  BY <1>1, <1>2 DEF OrderInv, OfflineForgets
<1>6. UnplacedUnknown' /\ StoppedIsOver'
  BY <1>1, <1>2 DEF OrderInv, UnplacedUnknown, StoppedIsOver
<1>7. AnswerFirst'
  <2> SUFFICES ASSUME NEW w \in Work, NEW d \in Device, Holds(w, d)'
               PROVE  Ordered(w, d)'
    BY DEF AnswerFirst
  <2>1. Ordered(w, d) /\ (d \in Tied' => d # e /\ d \in Tied)
    BY <1>1 DEF OrderInv, AnswerFirst, Holds
  <2> QED
    BY <1>1, <2>1 DEF Ordered, OnWay, AnsweredBefore
<1> QED
  BY <1>4, <1>5, <1>6, <1>7 DEF OrderInv

(* A plan is applied: its tasks wait for the gate.                         *)
LEMMA ApplyingKeepsOrder ==
  ASSUME RequestTypeOK, OrderInv, SameLive, NEW lacking, NEW barred, ApplyPlan(lacking, barred)
  PROVE  OrderInv'
<1>1. /\ UNCHANGED <<work, gate, last, linked, connected, wire>>
      /\ \A t \in tasks' : t \in tasks \/ (t.work = Plan /\ t.at = "waits")
      /\ Plan \notin Work
  BY RequestConstants DEF ApplyPlan, Applied, PlanTasks
<1>2. GateHeld' /\ OfflineForgets' /\ StoppedIsOver' /\ UnplacedUnknown'
  BY <1>1 DEF OrderInv, GateHeld, OfflineForgets, StoppedIsOver, UnplacedUnknown, SameLive
<1>3. AnswerFirst'
  BY <1>1 DEF OrderInv, AnswerFirst, Holds, Tied, Ordered, OnWay, AnsweredBefore
<1> QED
  BY <1>2, <1>3 DEF OrderInv

-----------------------------------------------------------------------------
(* Every step keeps the order                                              *)

LEMMA SetGoesOn ==
  ASSUME RequestTypeOK, NEW w \in Work, NEW s, SetState(w, s),
         \/ s \in Over
         \/ s = "claimed" /\ work[w].state = "processing"
         \/ s \in Unplaced /\ work[w].state = "new"
  PROVE  StatesGoOn
<1>1. /\ work'[w] = [work[w] EXCEPT !.state = s] /\ \A v \in Work \ {w} : work'[v] = work[v]
      /\ work[w] \in [state : State, agent : Device \cup {None}]
  BY DEF SetState, RequestTypeOK
<1>2. work'[w].state = s
  BY <1>1
<1> QED
  BY <1>1, <1>2 DEF StatesGoOn, Unplaced, Over, Holds

LEMMA FailGoesOn ==
  ASSUME RequestTypeOK, NEW D, FailWork(D)
  PROVE  StatesGoOn
<1>1. ASSUME NEW w \in Work
      PROVE  \/ work'[w] = work[w]
             \/ work'[w].state = "failed" /\ work[w].state = "processing"
  BY DEF FailWork, Lost, RequestTypeOK
<1> QED
  BY <1>1 DEF StatesGoOn, Unplaced, Over, Holds

LEMMA SameGoesOn ==
  ASSUME work' = work
  PROVE  StatesGoOn
  BY DEF StatesGoOn, Holds

LEMMA SubmitKeepsOrder ==
  ASSUME RequestTypeOK, OrderInv, SameLive, NEW w \in Work, SubmitStep(w)
  PROVE  OrderInv'
<1>1. ASSUME Submitted(w)
      PROVE  work[w].state = "new" /\ UNCHANGED <<gate, last, linked, connected, wire>>
  BY <1>1 DEF Submitted
<1>2. ASSUME Submitted(w), NEW s \in {"refused", "queued", "repeated"}, SetState(w, s),
             UNCHANGED tasks
      PROVE  OrderInv'
  <2>1. StatesGoOn
    BY <1>1, <1>2, SetGoesOn DEF Unplaced
  <2> QED
    BY <1>1, <1>2, <2>1, RelayKeepsOrder DEF Tied
<1>3. ASSUME Submitted(w), Place(w) PROVE OrderInv'
  <2>1. ASSUME NEW d \in Candidates(w), Dispatch(w, d) PROVE OrderInv'
    <3>1. d \in Device
      BY DEF Candidates, RequestTypeOK
    <3> QED
      BY <1>1, <1>3, <2>1, <3>1, PlacingKeepsOrder DEF Places
  <2>2. (IF Refused(w) THEN "refused" ELSE "queued") \in {"refused", "queued", "repeated"}
    OBVIOUS
  <2> QED
    BY <1>2, <1>3, <2>1, <2>2 DEF Place
<1>4. CASE RepeatChat(w)
  BY <1>2, <1>4 DEF RepeatChat
<1> QED
  BY <1>3, <1>4
  DEF SubmitStep, SubmitChat, SubmitTalk, SubmitAsr, SubmitEmbed, SubmitOcr, SubmitTool, Submit

(* The answered request is no longer under way, if it was the node's.      *)
LEMMA AnswerKeepsOrder ==
  ASSUME RequestTypeOK, OrderInv, SameLive, NEW e \in Device, AnswerStep(e)
  PROVE  OrderInv'
<1> DEFINE w == Head(wire[e]).of
<1>1. ASSUME NEW k, Answer(e, k), StatesGoOn, \A v \in Work : v = w => ~Holds(v, e)' PROVE OrderInv'
  <2>1. /\ wire[e] # <<>> /\ Taken(e) /\ UNCHANGED <<tasks, gate, last, linked, connected>>
        /\ Head(wire[e]) = wire[e][1]
    BY <1>1, TakenShifts DEF Answer, Arrives
  <2>2. \A v \in Work : Answers(wire[e], 1, v) => ~Holds(v, e)'
    BY <1>1, <2>1 DEF Answers
  <2> QED
    BY <1>1, <2>1, <2>2, TakingKeepsOrder
<1>2. ASSUME NEW k, Answer(e, k), Ignore, \A v \in Work : v = w => ~Holds(v, e) PROVE OrderInv'
  <2>1. work' = work
    BY <1>2 DEF Ignore
  <2> QED
    BY <1>1, <1>2, <2>1, SameGoesOn DEF Holds
<1>3. ASSUME NEW k, Answer(e, k), NEW s, SetState(w, s),
             s \in Over \/ (s = "claimed" /\ Believed(e, w))
      PROVE  OrderInv'
  <2>1. w \in Work
    BY <1>3 DEF Answer
  <2>2. StatesGoOn
    BY <1>3, <2>1, SetGoesOn DEF Believed
  <2>3. work'[w].state = s /\ s # "processing"
    BY <1>3, <2>1 DEF SetState, RequestTypeOK, Over
  <2> QED
    BY <1>1, <1>3, <2>2, <2>3 DEF Holds
<1>4. ASSUME NEW ok PROVE (IF ok THEN "complete" ELSE "failed") \in Over
  BY DEF Over
<1>5. CASE HandleChatResponse(e)
  BY <1>2, <1>3, <1>5 DEF HandleChatResponse, Believed, Holds
<1>6. CASE HandleChatError(e)
  <2>1. CASE Believed(e, w)
    BY <1>3, <1>6, <2>1 DEF HandleChatError, Settle, Over
  <2>2. CASE ~Believed(e, w)
    BY <1>2, <1>6, <2>2 DEF HandleChatError, Believed, Holds
  <2> QED
    BY <2>1, <2>2
<1>7. ASSUME NEW k, LateAnswer(e, k) PROVE OrderInv'
  <2>1. CASE Late(w)
    BY <1>2, <1>7, <2>1 DEF LateAnswer, Late, Holds
  <2>2. CASE ~Late(w)
    BY <1>3, <1>4, <1>7, <2>2 DEF LateAnswer, Settle, Outcome
  <2> QED
    BY <2>1, <2>2
<1>8. CASE HandleToolAnswer(e)
  BY <1>3, <1>4, <1>8 DEF HandleToolAnswer, Settle, Outcome
<1> QED
  BY <1>5, <1>6, <1>7, <1>8
  DEF AnswerStep, HandleTalkAnswer, HandleAsrAnswer, HandleEmbedAnswer, HandleOcrAnswer

LEMMA CancelKeepsOrder ==
  ASSUME RequestTypeOK, OrderInv, SameLive, NEW w \in Work, CancelStep(w)
  PROVE  OrderInv'
<1>1. ASSUME NEW k, Cancel(w, k) PROVE OrderInv'
  <2>1. StatesGoOn
    BY <1>1, SetGoesOn DEF Cancel, Over
  <2> QED
    BY <1>1, <2>1, StoppingKeepsOrder
<1> QED
  BY <1>1
  DEF CancelStep, CancelChat, CancelTalk, CancelAsr, CancelEmbed, CancelOcr, CancelTool

LEMMA TaskKeepsOrder ==
  ASSUME RequestTypeOK, OrderInv, SameLive, NEW t \in tasks, TaskStep(t)
  PROVE  OrderInv'
<1>1. SameWork
  BY DEF SameWork, TaskStep, TaskStarts, TaskLeaves, ToolStops, Reports, ChatReports, TalkReports,
         AsrReports, EmbedReports, OcrReports, ToolReports, PlanReports, relayVars
<1>2. CASE TaskLeaves(t)
  BY <1>1, <1>2, LeavingKeepsOrder
<1>3. CASE TaskStarts(t)
  BY <1>1, <1>3, MovingKeepsOrder DEF TaskStarts
<1>4. ASSUME t.at \in {"runs", "stopped"}, Reports(t) PROVE OrderInv'
  BY <1>1, <1>4, MovingKeepsOrder DEF Reports
<1>5. CASE ToolStops(t)
  BY <1>1, <1>4, <1>5, MovingKeepsOrder DEF ToolStops
<1> QED
  BY <1>2, <1>3, <1>4, <1>5
  DEF TaskStep, ChatReports, TalkReports, AsrReports, EmbedReports, OcrReports, ToolReports,
      PlanReports, Runs

LEMMA RequestsKeepOrder ==
  ASSUME RequestTypeOK, KeyInv, OrderInv, SameLive, RequestStep
  PROVE  OrderInv'
<1>1. ASSUME StatesGoOn, UNCHANGED <<tasks, gate, last, linked, connected, wire>> PROVE OrderInv'
  BY <1>1, RelayKeepsOrder DEF Tied
<1>2. CASE PlaceNext
  <2>1. PICK w \in todo : PlaceNext!(w)
    BY <1>2 DEF PlaceNext
  <2>2. w \in Work /\ work[w].state = "queued" /\ Candidates(w) \subseteq Device
    BY <2>1 DEF KeyInv, Candidates, RequestTypeOK
  <2>3. CASE UNCHANGED <<work, mem, reserved, tasks>>
    BY <1>1, <2>1, <2>3, SameGoesOn
  <2>4. ASSUME NEW d \in Candidates(w), Dispatch(w, d) PROVE OrderInv'
    BY <2>1, <2>2, <2>4, PlacingKeepsOrder DEF Places
  <2> QED
    BY <2>1, <2>3, <2>4
<1>3. ASSUME NEW w \in Work, PollStep(w) PROVE OrderInv'
  BY <1>1, <1>3, SameGoesOn
  DEF PollStep, Poll, PollChat, PollTalk, PollAsr, PollEmbed, PollOcr, PollTool, nodeVars
<1>4. ASSUME NEW w \in Work, ChatHashed(w) PROVE OrderInv'
  <2>1. StatesGoOn
    BY <1>4, SetGoesOn DEF ChatHashed, Settle, Over
  <2> QED
    BY <1>1, <1>4, <2>1 DEF ChatHashed, nodeVars
<1>5. ASSUME NEW d \in Device, HandleAvailability(d) PROVE OrderInv'
  <2>1. /\ wire[d] # <<>> /\ Taken(d) /\ work' = work
        /\ UNCHANGED <<tasks, gate, last, linked, connected>>
        /\ Head(wire[d]).type # "result" /\ Head(wire[d]) = wire[d][1]
    BY <1>5, TakenShifts DEF HandleAvailability, Arrives
  <2>2. \A w \in Work : ~Answers(wire[d], 1, w)
    BY <2>1 DEF Answers
  <2> QED
    BY <2>1, <2>2, SameGoesOn, TakingKeepsOrder
<1>6. ASSUME NEW d \in Device, HandleAuth(d) PROVE OrderInv'
  <2>1. StatesGoOn
    BY <1>6, FailGoesOn DEF HandleAuth
  <2> QED
    BY <1>6, <2>1, ConnectingKeepsOrder
<1>7. ASSUME NEW d \in Device, \E p \in {"open", "closed", "revoked"} : SetPolicy(d, p)
      PROVE  OrderInv'
  <2>1. StatesGoOn
    BY <1>7, FailGoesOn DEF SetPolicy
  <2> QED
    BY <1>1, <1>7, <2>1 DEF SetPolicy, nodeVars
<1>8. ASSUME NEW D \in SUBSET Device, CleanupStale(D) PROVE OrderInv'
  <2>1. StatesGoOn
    BY <1>8, FailGoesOn DEF CleanupStale
  <2> QED
    BY <1>1, <1>8, <2>1 DEF CleanupStale, nodeVars
<1>9. ASSUME NEW d \in Device, HandleInventory(d) PROVE OrderInv'
  BY <1>1, <1>9, SameGoesOn DEF HandleInventory, nodeVars
<1>10. ASSUME NEW d \in Device, NEW from \in {None, Local}, NEW to \in {None, Local},
              gate[d] = from, gate' = [gate EXCEPT ![d] = to], SameWork,
              UNCHANGED <<tasks, last, wire>>
       PROVE  OrderInv'
  <2>1. \A t \in tasks : t.at # "waits" => t.dev # d
    <3>1. \A t \in tasks : t.work \notin {None, Local}
      BY RequestConstants DEF RequestTypeOK, Task, Owner
    <3> QED
      BY <1>10, <3>1 DEF OrderInv, GateHeld
  <2>2. \A e \in Device : live'[e].at # "none" => gate'[e] = Session
    <3>1. gate[d] # Session /\ \A e \in Device \ {d} : gate'[e] = gate[e]
      BY <1>10, RequestConstants DEF RequestTypeOK, Owner
    <3> QED
      BY <3>1 DEF OrderInv, GateHeld, SameLive
  <2> QED
    BY <1>10, <2>1, <2>2, OthersKeepOrder
<1>11. ASSUME NEW d \in Device, LocalStarts(d) \/ LocalEnds(d) PROVE OrderInv'
  BY <1>10, <1>11 DEF LocalStarts, LocalEnds, SameWork, relayVars
<1>12. ASSUME NEW t \in tasks, HandleToolProgress(t) PROVE OrderInv'
  BY <1>1, <1>12, SameGoesOn DEF HandleToolProgress, nodeVars
<1>13. CASE Hibernate
  BY <1>1, <1>13, SameGoesOn DEF Hibernate, nodeVars
<1> QED
  BY <1>2, <1>3, <1>4, <1>5, <1>6, <1>7, <1>8, <1>9, <1>11, <1>12, <1>13,
     SubmitKeepsOrder, AnswerKeepsOrder, CancelKeepsOrder, TaskKeepsOrder, PublishingKeepsOrder
  DEF RequestStep

LEMMA LosingKeepsOrder ==
  ASSUME AccountTypeOK, OrderInv, NEW e \in Device, Closes(e) \/ Drops(e)
  PROVE  OrderInv'
<1>1. RequestTypeOK /\ live \in [Device -> Live]
  BY DEF AccountTypeOK, StreamTypeOK
<1>2. SameLive
  BY <1>1 DEF Closes, CloseForAgent, Drops, LiveLoses, SameLive, Live
<1>3. CASE HandleClose(e)
  <2>1. StatesGoOn
    BY <1>1, <1>3, FailGoesOn DEF HandleClose
  <2>2. /\ UNCHANGED <<tasks, gate, last, linked>> /\ Tied' \subseteq Tied /\ e \notin Tied'
        /\ wire' = [wire EXCEPT ![e] = <<>>]
    BY <1>3 DEF HandleClose, Tied
  <2> QED
    BY <1>1, <1>2, <2>1, <2>2, RelayKeepsOrder DEF RequestTypeOK
<1> QED
  BY <1>1, <1>2, <1>3, DroppingKeepsOrder DEF Closes, Drops

LEMMA RestartKeepsOrder ==
  ASSUME AccountTypeOK, OrderInv, Restarts
  PROVE  OrderInv'
<1>1. RequestTypeOK /\ SameLive
  BY DEF AccountTypeOK, Restarts, StreamRestarts, SameLive
<1>2. /\ UNCHANGED <<tasks, gate, last, linked>> /\ Tied' = {}
      /\ \A d \in Device : wire'[d] = <<>>
  BY DEF Restarts, Restart, Tied
<1>3. StatesGoOn
  BY <1>1, <1>2 DEF Restarts, Restart, StatesGoOn, Unplaced, Over, RequestTypeOK
<1> QED
  BY <1>1, <1>2, <1>3, RelayKeepsOrder

LEMMA PlansKeepOrder ==
  ASSUME RequestTypeOK, OrderInv, SameLive, PlanStep
  PROVE  OrderInv'
<1>1. ASSUME UNCHANGED requestVars PROVE OrderInv'
  BY <1>1, SameGoesOn, RelayKeepsOrder DEF requestVars, relayVars, nodeVars, Tied
<1>2. ASSUME NEW d \in Device, HandlePlanResult(d) PROVE OrderInv'
  <2>1. /\ wire[d] # <<>> /\ Taken(d) /\ work' = work
        /\ UNCHANGED <<tasks, gate, last, linked, connected>>
        /\ Head(wire[d]).of = Plan /\ Head(wire[d]) = wire[d][1]
    BY <1>2, TakenShifts DEF HandlePlanResult, Arrives, Ignore
  <2>2. \A w \in Work : ~Answers(wire[d], 1, w)
    BY <2>1, RequestConstants DEF Answers
  <2> QED
    BY <2>1, <2>2, SameGoesOn, TakingKeepsOrder
<1> QED
  BY <1>1, <1>2, ApplyingKeepsOrder DEF PlanStep, CancelPlan, CreatePlan

LEMMA SessionsKeepOrder ==
  ASSUME AccountTypeOK, OrderInv, StreamStep
  PROVE  OrderInv'
<1>1. RequestTypeOK /\ live \in [Device -> Live]
  BY DEF AccountTypeOK, StreamTypeOK
<1>2. ASSUME KeepRelay, KeepNodes, SameLive PROVE OrderInv'
  BY <1>1, <1>2, SameGoesOn, RelayKeepsOrder DEF KeepRelay, KeepNodes, Tied
<1>3. ASSUME CancelLive \/ UNCHANGED live PROVE SameLive
  BY <1>1, <1>3 DEF CancelLive, SameLive, Live
<1>4. ASSUME NEW d \in Device, NEW type, type # "result", EventArrives(d, type) PROVE OrderInv'
  <2>1. /\ wire[d] # <<>> /\ Taken(d) /\ work' = work
        /\ UNCHANGED <<tasks, gate, last, linked, connected, live>>
        /\ Head(wire[d]).type # "result" /\ Head(wire[d]) = wire[d][1]
    BY <1>1, <1>4, TakenShifts DEF EventArrives, Arrives, KeepRelay
  <2>2. \A w \in Work : ~Answers(wire[d], 1, w)
    BY <2>1 DEF Answers
  <2> QED
    BY <1>1, <2>1, <2>2, SameGoesOn, TakingKeepsOrder DEF SameLive
<1>5. \A type \in {"ready", "end"}, ok \in BOOLEAN :
        LET m == [type |-> type, of |-> Session, n |-> 0, ok |-> ok]
        IN  m \in Message /\ m.of = Session /\ m.type # "online"
  BY RequestConstants DEF Message, NodeOwner, Owner
<1>6. ASSUME NEW d \in Device, SameWork, UNCHANGED <<tasks, last>>,
             NEW m, wire' = wire \/ (m \in Message /\ m.of = Session /\ m.type # "online"
                                      /\ wire' = Sent(d, m)),
             \/ UNCHANGED gate /\ \A e \in Device : live'[e].at # "none" => live[e].at # "none"
             \/ /\ gate[d] = None /\ gate' = [gate EXCEPT ![d] = Session]
                /\ \A e \in Device \ {d} : live'[e] = live[e]
             \/ /\ live[d].at = "over" /\ gate' = [gate EXCEPT ![d] = None]
                /\ live' = [live EXCEPT ![d] = NotLive]
      PROVE  OrderInv'
  <2>1. CASE UNCHANGED gate /\ \A e \in Device : live'[e].at # "none" => live[e].at # "none"
    <3>1. \A e \in Device : live'[e].at # "none" => gate'[e] = Session
      BY <2>1 DEF OrderInv, GateHeld
    <3> QED
      BY <1>1, <1>6, <2>1, <3>1, OthersKeepOrder
  <2>2. \A t \in tasks : t.work \notin {None, Session}
    BY <1>1, RequestConstants DEF RequestTypeOK, Task, Owner
  <2>3. CASE /\ gate[d] = None /\ gate' = [gate EXCEPT ![d] = Session]
             /\ \A e \in Device \ {d} : live'[e] = live[e]
    <3>1. \A t \in tasks : t.at # "waits" => t.dev # d
      BY <2>2, <2>3 DEF OrderInv, GateHeld
    <3>2. \A e \in Device : live'[e].at # "none" => gate'[e] = Session
      BY <1>1, <2>3 DEF OrderInv, GateHeld, RequestTypeOK
    <3> QED
      BY <1>1, <1>6, <2>3, <3>1, <3>2, OthersKeepOrder
  <2>4. CASE /\ live[d].at = "over" /\ gate' = [gate EXCEPT ![d] = None]
             /\ live' = [live EXCEPT ![d] = NotLive]
    <3>0. gate[d] = Session
      BY <2>4 DEF OrderInv, GateHeld
    <3>1. \A t \in tasks : t.at # "waits" => t.dev # d
      BY <2>2, <3>0 DEF OrderInv, GateHeld
    <3>2. \A e \in Device : live'[e].at # "none" => gate'[e] = Session
      BY <1>1, <2>4 DEF OrderInv, GateHeld, RequestTypeOK, NotLive
    <3> QED
      BY <1>1, <1>6, <2>4, <3>0, <3>1, <3>2, OthersKeepOrder
  <2> QED
    BY <1>6, <2>1, <2>3, <2>4
<1>7. CASE StartStream
  <2>1. SameWork /\ UNCHANGED <<tasks, last>>
    BY <1>7 DEF StartStream, KeepRelay, SameWork
  <2>2. CASE session.agent \in connected /\ reserved[session.agent] = None
    <3>1. PICK d \in Device : d = session.agent /\ NodeStarts(d)
      BY <1>1, <1>7, <2>2 DEF StartStream, RequestTypeOK
    <3>2. CASE UNCHANGED <<gate, wire, live>>
      BY <1>6, <2>1, <3>2
    <3>3. CASE /\ gate[d] = None /\ gate' = [gate EXCEPT ![d] = Session] /\ UNCHANGED wire
               /\ live' = [live EXCEPT ![d] = [at |-> "runs", cancelled |-> FALSE]]
      <4>1. \A e \in Device \ {d} : live'[e] = live[e]
        BY <1>1, <3>3
      <4> QED
        BY <1>6, <2>1, <3>3, <4>1
    <3>4. CASE /\ wire' = Sent(d, [type |-> "end", of |-> Session, n |-> 0, ok |-> FALSE])
               /\ UNCHANGED <<gate, live>>
      BY <1>5, <1>6, <2>1, <3>4
    <3> QED
      BY <3>1, <3>2, <3>3, <3>4 DEF NodeStarts
  <2>3. CASE ~(session.agent \in connected /\ reserved[session.agent] = None)
    <3>1. KeepRelay /\ KeepNodes /\ UNCHANGED live
      BY <1>7, <2>3 DEF StartStream, KeepNodes
    <3> QED
      BY <1>2, <1>3, <3>1
  <2> QED
    BY <2>2, <2>3
<1>8. ASSUME NEW d \in Device, NodeReady(d) PROVE OrderInv'
  <2>1. \A e \in Device : live'[e].at # "none" => live[e].at # "none"
    BY <1>1, <1>8 DEF NodeReady, Live
  <2> QED
    BY <1>5, <1>6, <1>8, <2>1 DEF NodeReady, relayVars, SameWork
<1>9. ASSUME NEW d \in Device, NodeEnds(d) PROVE OrderInv'
  <2>1. \A e \in Device : live'[e].at # "none" => live[e].at # "none"
    BY <1>1, <1>9 DEF NodeEnds, Live
  <2> QED
    BY <1>5, <1>6, <1>9, <2>1 DEF NodeEnds, relayVars, SameWork
<1>10. ASSUME NEW d \in Device, NodeLeaves(d) PROVE OrderInv'
  BY <1>5, <1>6, <1>10 DEF NodeLeaves, relayVars, SameWork
<1>11. ASSUME NEW d \in Device, StreamReady(d) \/ StreamEnd(d) PROVE OrderInv'
  BY <1>4, <1>11 DEF StreamReady, StreamEnd
<1>12. CASE CreateTicket \/ AcceptBrowser \/ BrowserStops
  BY <1>2, <1>3, <1>12 DEF CreateTicket, AcceptBrowser, BrowserStops, StopStream
<1>13. CASE BrowserCancels \/ BrowserErrs \/ BrowserCloses
  BY <1>2, <1>3, <1>13 DEF BrowserCancels, BrowserErrs, BrowserCloses
<1>14. CASE ExpireStream
  BY <1>2, <1>3, <1>14 DEF ExpireStream, StopStream
<1> QED
  BY <1>7, <1>8, <1>9, <1>10, <1>11, <1>12, <1>13, <1>14 DEF StreamStep

LEMMA OrderIsKept == AccountSpec => []OrderInv
<1>1. AccountInit => OrderInv
  <2> SUFFICES ASSUME AccountInit PROVE OrderInv
    OBVIOUS
  <2>1. None \notin Work /\ DOMAIN <<>> = {}
    BY RequestConstants DEF Owner
  <2>2. GateHeld /\ StoppedIsOver
    BY DEF AccountInit, RequestInit, StreamInit, NotLive, GateHeld, StoppedIsOver
  <2>3. OfflineForgets /\ UnplacedUnknown
    BY <2>1 DEF AccountInit, RequestInit, OfflineForgets, UnplacedUnknown
  <2>4. AnswerFirst
    BY DEF AccountInit, RequestInit, AnswerFirst, Holds
  <2> QED
    BY <2>2, <2>3, <2>4 DEF OrderInv
<1>2. AccountTypeOK /\ KeyInv /\ OrderInv /\ [AccountNext]_accountVars => OrderInv'
  <2> SUFFICES ASSUME AccountTypeOK, KeyInv, OrderInv, [AccountNext]_accountVars PROVE OrderInv'
    OBVIOUS
  <2>1. RequestTypeOK
    BY DEF AccountTypeOK
  <2>2. ASSUME UNCHANGED streamVars PROVE SameLive
    BY <2>2 DEF streamVars, SameLive
  <2>3. CASE UNCHANGED accountVars
    BY <2>1, <2>2, <2>3, SameGoesOn, RelayKeepsOrder
    DEF accountVars, requestVars, relayVars, nodeVars, Tied
  <2>4. CASE RequestStep /\ UNCHANGED streamVars
    BY <2>1, <2>2, <2>4, RequestsKeepOrder
  <2>5. CASE PlanStep /\ UNCHANGED streamVars
    BY <2>1, <2>2, <2>5, PlansKeepOrder
  <2> QED
    BY <2>3, <2>4, <2>5, SessionsKeepOrder, LosingKeepsOrder, RestartKeepsOrder DEF AccountNext
<1> QED
  BY <1>1, <1>2, AccountTypes, KeyIsKept, PTL DEF AccountSpec

-----------------------------------------------------------------------------
(* Reservations                                                            *)

LEMMA ReservedStayConnected ==
  ASSUME AccountTypeOK, ReservedConnected, AccountNext
  PROVE  ReservedConnected'
<1>1. RequestTypeOK
  BY DEF AccountTypeOK
<1>2. ASSUME UNCHANGED <<connected, reserved>> PROVE ReservedConnected'
  BY <1>2 DEF ReservedConnected
<1>3. ASSUME NEW d, Release(d), UNCHANGED connected PROVE ReservedConnected'
  BY <1>3 DEF Release, ReservedConnected
<1>4. ASSUME NEW d \in connected, NEW o, reserved' = [reserved EXCEPT ![d] = o],
             UNCHANGED connected
      PROVE  ReservedConnected'
  BY <1>1, <1>4 DEF ReservedConnected, RequestTypeOK
<1>5. ASSUME NEW w \in Work, NEW d \in Candidates(w), Dispatch(w, d), UNCHANGED connected
      PROVE  ReservedConnected'
  BY <1>4, <1>5 DEF Candidates, Dispatch
<1>6. ASSUME PlaceNext PROVE ReservedConnected'
  BY <1>1, <1>2, <1>5, <1>6 DEF PlaceNext, RequestTypeOK
<1>7. ASSUME NEW w \in Work, SubmitStep(w) PROVE ReservedConnected'
  <2>1. ASSUME Submitted(w), Place(w) PROVE ReservedConnected'
    BY <1>2, <1>5, <2>1 DEF Submitted, Place
  <2> QED
    BY <1>2, <1>7, <2>1
    DEF SubmitStep, SubmitChat, RepeatChat, SubmitTalk, SubmitAsr, SubmitEmbed, SubmitOcr,
        SubmitTool, Submit, Submitted
<1>8. ASSUME NEW w \in Work, PollStep(w) \/ CancelStep(w) \/ ChatHashed(w) PROVE ReservedConnected'
  BY <1>2, <1>3, <1>8
  DEF PollStep, Poll, PollChat, PollTalk, PollAsr, PollEmbed, PollOcr, PollTool, CancelStep, Cancel,
      CancelChat, CancelTalk, CancelAsr, CancelEmbed, CancelOcr, CancelTool, ChatHashed, Settle
<1>9. ASSUME NEW d \in Device, AnswerStep(d) PROVE ReservedConnected'
  <2>1. ASSUME NEW k, Answer(d, k), Ignore \/ UNCHANGED reserved \/ \E w, s : Settle(w, s)
        PROVE  ReservedConnected'
    BY <1>2, <1>3, <2>1 DEF Answer, Ignore, Settle
  <2> QED
    BY <1>9, <2>1
    DEF AnswerStep, HandleChatResponse, HandleChatError, HandleTalkAnswer, HandleAsrAnswer,
        HandleEmbedAnswer, HandleOcrAnswer, LateAnswer, HandleToolAnswer
<1>10. ASSUME NEW d \in Device, HandleAvailability(d) PROVE ReservedConnected'
  BY <1>2, <1>4, <1>10 DEF HandleAvailability, Arrives
<1>11. ASSUME NEW d \in Device, HandleAuth(d) \/ HandleClose(d) PROVE ReservedConnected'
  BY <1>1, <1>11 DEF HandleAuth, HandleClose, ReservedConnected, RequestTypeOK
<1>12. ASSUME NEW d \in Device,
              \/ HandleInventory(d) \/ \E p \in {"open", "closed", "revoked"} : SetPolicy(d, p)
              \/ Publish(d) \/ LocalStarts(d) \/ LocalEnds(d) \/ NodeDrop(d)
       PROVE  ReservedConnected'
  BY <1>2, <1>12
  DEF HandleInventory, SetPolicy, Publish, LocalStarts, LocalEnds, NodeDrop, relayVars
<1>13. ASSUME NEW t \in tasks, TaskStep(t) \/ HandleToolProgress(t) PROVE ReservedConnected'
  BY <1>2, <1>13
  DEF TaskStep, TaskStarts, TaskLeaves, ToolStops, Reports, ChatReports, TalkReports, AsrReports,
      EmbedReports, OcrReports, ToolReports, PlanReports, HandleToolProgress, relayVars
<1>14. ASSUME NEW D, CleanupStale(D) PROVE ReservedConnected'
  BY <1>14 DEF CleanupStale, ReservedConnected
<1>15. ASSUME Hibernate PROVE ReservedConnected'
  BY <1>2, <1>15 DEF Hibernate
<1>16. ASSUME Restarts PROVE ReservedConnected'
  BY <1>16 DEF Restarts, Restart, ReservedConnected
<1>17. ASSUME RequestStep PROVE ReservedConnected'
  BY <1>6, <1>7, <1>8, <1>9, <1>10, <1>11, <1>12, <1>13, <1>14, <1>15, <1>17 DEF RequestStep
<1>18. ASSUME PlanStep PROVE ReservedConnected'
  <2>1. ASSUME NEW lacking, NEW barred, ApplyPlan(lacking, barred) PROVE ReservedConnected'
    <3>1. ASSUME NEW d \in Device, reserved'[d] # reserved[d] PROVE d \in connected
      <4>1. d \in Target /\ Attempted(d, lacking, barred) = "applying"
        BY <2>1, <3>1 DEF ApplyPlan, Applied
      <4> QED
        BY <4>1 DEF Attempted
    <3> QED
      BY <2>1, <3>1 DEF ApplyPlan, Applied, ReservedConnected
  <2>2. ASSUME NEW d \in Device, HandlePlanResult(d) PROVE ReservedConnected'
    BY <1>2, <1>3, <2>2 DEF HandlePlanResult, Ignore
  <2> QED
    BY <1>2, <1>18, <2>1, <2>2 DEF PlanStep, CancelPlan, CreatePlan, requestVars, relayVars
<1>19. ASSUME StreamStep PROVE ReservedConnected'
  <2>1. ASSUME ReleaseStream, UNCHANGED connected PROVE ReservedConnected'
    BY <2>1 DEF ReleaseStream, ReservedConnected
  <2>2. UNCHANGED connected
    BY <1>19
    DEF StreamStep, CreateTicket, AcceptBrowser, StartStream, BrowserStops, BrowserCancels,
        BrowserErrs, BrowserCloses, ExpireStream, StreamReady, StreamEnd, EventArrives, NodeReady,
        NodeEnds, NodeLeaves, KeepRelay, relayVars
  <2>3. UNCHANGED reserved \/ ReleaseStream
          \/ \E d \in connected : reserved' = [reserved EXCEPT ![d] = Stream]
    BY <1>19
    DEF StreamStep, CreateTicket, AcceptBrowser, StartStream, BrowserStops, BrowserCancels,
        BrowserErrs, BrowserCloses, ExpireStream, StreamReady, StreamEnd, EventArrives, NodeReady,
        NodeEnds, NodeLeaves, StopStream, FailBrowser, relayVars
  <2> QED
    BY <1>2, <1>4, <2>1, <2>2, <2>3
<1> QED
  BY <1>11, <1>12, <1>16, <1>17, <1>18, <1>19 DEF AccountNext, Closes, Drops

LEMMA ReservedAreConnected == AccountSpec => []ReservedConnected
<1>1. AccountInit => ReservedConnected
  BY DEF AccountInit, RequestInit, ReservedConnected
<1>2. AccountTypeOK /\ ReservedConnected /\ [AccountNext]_accountVars => ReservedConnected'
  BY ReservedStayConnected DEF accountVars, requestVars, relayVars, ReservedConnected
<1> QED
  BY <1>1, <1>2, AccountTypes, PTL DEF AccountSpec

Given == {"processing", "claimed"}

GivenHasNode ==
  \A w \in Work : /\ work[w].state \in Given => work[w].agent \in Device
                  /\ work[w].state \in {"new", "queued"} => work[w].agent = None

LEMMA GivenKeepsNode ==
  ASSUME AccountTypeOK, KeyInv, GivenHasNode, AccountNext
  PROVE  GivenHasNode'
<1>1. RequestTypeOK
  BY DEF AccountTypeOK
<1>2. ASSUME work' = work PROVE GivenHasNode'
  BY <1>2 DEF GivenHasNode
<1>3. ASSUME NEW w \in Work, NEW s, SetState(w, s), s \in Given => work[w].state \in Given,
             s = "queued" => work[w].state = "new", s # "new"
      PROVE  GivenHasNode'
  BY <1>1, <1>3 DEF SetState, GivenHasNode, RequestTypeOK
<1>4. ASSUME NEW D, FailWork(D) PROVE GivenHasNode'
  BY <1>1, <1>4 DEF FailWork, Lost, GivenHasNode, Given, RequestTypeOK
<1>5. ASSUME NEW w \in Work, NEW d \in Candidates(w), Dispatch(w, d) PROVE GivenHasNode'
  <2>1. d \in Device
    BY <1>1 DEF Candidates, RequestTypeOK
  <2> QED
    BY <1>1, <1>5, <2>1 DEF Dispatch, GivenHasNode, RequestTypeOK
<1>6. ASSUME PlaceNext PROVE GivenHasNode'
  BY <1>1, <1>2, <1>5, <1>6 DEF PlaceNext, RequestTypeOK
<1>7. ASSUME NEW w \in Work, SubmitStep(w) PROVE GivenHasNode'
  <2>1. ASSUME Place(w), work[w].state = "new" PROVE GivenHasNode'
    <3>1. (IF Refused(w) THEN "refused" ELSE "queued") \notin Given \cup {"new"}
      BY DEF Given
    <3> QED
      BY <1>3, <1>5, <2>1, <3>1 DEF Place
  <2>2. ASSUME RepeatChat(w) PROVE GivenHasNode'
    BY <1>3, <2>2 DEF RepeatChat, Given
  <2> QED
    BY <1>7, <2>1, <2>2
    DEF SubmitStep, SubmitChat, SubmitTalk, SubmitAsr, SubmitEmbed, SubmitOcr, SubmitTool, Submit, Submitted
<1>8. ASSUME NEW w \in Work, CancelStep(w) \/ ChatHashed(w) PROVE GivenHasNode'
  BY <1>3, <1>8
  DEF CancelStep, Cancel, CancelChat, CancelTalk, CancelAsr, CancelEmbed, CancelOcr, CancelTool,
      ChatHashed, Settle, Given
<1>9. ASSUME NEW d \in Device, AnswerStep(d) PROVE GivenHasNode'
  <2> DEFINE w == Head(wire[d]).of
  <2>1. ASSUME NEW k, Answer(d, k), Ignore PROVE GivenHasNode'
    BY <1>2, <2>1 DEF Ignore
  <2>2. ASSUME NEW k, Answer(d, k), NEW s, SetState(w, s), s \in Given => work[w].state \in Given,
               s \notin {"new", "queued"}
        PROVE  GivenHasNode'
    <3>1. w \in Work
      BY <2>2 DEF Answer
    <3> QED
      BY <1>3, <2>2, <3>1
  <2>3. \A ok : (IF ok THEN "complete" ELSE "failed") \notin Given \cup {"new", "queued"}
    BY DEF Given
  <2>4. CASE HandleChatResponse(d) \/ HandleChatError(d)
    BY <2>1, <2>2, <2>4 DEF HandleChatResponse, HandleChatError, Believed, Settle, Given
  <2>5. ASSUME NEW k, LateAnswer(d, k) PROVE GivenHasNode'
    BY <2>1, <2>2, <2>3, <2>5 DEF LateAnswer, Settle, Outcome
  <2>6. CASE HandleToolAnswer(d)
    BY <2>2, <2>3, <2>6 DEF HandleToolAnswer, Settle, Outcome
  <2> QED
    BY <1>9, <2>4, <2>5, <2>6
    DEF AnswerStep, HandleTalkAnswer, HandleAsrAnswer, HandleEmbedAnswer, HandleOcrAnswer
<1>10. ASSUME Restarts PROVE GivenHasNode'
  BY <1>1, <1>10 DEF Restarts, Restart, GivenHasNode, Given, RequestTypeOK
<1>11. ASSUME NEW d \in Device,
              \/ HandleAuth(d) \/ HandleClose(d)
              \/ \E p \in {"open", "closed", "revoked"} : SetPolicy(d, p)
       PROVE  GivenHasNode'
  BY <1>4, <1>11 DEF HandleAuth, HandleClose, SetPolicy
<1>12. ASSUME NEW D, CleanupStale(D) PROVE GivenHasNode'
  BY <1>4, <1>12 DEF CleanupStale
<1>13. ASSUME NEW w \in Work, PollStep(w) PROVE GivenHasNode'
  BY <1>2, <1>13
  DEF PollStep, Poll, PollChat, PollTalk, PollAsr, PollEmbed, PollOcr, PollTool
<1>14. ASSUME NEW d \in Device, \/ HandleAvailability(d) \/ HandleInventory(d) \/ Publish(d)
                                \/ LocalStarts(d) \/ LocalEnds(d) \/ NodeDrop(d)
       PROVE  GivenHasNode'
  BY <1>2, <1>14
  DEF HandleAvailability, HandleInventory, Publish, LocalStarts, LocalEnds, NodeDrop, relayVars
<1>15. ASSUME NEW t \in tasks, TaskStep(t) \/ HandleToolProgress(t) PROVE GivenHasNode'
  BY <1>2, <1>15
  DEF TaskStep, TaskStarts, TaskLeaves, ToolStops, Reports, ChatReports, TalkReports, AsrReports,
      EmbedReports, OcrReports, ToolReports, PlanReports, HandleToolProgress, relayVars
<1>16. ASSUME Hibernate PROVE GivenHasNode'
  BY <1>2, <1>16 DEF Hibernate
<1>17. ASSUME RequestStep PROVE GivenHasNode'
  BY <1>6, <1>7, <1>8, <1>9, <1>11, <1>12, <1>13, <1>14, <1>15, <1>16, <1>17 DEF RequestStep
<1>18. ASSUME PlanStep PROVE GivenHasNode'
  BY <1>2, <1>18
  DEF PlanStep, CancelPlan, CreatePlan, ApplyPlan, Applied, HandlePlanResult, Ignore, requestVars,
      relayVars
<1>19. ASSUME StreamStep PROVE GivenHasNode'
  BY <1>2, <1>19
  DEF StreamStep, CreateTicket, AcceptBrowser, StartStream, BrowserStops, BrowserCancels,
      BrowserErrs, BrowserCloses, ExpireStream, StreamReady, StreamEnd, EventArrives, NodeReady,
      NodeEnds, NodeLeaves, KeepRelay, relayVars
<1> QED
  BY <1>10, <1>11, <1>14, <1>17, <1>18, <1>19 DEF AccountNext, Closes, Drops

LEMMA GivenHaveNodes == AccountSpec => []GivenHasNode
<1>1. AccountInit => GivenHasNode
  BY DEF AccountInit, RequestInit, GivenHasNode, Given
<1>2. AccountTypeOK /\ KeyInv /\ GivenHasNode /\ [AccountNext]_accountVars => GivenHasNode'
  BY GivenKeepsNode DEF accountVars, requestVars, relayVars, GivenHasNode
<1> QED
  BY <1>1, <1>2, AccountTypes, KeyIsKept, PTL DEF AccountSpec

Kept(w) ==
  LET d == work[w].agent IN
  \/ reserved'[d] = w
  \/ w \notin mem /\ d \in linked' \ linked
  \/ /\ reserved'[d] = None
     /\ \/ restarts' # restarts \/ w \notin mem
        \/ \E v \in (Work \ {w}) \cup {Plan} : EndsLate(v, d)

(* The end of other work v: only a node that was given to it is released.  *)
LEMMA SettledEndsLate ==
  ASSUME RequestTypeOK, ReservedConnected, GivenHasNode, NEW w \in Work, NEW d \in Device,
         Holds(w, d), reserved[d] = w, NEW v \in Work \ {w}, NEW s, SetState(v, s),
         s \in {"complete", "failed", "cancelled"}, Release(work[v].agent),
         work[v].state \in Given \cup {"queued"} \/ \E e \in Device : AnswerTaken(v, e)
  PROVE  Kept(w)
<1>1. w # None
  BY RequestConstants DEF Owner
<1>2. CASE work[v].agent # d
  BY <1>2 DEF Release, Kept, Holds
<1>3. CASE work[v].agent = d
  <2>1. d \in connected /\ d # None
    BY <1>1, RequestConstants DEF ReservedConnected
  <2>2. reserved'[d] = None
    BY <1>3, <2>1 DEF Release
  <2>3. work'[v].state = s
    BY DEF SetState, RequestTypeOK
  <2>4. EndsLate(v, d)
    BY <1>3, <2>1, <2>3 DEF EndsLate, GivenHasNode, Given
  <2> QED
    BY <2>2, <2>4 DEF Kept, Holds
<1> QED
  BY <1>2, <1>3

LEMMA FailedIsForgotten ==
  ASSUME RequestTypeOK, NEW w \in Work, NEW d \in Device, Holds(w, d), reserved[d] = w,
         work'[w].state = "processing", NEW D, FailWork(D), d \in D
  PROVE  w \notin mem
BY DEF FailWork, Lost, Holds, RequestTypeOK

LEMMA StepKeepsReservation ==
  ASSUME AccountTypeOK, KeyInv, OrderInv, ReservedConnected, GivenHasNode, AccountNext,
         NEW w \in Work, NEW d \in Device, Holds(w, d), reserved[d] = w,
         work'[w].state = "processing"
  PROVE  Kept(w)
<1>1. RequestTypeOK
  BY DEF AccountTypeOK
<1>2. ASSUME reserved'[d] = w PROVE Kept(w)
  BY <1>2 DEF Kept, Holds
<1>3. ASSUME UNCHANGED reserved PROVE Kept(w)
  BY <1>2, <1>3
<1>4. w # None /\ w \notin {Local, Plan, Stream, Session} /\ Plan \notin Work
  BY RequestConstants DEF Owner
<1>5. ASSUME NEW v \in Work, NEW e \in Candidates(v), Dispatch(v, e) PROVE Kept(w)
  <2>1. reserved'[d] = w
    BY <1>1, <1>4, <1>5 DEF Candidates, Dispatch, RequestTypeOK
  <2> QED
    BY <1>2, <2>1
<1>6. ASSUME PlaceNext PROVE Kept(w)
  BY <1>1, <1>3, <1>5, <1>6 DEF PlaceNext, RequestTypeOK
<1>7. ASSUME NEW v \in Work, SubmitStep(v) PROVE Kept(w)
  <2>1. ASSUME Place(v) PROVE Kept(w)
    BY <1>3, <1>5, <2>1 DEF Place
  <2> QED
    BY <1>3, <1>7, <2>1
    DEF SubmitStep, SubmitChat, RepeatChat, SubmitTalk, SubmitAsr, SubmitEmbed, SubmitOcr,
        SubmitTool, Submit
<1>8. ASSUME NEW v \in Work, CancelStep(v) \/ ChatHashed(v) PROVE Kept(w)
  <2>1. ASSUME NEW s, SetState(v, s), s # "processing" PROVE v # w
    BY <1>1, <2>1 DEF SetState, RequestTypeOK
  <2>2. ASSUME NEW k, Cancel(v, k) PROVE Kept(w)
    BY <1>1, <2>1, <2>2, SettledEndsLate DEF Cancel, Given
  <2>3. ASSUME ChatHashed(v) PROVE Kept(w)
    BY <1>1, <2>1, <2>3, SettledEndsLate DEF ChatHashed, Settle, Given
  <2> QED
    BY <1>8, <2>2, <2>3
    DEF CancelStep, CancelChat, CancelTalk, CancelAsr, CancelEmbed, CancelOcr, CancelTool
<1>9. ASSUME NEW e \in Device, AnswerStep(e) PROVE Kept(w)
  <2> DEFINE v == Head(wire[e]).of
  <2>1. ASSUME NEW k, Answer(e, k), Ignore \/ UNCHANGED reserved PROVE Kept(w)
    BY <1>3, <2>1 DEF Ignore
  <2>2. ASSUME NEW k, Answer(e, k), NEW s \in {"complete", "failed"}, Settle(v, s)
        PROVE  Kept(w)
    <3>1. v \in Work /\ Arrives(e, "result") /\ wire'[e] = Tail(wire[e])
      BY <1>1, <2>2 DEF Answer, Taken, RequestTypeOK
    <3>2. v # w
      BY <1>1, <2>2, <3>1 DEF Settle, SetState, RequestTypeOK
    <3>3. PICK x \in Work \ {w} : x = v
      BY <3>1, <3>2
    <3>4. AnswerTaken(x, e) /\ SetState(x, s) /\ Release(work[x].agent)
      BY <2>2, <3>1, <3>3 DEF AnswerTaken, Settle
    <3> HIDE DEF v
    <3> QED
      BY <1>1, <2>2, <3>4, SettledEndsLate
  <2>3. \A ok : (IF ok THEN "complete" ELSE "failed") \in {"complete", "failed"}
    OBVIOUS
  <2>4. CASE HandleChatResponse(e) \/ HandleChatError(e)
    BY <2>1, <2>2, <2>4 DEF HandleChatResponse, HandleChatError
  <2>5. ASSUME NEW k, LateAnswer(e, k) PROVE Kept(w)
    BY <2>1, <2>2, <2>3, <2>5 DEF LateAnswer, Outcome
  <2>6. CASE HandleToolAnswer(e)
    BY <2>2, <2>3, <2>6 DEF HandleToolAnswer, Outcome
  <2> QED
    BY <1>9, <2>4, <2>5, <2>6
    DEF AnswerStep, HandleTalkAnswer, HandleAsrAnswer, HandleEmbedAnswer, HandleOcrAnswer
<1>10. ASSUME NEW e \in Device, HandleAvailability(e) PROVE Kept(w)
  <2> DEFINE m == Head(wire[e])
  <2>1. CASE e # d \/ ~Reserves(e, m) \/ m.type = "busy"
    <3>1. reserved'[d] = w
      BY <1>1, <1>4, <1>10, <2>1 DEF HandleAvailability, Reserves, RequestTypeOK
    <3> QED
      BY <1>2, <3>1
  <2>2. CASE e = d /\ Reserves(e, m) /\ m.type # "busy"
    <3>1. wire[d] # <<>> /\ m.type = "online" /\ m.of = w
      BY <1>4, <1>10, <2>2 DEF HandleAvailability, Arrives, Reserves
    <3>2. wire[d] \in Seq(Message)
      BY <1>1 DEF RequestTypeOK
    <3>3. 1 \in DOMAIN wire[d] /\ wire[d][1] = m /\ \A i \in DOMAIN wire[d] : ~(i < 1)
      BY <2>2, <3>1, <3>2
    <3>4. AnsweredBefore(d, w, 1)
      BY <3>1, <3>3 DEF OrderInv, AnswerFirst, Ordered
    <3> QED
      BY <3>3, <3>4 DEF AnsweredBefore
  <2> QED
    BY <2>1, <2>2
<1>11. ASSUME NEW e \in Device, HandleAuth(e) \/ HandleClose(e) PROVE Kept(w)
  <2>1. CASE e # d
    <3>1. reserved'[d] = w
      BY <1>1, <1>11, <2>1 DEF HandleAuth, HandleClose, RequestTypeOK
    <3> QED
      BY <1>2, <3>1
  <2>2. CASE e = d
    <3>1. d \in connected
      BY <1>4 DEF ReservedConnected
    <3>2. \E D : FailWork(D) /\ d \in D
      BY <1>11, <2>2, <3>1 DEF HandleAuth, HandleClose
    <3>3. w \notin mem
      BY <1>1, <3>2, FailedIsForgotten
    <3>4. reserved'[d] = None \/ d \in linked' \ linked
      BY <1>1, <1>11, <2>2 DEF HandleAuth, HandleClose, RequestTypeOK
    <3> QED
      BY <3>3, <3>4 DEF Kept, Holds
  <2> QED
    BY <2>1, <2>2
<1>12. ASSUME NEW D, CleanupStale(D) PROVE Kept(w)
  <2>1. CASE d \in D
    <3>1. w \notin mem /\ reserved'[d] = None
      BY <1>1, <1>12, <2>1, FailedIsForgotten DEF CleanupStale
    <3> QED
      BY <3>1 DEF Kept, Holds
  <2>2. CASE d \notin D
    BY <1>2, <1>12, <2>2 DEF CleanupStale
  <2> QED
    BY <2>1, <2>2
<1>13. ASSUME Restarts PROVE Kept(w)
  <2>1. restarts' # restarts
    BY <1>1, <1>13, RequestConstants DEF Restarts, Restart, Counted, RequestTypeOK, SetupRecord
  <2>2. reserved'[d] = None
    BY <1>13 DEF Restarts, Restart
  <2> QED
    BY <2>1, <2>2 DEF Kept, Holds
<1>14. ASSUME NEW v \in Work, PollStep(v) PROVE Kept(w)
  BY <1>3, <1>14
  DEF PollStep, Poll, PollChat, PollTalk, PollAsr, PollEmbed, PollOcr, PollTool
<1>15. ASSUME NEW e \in Device,
              \/ HandleInventory(e) \/ \E p \in {"open", "closed", "revoked"} : SetPolicy(e, p)
              \/ Publish(e) \/ LocalStarts(e) \/ LocalEnds(e) \/ NodeDrop(e)
       PROVE  Kept(w)
  BY <1>3, <1>15
  DEF HandleInventory, SetPolicy, Publish, LocalStarts, LocalEnds, NodeDrop, relayVars
<1>16. ASSUME NEW t \in tasks, TaskStep(t) \/ HandleToolProgress(t) PROVE Kept(w)
  BY <1>3, <1>16
  DEF TaskStep, TaskStarts, TaskLeaves, ToolStops, Reports, ChatReports, TalkReports, AsrReports,
      EmbedReports, OcrReports, ToolReports, PlanReports, HandleToolProgress, relayVars
<1>17. ASSUME Hibernate PROVE Kept(w)
  BY <1>3, <1>17 DEF Hibernate
<1>18. ASSUME RequestStep PROVE Kept(w)
  BY <1>6, <1>7, <1>8, <1>9, <1>10, <1>11, <1>12, <1>14, <1>15, <1>16, <1>17, <1>18
  DEF RequestStep
<1>19. ASSUME PlanStep PROVE Kept(w)
  <2>1. ASSUME NEW lacking, NEW barred, ApplyPlan(lacking, barred) PROVE Kept(w)
    <3>1. Attempted(d, lacking, barred) # "applying"
      BY <1>4 DEF Attempted
    <3>2. reserved'[d] = w
      BY <2>1, <3>1 DEF ApplyPlan, Applied
    <3> QED
      BY <1>2, <3>2
  <2>2. ASSUME NEW e \in Device, HandlePlanResult(e) PROVE Kept(w)
    <3>1. reserved' = reserved \/ Release(e)
      BY <2>2 DEF HandlePlanResult, Ignore
    <3>2. CASE reserved' = reserved \/ e # d
      <4>1. reserved'[d] = w
        BY <3>1, <3>2 DEF Release
      <4> QED
        BY <1>2, <4>1
    <3>3. CASE Release(e) /\ e = d
      <4>1. reserved'[d] = None
        BY <1>4, <3>3 DEF Release, ReservedConnected
      <4>2. EndsLate(Plan, d)
        BY <1>1, <2>2, <3>3 DEF HandlePlanResult, EndsLate, AnswerTaken, Taken, RequestTypeOK
      <4> QED
        BY <4>1, <4>2 DEF Kept, Holds
    <3> QED
      BY <3>1, <3>2, <3>3
  <2> QED
    BY <1>3, <1>19, <2>1, <2>2 DEF PlanStep, CancelPlan, CreatePlan, requestVars, relayVars
<1>20. ASSUME StreamStep PROVE Kept(w)
  <2>1. ASSUME ReleaseStream PROVE Kept(w)
    BY <1>2, <1>4, <2>1 DEF ReleaseStream
  <2>2. ASSUME NEW e, reserved[e] = None, reserved' = [reserved EXCEPT ![e] = Stream]
        PROVE  Kept(w)
    BY <1>1, <1>2, <1>4, <2>2 DEF RequestTypeOK
  <2> QED
    BY <1>3, <1>20, <2>1, <2>2
    DEF StreamStep, CreateTicket, AcceptBrowser, StartStream, BrowserStops, BrowserCancels,
        BrowserErrs, BrowserCloses, ExpireStream, StreamReady, StreamEnd, EventArrives, NodeReady,
        NodeEnds, NodeLeaves, StopStream, FailBrowser, KeepRelay, relayVars
<1> QED
  BY <1>11, <1>13, <1>15, <1>18, <1>19, <1>20 DEF AccountNext, Closes, Drops

StaysReserved(w) ==
  work[w].state = "processing" /\ reserved[work[w].agent] = w /\ work'[w].state = "processing"
    => Kept(w)

(* No availability frame that crosses a placement, no cleanup and no       *)
(* other work's placement takes a node away from a request under way: its  *)
(* reservation goes with its own end, with a restart of the object or the  *)
(* loss of a node whose request the object has forgotten, or with the end  *)
(* of another piece of work that was given to that very node, or of its    *)
(* plan; and the node is free then, or has come back and is reserved for   *)
(* what it does (relay-agent-auth.ts, handleAvailabilityUpdate; relay-     *)
(* fleet.ts, failInProgressWork; relay-queue.ts, releaseAgent).            *)
THEOREM NodesStayReserved == AccountSpec => ReservationKept
<1>1. AccountTypeOK /\ KeyInv /\ OrderInv /\ ReservedConnected /\ GivenHasNode
        /\ [AccountNext]_accountVars => [\A w \in Work : StaysReserved(w)]_requestVars
  <2> SUFFICES ASSUME AccountTypeOK, KeyInv, OrderInv, ReservedConnected, GivenHasNode,
                      AccountNext, NEW w \in Work
               PROVE  StaysReserved(w)
    BY DEF accountVars, requestVars
  <2> SUFFICES ASSUME work[w].state = "processing", reserved[work[w].agent] = w,
                      work'[w].state = "processing"
               PROVE  Kept(w)
    BY DEF StaysReserved
  <2>1. PICK d \in Device : d = work[w].agent
    BY DEF GivenHasNode, Given
  <2> QED
    BY <2>1, StepKeepsReservation DEF Holds
<1> QED
  BY <1>1, AccountTypes, KeyIsKept, OrderIsKept, ReservedAreConnected, GivenHaveNodes, PTL
  DEF AccountSpec, ReservationKept, StaysReserved, Kept
=============================================================================
