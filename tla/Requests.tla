------------------------------ MODULE Requests ------------------------------
(***************************************************************************)
(* Chat, talk, asr, embed, ocr and tool requests of one account: their     *)
(* submission and cancellation (relay-api-*.ts), their placement           *)
(* (relay-queue.ts), the nodes' answers (relay-agent-*.ts), connection,    *)
(* availability, policy and loss of nodes (relay-agent-auth.ts,            *)
(* relay-websocket.ts, relay-fleet.ts, relay-lifecycle.ts), and the part   *)
(* of a node's agent (agent.rs) that runs them.  Unlike generation jobs    *)
(* they have no lease, are never placed twice, and a node sends their      *)
(* answer before it gives up its gate.                                     *)
(*                                                                         *)
(* A step is what the object does without yielding, as in JobDispatch; the *)
(* hash of a chat's answer is awaited between two steps.  Relay's messages *)
(* to a node arrive at once or never; what a node sends over one           *)
(* connection arrives in order, after any time, or not at all.             *)
(* The owners of reservations and gates are works, Plan, Stream and        *)
(* Session (see ModelPlans and SpeechStreams), and Local, another user of  *)
(* the device.                                                             *)
(* A definition Name_what is a mutant of Name.                             *)
(***************************************************************************)
EXTENDS Naturals, Sequences, FiniteSets

CONSTANTS
  Work,      \* requests, numbered in the order of created_at
  Device,
  CanRun,    \* the devices whose capabilities support each kind
  Setup,     \* the accounts to look at
  MaxWire,   \* bound: messages of a node under way when it publishes its gate
  None,
  Local,     \* a reservation local:<source>:<id>
  Plan,      \* the reservation of a model plan
  Stream,    \* the reservation of a live speech session
  Session    \* the owner of a node's gate in a live speech session

Kind == {"chat", "talk", "asr", "embed", "ocr", "tool"}

(* kind: what is submitted ("none": nothing); keyed: the chats submitted   *)
(* with the same idempotency key; nodes: the devices there are; shared:    *)
(* those others use too; managed: does the owner change policies?          *)
(* restarts: how often the object may restart; plan, stream: is there a    *)
(* model plan, a live speech session?                                      *)
SetupRecord ==
  [kind : [Work -> Kind \cup {"none"}], keyed : SUBSET Work, nodes : SUBSET Device,
   shared : SUBSET Device, managed : BOOLEAN, restarts : Nat, plan : BOOLEAN, stream : BOOLEAN]

Owner == Work \cup {Local, Plan, Stream, Session}

(* What a node's gate is taken for, and its messages speak of.             *)
NodeOwner == Owner \ {Stream}

ASSUME RequestConstants ==
  /\ Work \subseteq Nat
  /\ CanRun \in [Kind -> SUBSET Device]
  /\ Setup \subseteq SetupRecord
  /\ \A s \in Setup : \A w \in s.keyed : s.kind[w] = "chat"
  /\ MaxWire \in Nat
  /\ None \notin Owner \cup Device
  /\ {Local, Plan, Stream, Session} \cap Work = {}
  /\ Local # Plan /\ Stream # Session /\ {Local, Plan} \cap {Stream, Session} = {}

VARIABLES
  setup,      \* the account, one of Setup
  work,       \* the record of each request
  mem,        \* requests the object has in its maps
  keyed,      \* the chat the idempotency record names
  connected,  \* devices with an attached, not superseded socket
  reserved,   \* current_job_id in each device's attachment
  policy,     \* each device's policy; "unknown" before it first connects
  todo,       \* what is left of the running assignQueuedWork
  restarts,   \* restarts of the object so far
  linked,     \* devices whose agent believes it has a connection
  tasks,      \* request tasks of the nodes
  gate,       \* owner of each node's work gate
  last,       \* last_current_job_id of each availability publisher
  dirty,      \* has the gate changed since the publisher looked?
  wire        \* what each node has sent and Relay not handled

relayVars == <<work, mem, keyed, connected, reserved, policy, todo, restarts>>
nodeVars == <<linked, tasks, gate, last, dirty, wire>>
requestVars == <<setup, relayVars, nodeVars>>

State == {"new", "queued", "processing", "claimed", "complete", "failed", "cancelled",
          "refused", "repeated"}
Task == [dev : Device, work : Work \cup {Plan}, n : Nat,
         at : {"waits", "runs", "stopped", "reported"}]
Message == [type : {"result", "busy", "online", "ready", "end"}, of : NodeOwner \cup {None},
            n : Nat, ok : BOOLEAN]

RequestInit ==
  /\ setup \in Setup
  /\ work = [w \in Work |-> [state |-> "new", agent |-> None]]
  /\ mem = {} /\ keyed = None
  /\ connected = {} /\ linked = {} /\ dirty = {}
  /\ reserved = [d \in Device |-> None]
  /\ policy = [d \in Device |-> "unknown"]
  /\ todo = {} /\ restarts = 0
  /\ tasks = {}
  /\ gate = [d \in Device |-> None]
  /\ last = [d \in Device |-> None]
  /\ wire = [d \in Device |-> <<>>]

-----------------------------------------------------------------------------
(* Helpers of the handlers                                                 *)

kind == setup.kind

(* No handler runs while the placement loop is busy.                       *)
Quiet == todo = {}

Queued == {w \in mem : work[w].state = "queued"}

AssignQueued == todo' = {w \in mem' : work'[w].state = "queued"}

SetState(w, s) == work' = [work EXCEPT ![w].state = s]

(* agentCanAcceptWork.                                                     *)
Accepting(d) == policy[d] = "open"

Candidates(w) ==
  {d \in CanRun[kind[w]] \cap connected : reserved[d] = None /\ Accepting(d)}

(* finishSubmission when the request was not placed.                       *)
Refused(w) == \A d \in CanRun[kind[w]] \cap connected : ~Accepting(d)

(* releaseAgent and the release in sendCancelToAgent: whatever the device  *)
(* was reserved for.                                                       *)
Release(d) ==
  reserved' = [e \in Device |-> IF e = d /\ e \in connected THEN None ELSE reserved[e]]

(* failInProgressWork for the devices D: what each is reserved for, if it  *)
(* is in memory, under way and theirs.                                     *)
Lost(D) ==
  {w \in mem : work[w].state = "processing" /\ work[w].agent \in D
               /\ reserved[work[w].agent] = w}

FailWork(D) ==
  /\ work' = [w \in Work |-> IF w \in Lost(D) THEN [work[w] EXCEPT !.state = "failed"]
                             ELSE work[w]]
  /\ mem' = mem \ Lost(D)

(* A node sends; on a socket Relay does not know, or any more, for nothing. *)
Sent(d, m) ==
  IF d \in linked \cap connected THEN [wire EXCEPT ![d] = Append(@, m)] ELSE wire

Arrives(d, type) == d \in connected /\ wire[d] # <<>> /\ Head(wire[d]).type = type

Taken(d) == wire' = [wire EXCEPT ![d] = Tail(@)]

-----------------------------------------------------------------------------
(* Placement                                                               *)

(* send...ToAgent: the message goes out, then request and reservation are  *)
(* written.                                                                *)
Dispatch(w, d) ==
  /\ work' = [work EXCEPT ![w] = [state |-> "processing", agent |-> d]]
  /\ mem' = mem \cup {w}
  /\ reserved' = [reserved EXCEPT ![d] = w]
  /\ tasks' = IF d \in linked
              THEN tasks \cup {[dev |-> d, work |-> w, n |-> 0, at |-> "waits"]} ELSE tasks

(* One round of assignQueuedWork's loop, oldest first.                     *)
PlaceNext ==
  \E w \in todo :
    /\ \A v \in todo : w <= v
    /\ todo' = todo \ {w}
    /\ \/ /\ w \notin mem \/ Candidates(w) = {}
          /\ UNCHANGED <<work, mem, reserved, tasks>>
       \/ /\ w \in mem
          /\ \E d \in Candidates(w) : Dispatch(w, d)
    /\ UNCHANGED <<setup, keyed, connected, policy, restarts, linked, gate, last, dirty, wire>>

(* finishSubmission: placed, refused or queued.                            *)
Place(w) ==
  \/ \E d \in Candidates(w) : Dispatch(w, d)
  \/ /\ Candidates(w) = {}
     /\ SetState(w, IF Refused(w) THEN "refused" ELSE "queued")
     /\ mem' = IF Refused(w) THEN mem ELSE mem \cup {w}
     /\ UNCHANGED <<reserved, tasks>>

Submitted(w) ==
  /\ Quiet
  /\ kind[w] # "none" /\ work[w].state = "new"
  /\ \A v \in Work : v < w => work[v].state # "new" \/ kind[v] = "none"
  /\ UNCHANGED <<setup, connected, policy, todo, restarts, linked, gate, last, dirty, wire>>

(* The record of a refused chat is deleted, its idempotency record stays.  *)
KnownKey(w) == w \in setup.keyed /\ keyed # None /\ work[keyed].state # "refused"

SubmitChat_noKey(w) ==
  /\ kind[w] = "chat" /\ Submitted(w)
  /\ keyed' = IF w \in setup.keyed THEN w ELSE keyed
  /\ Place(w)

SubmitChat(w) ==
  /\ kind[w] = "chat" /\ Submitted(w) /\ ~KnownKey(w)
  /\ keyed' = IF w \in setup.keyed THEN w ELSE keyed
  /\ Place(w)

(* The same chat again: the answer names the first one.                    *)
RepeatChat(w) ==
  /\ kind[w] = "chat" /\ Submitted(w) /\ KnownKey(w)
  /\ SetState(w, "repeated")
  /\ mem' = mem \cup ({keyed} \cap {v \in Work : work[v].state \in {"queued", "processing"}})
  /\ UNCHANGED <<keyed, reserved, tasks>>

Submit(w, k) == kind[w] = k /\ Submitted(w) /\ Place(w) /\ UNCHANGED keyed

SubmitTalk(w) == Submit(w, "talk")
SubmitAsr(w) == Submit(w, "asr")
SubmitEmbed(w) == Submit(w, "embed")
SubmitOcr(w) == Submit(w, "ocr")
SubmitTool(w) == Submit(w, "tool")

-----------------------------------------------------------------------------
(* The owner: reads, which load a request into memory, and cancel.         *)

Poll(w, k) ==
  /\ Quiet
  /\ kind[w] = k /\ work[w].state \in {"queued", "processing"}
  /\ mem' = mem \cup {w}
  /\ UNCHANGED <<setup, work, keyed, connected, reserved, policy, todo, restarts, nodeVars>>

PollChat(w) == Poll(w, "chat")
PollTalk(w) == Poll(w, "talk")
PollAsr(w) == Poll(w, "asr")
PollEmbed(w) == Poll(w, "embed")
PollOcr(w) == Poll(w, "ocr")
PollTool(w) == Poll(w, "tool")

(* cancelWork, with the cancel message's effect on the node.  Only a tool  *)
(* at work is silenced by it: a request that waits for the gate is run all *)
(* the same or fails at its turn, an embed cannot be stopped.              *)
Stopped(w) ==
  {IF t.work = w /\ kind[w] = "tool" /\ t.at = "runs" /\ t.dev \in linked \cap connected
   THEN [t EXCEPT !.at = "stopped"] ELSE t : t \in tasks}

Cancel(w, k) ==
  /\ Quiet
  /\ kind[w] = k /\ work[w].state \in {"queued", "processing"}
  /\ SetState(w, "cancelled")
  /\ mem' = mem \ {w}
  /\ Release(work[w].agent)
  /\ tasks' = Stopped(w)
  /\ AssignQueued
  /\ UNCHANGED <<setup, keyed, connected, policy, restarts, linked, gate, last, dirty, wire>>

CancelChat(w) == Cancel(w, "chat")
CancelTalk(w) == Cancel(w, "talk")
CancelAsr(w) == Cancel(w, "asr")
CancelEmbed(w) == Cancel(w, "embed")
CancelOcr(w) == Cancel(w, "ocr")
CancelTool(w) == Cancel(w, "tool")

-----------------------------------------------------------------------------
(* Answers of nodes                                                        *)

(* finishTerminalWork.                                                     *)
Settle(w, s) ==
  /\ SetState(w, s)
  /\ mem' = mem \ {w}
  /\ Release(work[w].agent)
  /\ AssignQueued

Ignore == UNCHANGED <<work, mem, reserved, todo>>

Answer(d, k) ==
  /\ Quiet /\ Arrives(d, "result")
  /\ Head(wire[d]).of \in {w \in Work : kind[w] = k}
  /\ Taken(d)
  /\ UNCHANGED <<setup, keyed, connected, policy, restarts, linked, tasks, gate, last, dirty>>

Outcome(m) == IF m.ok THEN "complete" ELSE "failed"

(* A chat is believed to be answered by the node it was given to, once.    *)
Believed(d, w) == work[w].state = "processing" /\ work[w].agent = d

(* The answer is claimed in memory, then hashed.                           *)
HandleChatResponse(d) ==
  LET w == Head(wire[d]).of IN
  /\ Answer(d, "chat") /\ Head(wire[d]).ok
  /\ IF Believed(d, w)
     THEN SetState(w, "claimed") /\ mem' = mem \cup {w} /\ UNCHANGED <<reserved, todo>>
     ELSE Ignore

ChatHashed(w) ==
  /\ Quiet
  /\ work[w].state = "claimed"
  /\ Settle(w, "complete")
  /\ UNCHANGED <<setup, keyed, connected, policy, restarts, nodeVars>>

HandleChatError(d) ==
  LET w == Head(wire[d]).of IN
  /\ Answer(d, "chat") /\ ~Head(wire[d]).ok
  /\ IF Believed(d, w) THEN Settle(w, "failed") ELSE Ignore

(* Of talk, asr, embed and ocr only a cancelled request is protected.      *)
Late(w) == work[w].state = "cancelled"

LateAnswer_none(d, k) ==
  LET w == Head(wire[d]).of IN
  Answer(d, k) /\ Settle(w, Outcome(Head(wire[d])))

LateAnswer(d, k) ==
  LET w == Head(wire[d]).of IN
  /\ Answer(d, k)
  /\ IF Late(w) THEN Ignore ELSE Settle(w, Outcome(Head(wire[d])))

HandleTalkAnswer(d) == LateAnswer(d, "talk")
HandleAsrAnswer(d) == LateAnswer(d, "asr")
HandleEmbedAnswer(d) == LateAnswer(d, "embed")
HandleOcrAnswer(d) == LateAnswer(d, "ocr")

(* A tool's answer is taken whatever has become of the request.            *)
HandleToolAnswer(d) ==
  /\ Answer(d, "tool")
  /\ Settle(Head(wire[d]).of, Outcome(Head(wire[d])))

(* A tool's progress loads the tool into memory, and no more.              *)
HandleToolProgress(t) ==
  /\ Quiet
  /\ t.at \in {"runs", "stopped"} /\ t.work \in Work /\ kind[t.work] = "tool"
  /\ t.dev \in linked \cap connected
  /\ work[t.work].state \in {"queued", "processing"}
  /\ mem' = mem \cup {t.work}
  /\ UNCHANGED <<setup, work, keyed, connected, reserved, policy, todo, restarts, nodeVars>>

-----------------------------------------------------------------------------
(* Connection, availability, policy                                        *)

(* handleAvailabilityUpdate: a frame replaces or clears only the           *)
(* reservation it names.                                                   *)
Reserves_any(d, m) == TRUE

Reserves(d, m) == reserved[d] \in {None, m.of}

HandleAvailability(d) ==
  LET m == Head(wire[d]) IN
  /\ Quiet
  /\ Arrives(d, "busy") \/ Arrives(d, "online")
  /\ Taken(d)
  /\ UNCHANGED <<work, mem>>
  /\ IF ~Reserves(d, m) THEN UNCHANGED <<reserved, todo>>
     ELSE IF m.type = "busy"
     THEN reserved' = [reserved EXCEPT ![d] = m.of] /\ UNCHANGED todo
     ELSE reserved' = [reserved EXCEPT ![d] = None] /\ AssignQueued
  /\ UNCHANGED <<setup, keyed, connected, policy, restarts, linked, tasks, gate, last, dirty>>

(* handleInventoryUpdate tries the queue.                                  *)
HandleInventory(d) ==
  /\ Quiet
  /\ d \in linked \cap connected
  /\ UNCHANGED <<work, mem>>
  /\ AssignQueued
  /\ UNCHANGED <<setup, keyed, connected, reserved, policy, restarts, nodeVars>>

(* handleAuth: a socket the device still has is superseded and its work    *)
(* fails.  A node that comes back busy does not have the queue tried.      *)
(* connect_and_serve returns only when detached tasks have ended.          *)
HandleAuth(d) ==
  /\ Quiet
  /\ d \in setup.nodes \ linked
  /\ gate[d] # Session /\ \A t \in tasks : t.dev # d
  /\ FailWork({d} \cap connected)
  /\ wire' = [wire EXCEPT ![d] = <<>>]
  /\ IF policy[d] = "revoked"
     THEN /\ connected' = connected \ {d}
          /\ reserved' = [reserved EXCEPT ![d] = None]
          /\ UNCHANGED <<policy, todo, linked>>
     ELSE /\ connected' = connected \cup {d}
          /\ linked' = linked \cup {d}
          /\ reserved' = [reserved EXCEPT ![d] = gate[d]]
          /\ policy' = [policy EXCEPT ![d] = IF @ = "unknown" THEN "open" ELSE @]
          /\ IF gate[d] = None THEN AssignQueued ELSE UNCHANGED todo
  /\ UNCHANGED <<setup, keyed, restarts, tasks, gate, last, dirty>>

(* updateFleetNodePolicy; "closed": disabled or draining.  The work of a   *)
(* revoked node fails at once, its socket is closed later.                 *)
SetPolicy(d, p) ==
  /\ Quiet
  /\ setup.managed
  /\ policy[d] \notin {"unknown", p}
  /\ policy' = [policy EXCEPT ![d] = p]
  /\ FailWork(IF p = "revoked" THEN {d} \cap connected ELSE {})
  /\ AssignQueued
  /\ UNCHANGED <<setup, keyed, connected, reserved, restarts, nodeVars>>

(* handleRelayWebSocketClose.                                              *)
HandleClose(d) ==
  /\ Quiet
  /\ d \in connected \ linked
  /\ FailWork({d})
  /\ connected' = connected \ {d}
  /\ reserved' = [reserved EXCEPT ![d] = None]
  /\ wire' = [wire EXCEPT ![d] = <<>>]
  /\ AssignQueued
  /\ UNCHANGED <<setup, keyed, policy, restarts, linked, tasks, gate, last, dirty>>

(* GET /status: busy agents without a ping for two minutes lose their work *)
(* but keep their sockets.                                                 *)
CleanupStale(D) ==
  /\ Quiet
  /\ D # {} /\ \A d \in D : d \in connected /\ reserved[d] # None
  /\ FailWork(D)
  /\ reserved' = [d \in Device |-> IF d \in D THEN None ELSE reserved[d]]
  /\ AssignQueued
  /\ UNCHANGED <<setup, keyed, connected, policy, restarts, nodeVars>>

(* The object leaves memory: between events, keeping sockets and           *)
(* attachments (hibernation), or at any time and without them (restart).   *)
Counted == restarts < setup.restarts /\ restarts' = restarts + 1

Hibernate ==
  /\ Quiet /\ Counted
  /\ \A w \in Work : work[w].state # "claimed"
  /\ mem' = {}
  /\ UNCHANGED <<setup, work, keyed, connected, reserved, policy, todo, nodeVars>>

Restart ==
  /\ Counted
  /\ mem' = {} /\ connected' = {} /\ todo' = {}
  /\ work' = [w \in Work |-> IF work[w].state = "claimed"
                             THEN [work[w] EXCEPT !.state = "processing"] ELSE work[w]]
  /\ reserved' = [d \in Device |-> None]
  /\ wire' = [d \in Device |-> <<>>]
  /\ UNCHANGED <<setup, keyed, policy, linked, tasks, gate, last, dirty>>

-----------------------------------------------------------------------------
(* Nodes (agent.rs)                                                        *)

GateChanged(d) == dirty' = dirty \cup ({d} \cap linked)

(* The availability publisher looks at the gate and sends what it sees.    *)
Publish(d) ==
  LET id == IF gate[d] # None THEN gate[d] ELSE last[d] IN
  /\ d \in linked \cap dirty /\ Len(wire[d]) < MaxWire
  /\ dirty' = dirty \ {d}
  /\ last' = [last EXCEPT ![d] = id]
  /\ wire' = Sent(d, [type |-> IF gate[d] # None THEN "busy" ELSE "online",
                      of |-> id, n |-> 0, ok |-> TRUE])
  /\ UNCHANGED <<setup, relayVars, linked, tasks, gate>>

(* connect_and_serve ends, for whatever reason: its request tasks and its  *)
(* publisher end with it; a plan, a session and another user of the gate   *)
(* do not.                                                                 *)
NodeDrop(d) ==
  /\ d \in linked
  /\ linked' = linked \ {d}
  /\ tasks' = {t \in tasks : t.dev # d \/ t.work = Plan}
  /\ gate' = [gate EXCEPT ![d] = IF @ \in {Local, Plan, Session} THEN @ ELSE None]
  /\ last' = [last EXCEPT ![d] = None]
  /\ dirty' = dirty \ {d}
  /\ UNCHANGED <<setup, relayVars, wire>>

Moved(t, at) == tasks' = (tasks \ {t}) \cup {[t EXCEPT !.at = at]}

TaskStarts(t) ==
  /\ t.at = "waits" /\ gate[t.dev] = None
  /\ gate' = [gate EXCEPT ![t.dev] = t.work]
  /\ GateChanged(t.dev)
  /\ Moved(t, "runs")
  /\ UNCHANGED <<setup, relayVars, linked, last, wire>>

(* The answer goes out before the gate is given up.                        *)
Reports(t) ==
  /\ Moved(t, "reported")
  /\ \E ok \in BOOLEAN :
       wire' = Sent(t.dev, [type |-> "result", of |-> t.work, n |-> t.n, ok |-> ok])
  /\ UNCHANGED <<setup, relayVars, linked, gate, last, dirty>>

Runs(t, k) == t.at = "runs" /\ t.work \in Work /\ kind[t.work] = k

ChatReports(t) == Runs(t, "chat") /\ Reports(t)
TalkReports(t) == Runs(t, "talk") /\ Reports(t)
AsrReports(t) == Runs(t, "asr") /\ Reports(t)
EmbedReports(t) == Runs(t, "embed") /\ Reports(t)
OcrReports(t) == Runs(t, "ocr") /\ Reports(t)
ToolReports(t) == Runs(t, "tool") /\ Reports(t)
PlanReports(t) == t.at = "runs" /\ t.work = Plan /\ Reports(t)

(* A tool that was cancelled in time sends nothing, or what it had ready.  *)
ToolStops(t) ==
  /\ t.at = "stopped"
  /\ \/ /\ Moved(t, "reported")
        /\ UNCHANGED <<setup, relayVars, linked, gate, last, dirty, wire>>
     \/ Reports(t)

TaskLeaves(t) ==
  /\ t.at = "reported"
  /\ tasks' = tasks \ {t}
  /\ gate' = [gate EXCEPT ![t.dev] = None]
  /\ GateChanged(t.dev)
  /\ UNCHANGED <<setup, relayVars, linked, last, wire>>

LocalStarts(d) ==
  /\ d \in setup.shared /\ gate[d] = None
  /\ gate' = [gate EXCEPT ![d] = Local]
  /\ GateChanged(d)
  /\ UNCHANGED <<setup, relayVars, linked, tasks, last, wire>>

LocalEnds(d) ==
  /\ gate[d] = Local
  /\ gate' = [gate EXCEPT ![d] = None]
  /\ GateChanged(d)
  /\ UNCHANGED <<setup, relayVars, linked, tasks, last, wire>>

-----------------------------------------------------------------------------
SubmitStep(w) ==
  \/ SubmitChat(w) \/ RepeatChat(w) \/ SubmitTalk(w) \/ SubmitAsr(w) \/ SubmitEmbed(w)
  \/ SubmitOcr(w) \/ SubmitTool(w)

CancelStep(w) ==
  \/ CancelChat(w) \/ CancelTalk(w) \/ CancelAsr(w) \/ CancelEmbed(w) \/ CancelOcr(w)
  \/ CancelTool(w)

AnswerStep(d) ==
  \/ HandleChatResponse(d) \/ HandleChatError(d) \/ HandleTalkAnswer(d) \/ HandleAsrAnswer(d)
  \/ HandleEmbedAnswer(d) \/ HandleOcrAnswer(d) \/ HandleToolAnswer(d)

PollStep(w) ==
  \/ PollChat(w) \/ PollTalk(w) \/ PollAsr(w) \/ PollEmbed(w) \/ PollOcr(w) \/ PollTool(w)

TaskStep(t) ==
  \/ TaskStarts(t) \/ TaskLeaves(t) \/ ToolStops(t)
  \/ ChatReports(t) \/ TalkReports(t) \/ AsrReports(t) \/ EmbedReports(t) \/ OcrReports(t)
  \/ ToolReports(t) \/ PlanReports(t)

(* What leaves plans and sessions alone.                                   *)
RequestStep ==
  \/ PlaceNext \/ Hibernate
  \/ \E w \in Work : SubmitStep(w) \/ PollStep(w) \/ CancelStep(w) \/ ChatHashed(w)
  \/ \E d \in Device :
       \/ AnswerStep(d) \/ HandleAvailability(d) \/ HandleInventory(d) \/ HandleAuth(d)
       \/ \E p \in {"open", "closed", "revoked"} : SetPolicy(d, p)
       \/ Publish(d) \/ LocalStarts(d) \/ LocalEnds(d)
  \/ \E t \in tasks : TaskStep(t) \/ HandleToolProgress(t)
  \/ \E D \in SUBSET Device : CleanupStale(D)

RequestNext ==
  \/ RequestStep \/ Restart
  \/ \E d \in Device : HandleClose(d) \/ NodeDrop(d)

RequestSpec == RequestInit /\ [][RequestNext]_requestVars

-----------------------------------------------------------------------------
RequestTypeOK ==
  /\ setup \in Setup
  /\ work \in [Work -> [state : State, agent : Device \cup {None}]]
  /\ mem \subseteq Work /\ todo \subseteq Work
  /\ keyed \in Work \cup {None}
  /\ connected \subseteq Device /\ linked \subseteq Device /\ dirty \subseteq Device
  /\ reserved \in [Device -> Owner \cup {None}]
  /\ policy \in [Device -> {"unknown", "open", "closed", "revoked"}]
  /\ restarts \in 0 .. setup.restarts
  /\ tasks \subseteq Task
  /\ gate \in [Device -> NodeOwner \cup {None}]
  /\ last \in [Device -> NodeOwner \cup {None}]
  /\ wire \in [Device -> Seq(Message)]

(* Whatever nodes, owner and object do, and in whatever order: a complete  *)
(* request stays complete, a cancelled one stays cancelled unless it is a  *)
(* tool, and no outcome of a chat is ever replaced.                        *)
OutcomeFinal ==
  [][\A w \in Work :
       /\ work[w].state = "complete" => work'[w].state = "complete"
       /\ work[w].state = "cancelled" /\ kind[w] # "tool" => work'[w].state = "cancelled"
       /\ work[w].state \in {"failed", "refused"} /\ kind[w] = "chat"
            => work'[w].state = work[w].state]_requestVars

(* Work of node d ends in this step: a request given to it ends or is      *)
(* answered after its end, or the result of the plan is taken.             *)
AnswerTaken(v, d) == Arrives(d, "result") /\ Head(wire[d]).of = v /\ wire'[d] = Tail(wire[d])

EndsLate(v, d) ==
  \/ v = Plan /\ AnswerTaken(v, d)
  \/ /\ v \in Work /\ work[v].agent = d
     /\ work'[v].state \in {"complete", "failed", "cancelled"}
     /\ work[v].state \in {"processing", "claimed"} \/ \E e \in Device : AnswerTaken(v, e)

(* A request under way keeps the node it was given to, and nothing else is *)
(* placed there: its reservation goes only with its own end, with the      *)
(* object, with the connection once the object has forgotten the request   *)
(* (which then stays under way; a node that comes back is reserved for     *)
(* what it does), or with the late end of other work of that very node     *)
(* (releaseAgent does not look at what the node is reserved for), and but  *)
(* for that node which comes back it is free then.  In particular no       *)
(* availability frame that crosses a placement frees the node (relay-      *)
(* agent-auth.ts 33-61), and only what is reserved is failed when a node   *)
(* is lost.                                                                *)
ReservationKept ==
  [][\A w \in Work :
       LET d == work[w].agent IN
       work[w].state = "processing" /\ reserved[d] = w /\ work'[w].state = "processing" =>
         \/ reserved'[d] = w
         \/ w \notin mem /\ d \in linked' \ linked
         \/ /\ reserved'[d] = None
            /\ \/ restarts' # restarts \/ w \notin mem
               \/ \E v \in (Work \ {w}) \cup {Plan} : EndsLate(v, d)]_requestVars

(* An idempotency key names at most one chat that was taken.               *)
OneChatPerKey ==
  \A v, w \in setup.keyed : v # w =>
    work[v].state \in {"new", "refused", "repeated"} \/ work[w].state \in {"new", "refused", "repeated"}
=============================================================================
