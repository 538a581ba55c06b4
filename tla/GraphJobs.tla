------------------------------ MODULE GraphJobs ------------------------------
(***************************************************************************)
(* The life of one graph job in its owner's Durable Object: submission,    *)
(* commit, placement, reports, cancel and retry (relay-api-graph.ts,       *)
(* relay-queue.ts), local custody (relay-graph-custody*.ts), loss of nodes *)
(* (relay-lifecycle.ts) and maintenance (relay-graph-operations.ts), with  *)
(* the tasks of the nodes that run it (agent.rs, graph.rs).                *)
(*                                                                         *)
(* R2 requests suspend a handler and let others run; storage operations do *)
(* not (input gates), nor do digests.  A suspended handler goes on with    *)
(* the JavaScript object it held, which need not be the one ctx.graphJobs  *)
(* holds by then: objects are cells of heap, and cur names the one in the  *)
(* map.  A handler that only suspends to read a request's body and then    *)
(* looks again is one step.                                                *)
(*                                                                         *)
(* node_token is a number, drawn anew for every dispatch (the code draws a *)
(* UUID); the token a job is created with is 0 and nobody learns it.       *)
(* Nodes echo the token of their request in every message.  'running'      *)
(* stands for 'preflighting' too.                                          *)
(* A definition Name_what is a mutant of Name.                             *)
(***************************************************************************)
EXTENDS Naturals, FiniteSets

CONSTANTS
  Device,       \* devices whose nodes pass the capability check
  Slot,         \* bound: handlers that are suspended at once
  MaxAttempts,  \* max_attempts of a job under local custody
  MaxTokens,    \* bound: dispatches
  MaxCreates,   \* bound: submissions suspended at once
  None

ASSUME GraphConstants ==
  /\ IsFiniteSet(Slot)
  /\ MaxAttempts \in Nat \ {0}
  /\ MaxTokens \in Nat
  /\ MaxCreates \in Nat
  /\ None \notin Device

VARIABLES
  custody,   \* was the job submitted with data_policy local-custody.v1?
  heap,      \* the job objects handlers and the map refer to
  cur,       \* the object in ctx.graphJobs, or 0
  disk,      \* storage: graph:<job_id>
  handler,   \* suspended handlers
  issued,    \* tokens drawn so far
  link,      \* sockets: up, half (the node is gone, Relay does not know), down
  reserved,  \* devices whose current_job_id is this job
  tasks,     \* graph tasks of the nodes
  wire       \* graph_result and graph_error messages on their way

relayVars == <<heap, cur, disk, handler, issued, reserved>>
nodeVars == <<link, tasks, wire>>
graphVars == <<custody, relayVars, nodeVars>>

Terminal == {"finished", "failed", "cancelled"}
Active == {"assigned", "running"}
State == {"absent", "planned", "queued"} \cup Active \cup Terminal

Token == 0 .. MaxTokens
Ref == 1 .. Cardinality(Slot) + 1

Object ==
  [state : State, agent : Device \cup {None}, token : Token, attempt : 0 .. MaxTokens,
   redacted : BOOLEAN, delivered : BOOLEAN]

Blank == [state |-> "absent", agent |-> None, token |-> 0, attempt |-> 0,
          redacted |-> FALSE, delivered |-> FALSE]

Ops == {"idle", "create", "upload", "commit", "dispatch", "verify", "publish", "manifest",
        "sweep", "loop"}

Suspended == [op : Ops, ref : Ref \cup {0}, dev : Device \cup {None}, token : Token]

Idle == [op |-> "idle", ref |-> 0, dev |-> None, token |-> 0]

Hold(op, r) == [op |-> op, ref |-> r, dev |-> None, token |-> 0]

Phases == {"fetch", "loaded", "run"}
Task == [dev : Device, token : Token, up : BOOLEAN, phase : Phases]
Message == [dev : Device, token : Token, ok : BOOLEAN]

Init ==
  /\ custody \in BOOLEAN
  /\ heap = [r \in Ref |-> Blank]
  /\ cur = 0
  /\ disk = Blank
  /\ handler = [s \in Slot |-> Idle]
  /\ issued = 0
  /\ link = [d \in Device |-> "down"]
  /\ reserved = {}
  /\ tasks = {}
  /\ wire = {}

-----------------------------------------------------------------------------
(* Memory and storage                                                      *)

Held(hs) == {hs[s].ref : s \in Slot}

(* What memory is after a step: objects nothing refers to are gone.        *)
Memory(h, c, hs) ==
  /\ heap' = [r \in Ref |-> IF r = c \/ r \in Held(hs) THEN h[r] ELSE Blank]
  /\ cur' = c
  /\ handler' = hs

(* getGraphJob: the object in the map, or a copy of the stored one, which  *)
(* enters the map unless it is terminal.                                   *)
Current == IF cur # 0 THEN heap[cur] ELSE disk

At == IF cur # 0 THEN cur ELSE CHOOSE r \in Ref : r \notin Held(handler)

Got == [heap EXCEPT ![At] = Current]

Kept == IF cur # 0 THEN cur ELSE IF disk.state \in Terminal \cup {"absent"} THEN 0 ELSE At

(* prepareGraphForStorage, which changes the live object too.              *)
Stored(o) ==
  IF custody /\ o.state \in Terminal THEN [o EXCEPT !.redacted = TRUE] ELSE o

(* saveGraphJob of the object r, whose fields are now o.                   *)
SaveAt(h, r, o, hs) ==
  /\ Memory([h EXCEPT ![r] = Stored(o)], r, hs)
  /\ disk' = Stored(o)

Save(o, hs) == SaveAt(Got, At, o, hs)

(* saveGraphJob, then ctx.graphJobs.delete.                                *)
SaveAndEvict(h, r, o, hs) ==
  /\ Memory([h EXCEPT ![r] = Stored(o)], 0, hs)
  /\ disk' = Stored(o)

(* A handler that only looks.                                              *)
Look(hs) ==
  /\ Memory(Got, Kept, hs)
  /\ UNCHANGED disk

Free == {s \in Slot : handler[s] = Idle}

Suspend(s, x) == [handler EXCEPT ![s] = x]

Done(s) == [handler EXCEPT ![s] = Idle]

Release(d) == reserved' = reserved \ {d}

-----------------------------------------------------------------------------
(* Placement                                                               *)

MaxAttempt == IF custody THEN MaxAttempts ELSE 1

(* getOnlineAgent: a device that is online, idle and passes the checks; a  *)
(* job under custody that waits for its payload passes none.               *)
Candidates(o) ==
  {d \in Device : /\ link[d] # "down" /\ d \notin reserved
                  /\ ~(custody /\ o.redacted /\ o.state \in {"planned", "queued"})}

Placed_countedTwice(o, d) ==
  [o EXCEPT !.state = "assigned", !.agent = d, !.attempt = o.attempt + 2]

Placed(o, d) ==
  [o EXCEPT !.state = "assigned", !.agent = d, !.attempt = o.attempt + 1]

(* The node runs a job id once at a time: a second request is only logged. *)
Request(d, t) ==
  tasks' = IF link[d] = "up" /\ ~\E w \in tasks : w.dev = d /\ w.up
           THEN tasks \cup {[dev |-> d, token |-> t, up |-> TRUE, phase |-> "fetch"]}
           ELSE tasks

(* The end of sendGraphToAgent: the message names the token the object has *)
(* by now.                                                                 *)
Send(h, r, d, hs) ==
  /\ SaveAt(h, r, Placed(h[r], d), hs)
  /\ reserved' = reserved \cup {d}
  /\ Request(d, h[r].token)

(* node_token: crypto.randomUUID().                                        *)
NewToken_kept == 1

NewToken == issued + 1

(* assignGraphToAgent for the object r, when memory and storage are h, c,  *)
(* hs and o: nobody can take it now, or it draws a token and goes on to    *)
(* the bundle: for a portable job that suspends, for one under custody it  *)
(* throws if the payload is gone.                                          *)
Assign(h, c, hs, r, o) ==
  \/ /\ Memory(h, c, hs)
     /\ disk' = o
     /\ UNCHANGED <<issued, reserved, tasks>>
  \/ \E d \in Candidates(h[r]) :
       LET n == [h EXCEPT ![r].token = NewToken]
       IN /\ issued < MaxTokens
          /\ issued' = NewToken
          /\ \/ custody /\ ~h[r].redacted /\ Send(n, r, d, hs)
             \/ custody /\ h[r].redacted
                /\ Memory(n, c, hs) /\ disk' = o /\ UNCHANGED <<reserved, tasks>>
             \/ ~custody /\ disk' = o /\ UNCHANGED <<reserved, tasks>>
                /\ \E s \in {t \in Slot : hs[t] = Idle} :
                     Memory(n, c, [hs EXCEPT ![s] = [Hold("dispatch", r) EXCEPT !.dev = d]])

SaveAndAssign(o, hs) ==
  Assign([Got EXCEPT ![At] = Stored(o)], At, hs, At, Stored(o))

(* materializeRelayBundle is done; a send on a closed socket throws.       *)
Dispatch(s) ==
  LET x == handler[s]
  IN /\ x.op = "dispatch"
     /\ \/ x.dev # None /\ Send(heap, x.ref, x.dev, Done(s))
        \/ x.dev = None
           /\ Memory(heap, cur, Done(s)) /\ UNCHANGED <<disk, reserved, tasks>>
     /\ UNCHANGED <<custody, issued, link, wire>>

(* assignQueuedWork picks the queued jobs in the map, and may wait for     *)
(* other jobs before it comes to this one.                                 *)
Collected(h, c, hs) ==
  IF c # 0 /\ h[c].state = "queued"
  THEN {[hs EXCEPT ![s] = Hold("loop", 0)] : s \in {t \in Slot : hs[t] = Idle}}
  ELSE {hs}

(* Some other job, node or request triggers assignQueuedWork.              *)
AssignQueuedWork ==
  /\ cur # 0 /\ heap[cur].state = "queued"
  /\ \E hs \in Collected(heap, cur, handler) : Memory(heap, cur, hs)
  /\ UNCHANGED <<custody, disk, issued, reserved, nodeVars>>

(* The loop comes to this job: it asks the map for the object, and not the *)
(* object for its state.                                                   *)
LoopPlaces(s) ==
  /\ handler[s].op = "loop"
  /\ \/ cur # 0 /\ Assign(heap, cur, Done(s), cur, disk)
     \/ cur = 0 /\ Memory(heap, cur, Done(s)) /\ UNCHANGED <<disk, issued, reserved, tasks>>
  /\ UNCHANGED <<custody, link, wire>>

-----------------------------------------------------------------------------
(* The owner                                                               *)

(* handleCreateGraphJob finds no job, and suspends in the quota check; for *)
(* a portable job also in storing documents and looking for assets.        *)
CreateStarts(s) ==
  /\ Current.state = "absent"
  /\ Cardinality({t \in Slot : handler[t].op = "create"}) < MaxCreates
  /\ Memory(heap, cur, Suspend(s, Hold("create", 0)))
  /\ UNCHANGED <<custody, disk, issued, reserved, nodeVars>>

Create(s) ==
  /\ handler[s].op = "create"
  /\ LET r == CHOOSE q \in Ref : q # cur /\ q \notin Held(handler)
     IN SaveAt(heap, r, [Blank EXCEPT !.state = "planned"], Done(s))
  /\ UNCHANGED <<custody, issued, reserved, nodeVars>>

(* recoverGraphReplay: the owner submits the exact request again.          *)
Restored(o) == [o EXCEPT !.redacted = FALSE, !.delivered = FALSE]

Replay ==
  /\ custody
  /\ Current.redacted /\ Current.state \in {"planned", "queued"}
  /\ SaveAndAssign(Restored(Current), handler)
  /\ UNCHANGED <<custody, link, wire>>

(* handleUploadGraphAsset suspends in the upload, then saves the object it *)
(* had.                                                                    *)
UploadStarts(s) ==
  /\ ~custody
  /\ Current.state = "planned"
  /\ Look(Suspend(s, Hold("upload", At)))
  /\ UNCHANGED <<custody, issued, reserved, nodeVars>>

Upload(s) ==
  /\ handler[s].op = "upload"
  /\ SaveAt(heap, handler[s].ref, heap[handler[s].ref], Done(s))
  /\ UNCHANGED <<custody, issued, reserved, nodeVars>>

(* handleCommitGraphJob: a portable job suspends, to look for its assets   *)
(* and to materialize its bundle.                                          *)
Queued(o) == [o EXCEPT !.state = "queued"]

Commit ==
  /\ custody
  /\ Current.state = "planned"
  /\ SaveAndAssign(Queued(Current), handler)
  /\ UNCHANGED <<custody, link, wire>>

CommitStarts(s) ==
  /\ ~custody
  /\ Current.state = "planned"
  /\ Look(Suspend(s, Hold("commit", At)))
  /\ UNCHANGED <<custody, issued, reserved, nodeVars>>

CommitFindsMissing(s) ==
  /\ handler[s].op = "commit"
  /\ SaveAt(heap, handler[s].ref, heap[handler[s].ref], Done(s))
  /\ UNCHANGED <<custody, issued, reserved, nodeVars>>

CommitGoesOn(s) ==
  LET r == handler[s].ref
      o == Queued(heap[r])
  IN /\ handler[s].op = "commit"
     /\ Assign([heap EXCEPT ![r] = o], r, Done(s), r, o)
     /\ UNCHANGED <<custody, link, wire>>

(* handleGetGraphJob and everything else that loads the job.               *)
Poll ==
  /\ Current.state # "absent"
  /\ Look(handler)
  /\ UNCHANGED <<custody, issued, reserved, nodeVars>>

(* handleCancelGraphJob does not wait for the worker, nor release it.      *)
Cancelled(o) ==
  [o EXCEPT !.state = "cancelled",
            !.agent = IF o.agent # None /\ link[o.agent] = "down" THEN None ELSE o.agent]

Cancel ==
  /\ Current.state \notin Terminal \cup {"absent"}
  /\ SaveAndEvict(Got, At, Cancelled(Current), handler)
  /\ UNCHANGED <<custody, issued, reserved, nodeVars>>

(* handleRetryGraphJob.                                                    *)
Retry ==
  /\ ~custody
  /\ \/ Current.state = "failed"
     \/ Current.state = "cancelled" /\ Current.agent = None
  /\ SaveAndAssign([Queued(Current) EXCEPT !.agent = None], handler)
  /\ UNCHANGED <<custody, link, wire>>

-----------------------------------------------------------------------------
(* Messages of nodes: matchesCustodyAssignment, and the sender is the      *)
(* agent.                                                                  *)
Believed(m) == Current.agent = m.dev /\ Current.token = m.token

(* handleGraphEvent: workers report that they run, and parts that finished. *)
HandleEvent_unsaved(t) ==
  /\ t \in tasks /\ t.up /\ t.phase = "run" /\ link[t.dev] = "up"
  /\ Believed(t)
  /\ Current.state \notin Terminal
  /\ Memory([Got EXCEPT ![At].state = "running"], At, handler)
  /\ UNCHANGED <<custody, disk, issued, reserved, nodeVars>>

HandleEvent(t) ==
  /\ t \in tasks /\ t.up /\ t.phase = "run" /\ link[t.dev] = "up"
  /\ Believed(t)
  /\ Current.state \notin Terminal
  /\ Save([Current EXCEPT !.state = "running"], handler)
  /\ UNCHANGED <<custody, issued, reserved, nodeVars>>

(* handleGraphError, and the answer to a result of a cancelled job: it     *)
(* settles the cancellation.                                               *)
Settle(m, hs) ==
  \/ /\ ~Believed(m) \/ Current.state \in {"finished", "failed"}
     /\ Look(hs)
     /\ UNCHANGED reserved
  \/ /\ Believed(m) /\ Current.state = "cancelled"
     /\ Save([Current EXCEPT !.agent = None], hs)
     /\ Release(m.dev)
  \/ /\ Believed(m) /\ Current.state \notin Terminal
     /\ SaveAndEvict(Got, At, [Current EXCEPT !.state = "failed"], hs)
     /\ Release(m.dev)

(* A result with a bad manifest is an error, too.                          *)
HandleError(m) ==
  /\ m \in wire
  /\ wire' = wire \ {m}
  /\ Settle(m, handler)
  /\ UNCHANGED <<custody, issued, link, tasks>>

(* handleGraphResult suspends to verify the artifacts in R2.               *)
HandleResult(m, s) ==
  /\ m \in wire /\ m.ok
  /\ wire' = wire \ {m}
  /\ Believed(m)
  /\ Current.state \notin Terminal
  /\ custody => Current.delivered
  /\ Look(Suspend(s, [op |-> "verify", ref |-> 0, dev |-> m.dev, token |-> m.token]))
  /\ UNCHANGED <<custody, issued, reserved, link, tasks>>

(* graphResultTarget.                                                      *)
Target_unchecked(x) == Current.state # "absent"

Target(x) ==
  /\ Current.token = x.token /\ Current.agent # None
  /\ Current.state \in Active
  /\ custody => Current.delivered

ArtifactMissing(s) ==
  /\ handler[s].op = "verify"
  /\ Settle(handler[s], Done(s))
  /\ UNCHANGED <<custody, issued, nodeVars>>

(* The job is finished in memory first; a portable job then suspends in    *)
(* the upload of its manifest.                                             *)
Verified(s) ==
  LET o == [Current EXCEPT !.state = "finished"]
  IN /\ handler[s].op = "verify"
     /\ \/ ~Target(handler[s]) /\ Look(Done(s)) /\ UNCHANGED reserved
        \/ Target(handler[s]) /\ custody
           /\ SaveAndEvict(Got, At, o, Done(s)) /\ Release(Current.agent)
        \/ Target(handler[s]) /\ ~custody
           /\ Memory([Got EXCEPT ![At] = o], Kept, Suspend(s, Hold("publish", At)))
           /\ UNCHANGED disk /\ Release(Current.agent)
     /\ UNCHANGED <<custody, issued, nodeVars>>

Publish(s) ==
  /\ handler[s].op = "publish"
  /\ SaveAndEvict(heap, handler[s].ref, heap[handler[s].ref], Done(s))
  /\ UNCHANGED <<custody, issued, reserved, nodeVars>>

-----------------------------------------------------------------------------
(* Requests of nodes, which carry the token in their URL                   *)

(* activeAssignment.                                                       *)
Assigned_anyToken(t) == Current.agent # None /\ Current.state \in Active

Assigned(t) ==
  Current.token = t.token /\ Current.agent # None /\ Current.state \in Active

Goes(t, p) ==
  tasks' = (tasks \ {t}) \cup {[dev |-> t.dev, token |-> t.token, up |-> t.up, phase |-> p]}

(* GET bundle/: a portable job's documents are in R2, those of one under   *)
(* custody in the job.                                                     *)
Fetch(t) ==
  /\ t.phase = "fetch"
  /\ Current.token = t.token
  /\ custody => Assigned(t) /\ ~Current.redacted
  /\ Look(handler)
  /\ Goes(t, IF custody THEN "loaded" ELSE "run")
  /\ UNCHANGED <<custody, issued, reserved, link, wire>>

(* acknowledgeBundle; the answer may be lost, and the request repeated.    *)
Acknowledged(o) == [o EXCEPT !.delivered = TRUE, !.redacted = TRUE]

Acknowledge_keepsPayload(t) ==
  /\ t.phase = "loaded"
  /\ Assigned(t)
  /\ Save([Current EXCEPT !.delivered = TRUE], handler)
  /\ Goes(t, "loaded") \/ Goes(t, "run")
  /\ UNCHANGED <<custody, issued, reserved, link, wire>>

Acknowledge(t) ==
  /\ t.phase = "loaded"
  /\ Assigned(t)
  /\ Save(Acknowledged(Current), handler)
  /\ Goes(t, "loaded") \/ Goes(t, "run")
  /\ UNCHANGED <<custody, issued, reserved, link, wire>>

(* Uploads, reports, and early publications, which look for the job again  *)
(* when R2 has them; uploads of portable jobs do not ask for its state.    *)
StoreUpload(t) ==
  /\ t.phase = "run"
  /\ Current.token = t.token
  /\ custody => Assigned(t) /\ Current.delivered
  /\ Save(Current, handler)
  /\ UNCHANGED <<custody, issued, reserved, nodeVars>>

(* PUT run-manifest of a portable job saves the object it had.             *)
ManifestStarts(t, s) ==
  /\ ~custody
  /\ t.phase = "run"
  /\ Current.token = t.token
  /\ Memory(Got, Kept, Suspend(s, Hold("manifest", At)))
  /\ UNCHANGED <<custody, disk, issued, reserved, nodeVars>>

Manifest(s) ==
  /\ handler[s].op = "manifest"
  /\ SaveAt(heap, handler[s].ref, heap[handler[s].ref], Done(s))
  /\ UNCHANGED <<custody, issued, reserved, nodeVars>>

-----------------------------------------------------------------------------
(* Loss                                                                    *)

Requeued(o) == [Queued(o) EXCEPT !.agent = None]

(* failInProgressWork for a device that is reserved for the job: only the  *)
(* map is asked.  Then assignQueuedWork.                                   *)
InProgress(d) ==
  d \in reserved /\ cur # 0 /\ heap[cur].agent = d /\ heap[cur].state \in Active

FailWork(d, base) ==
  \/ /\ ~InProgress(d)
     /\ \E hs \in Collected(heap, cur, base) : Memory(heap, cur, hs)
     /\ UNCHANGED disk
  \/ /\ InProgress(d) /\ heap[cur].attempt < MaxAttempt
     /\ LET o == Requeued(heap[cur])
            h == [heap EXCEPT ![cur] = o]
        IN /\ \E hs \in Collected(h, cur, base) : Memory(h, cur, hs)
           /\ disk' = o
  \/ /\ InProgress(d) /\ ~(heap[cur].attempt < MaxAttempt)
     /\ SaveAndEvict(heap, cur, [heap[cur] EXCEPT !.state = "failed"], base)

(* A dispatch under way to a socket that closes will throw.                *)
SocketGone(d) ==
  [s \in Slot |-> IF handler[s].op = "dispatch" /\ handler[s].dev = d
                  THEN [handler[s] EXCEPT !.dev = None] ELSE handler[s]]

(* handleAuth on a new connection; a socket Relay still has is superseded. *)
Connect(d) ==
  /\ link[d] # "up"
  /\ link' = [link EXCEPT ![d] = "up"]
  /\ FailWork(d, SocketGone(d))
  /\ Release(d)
  /\ UNCHANGED <<custody, issued, tasks, wire>>

(* The node's connection ends: its tasks are told to stop, but may still   *)
(* finish a request; what they sent or will send by socket is lost.        *)
Drop(d) ==
  /\ link[d] = "up"
  /\ link' = [link EXCEPT ![d] = "half"]
  /\ tasks' = {[dev |-> t.dev, token |-> t.token, phase |-> t.phase,
                up |-> t.up /\ t.dev # d] : t \in tasks}
  /\ wire' = {m \in wire : m.dev # d}
  /\ UNCHANGED <<custody, relayVars>>

(* handleRelayWebSocketClose.                                              *)
Close(d) ==
  /\ link[d] = "half"
  /\ link' = [link EXCEPT ![d] = "down"]
  /\ FailWork(d, SocketGone(d))
  /\ Release(d)
  /\ UNCHANGED <<custody, issued, tasks, wire>>

(* failStaleAgentWork, on GET /status: the device keeps its socket.        *)
Stale(d) ==
  /\ d \in reserved
  /\ FailWork(d, handler)
  /\ Release(d)
  /\ UNCHANGED <<custody, issued, nodeVars>>

(* handleAvailabilityUpdate: the node is online, or busy with other work;  *)
(* its frame may be about an earlier run of the job.                       *)
Available(d) ==
  /\ d \in reserved /\ link[d] = "up"
  /\ Release(d)
  /\ \E hs \in Collected(heap, cur, handler) : Memory(heap, cur, hs)
  /\ UNCHANGED <<custody, disk, issued, nodeVars>>

(* handleGraphMaintenanceAlarm: a job without news for hours is recalled   *)
(* in a fresh copy of the stored one; then R2 is listed.                   *)
Maintain(s) ==
  LET r == CHOOSE q \in Ref : q \notin Held(handler)
      o == IF disk.attempt < MaxAttempt THEN Requeued(disk)
           ELSE [disk EXCEPT !.state = "failed", !.agent = None]
  IN /\ disk.state \in Active
     /\ SaveAt(heap, r, o, Suspend(s, Hold("sweep", 0)))
     /\ Release(disk.agent)
     /\ UNCHANGED <<custody, issued, nodeVars>>

SweepEnds(s) ==
  /\ handler[s].op = "sweep"
  /\ \E hs \in Collected(heap, cur, Done(s)) : Memory(heap, cur, hs)
  /\ UNCHANGED <<custody, disk, issued, reserved, nodeVars>>

(* The object leaves memory; sockets and attachments stay.                 *)
Hibernate ==
  /\ \A s \in Slot : handler[s] = Idle
  /\ cur # 0
  /\ Memory(heap, 0, handler)
  /\ UNCHANGED <<custody, disk, issued, reserved, nodeVars>>

(* The object is replaced (a deployment, a crash), and the nodes notice.   *)
Restart ==
  /\ Memory(heap, 0, [s \in Slot |-> Idle])
  /\ link' = [d \in Device |-> "down"]
  /\ reserved' = {}
  /\ tasks' = {[dev |-> t.dev, token |-> t.token, phase |-> t.phase, up |-> FALSE] : t \in tasks}
  /\ wire' = {}
  /\ UNCHANGED <<custody, disk, issued>>

-----------------------------------------------------------------------------
(* Nodes                                                                   *)

(* The graph task ends, well or not; without a connection nobody hears.    *)
TaskEnds(t) ==
  /\ tasks' = tasks \ {t}
  /\ \/ t.up /\ t.phase = "run" /\ wire' = wire \cup {[dev |-> t.dev, token |-> t.token, ok |-> TRUE]}
     \/ t.up /\ wire' = wire \cup {[dev |-> t.dev, token |-> t.token, ok |-> FALSE]}
     \/ ~t.up /\ UNCHANGED wire
  /\ UNCHANGED <<custody, relayVars, link>>

-----------------------------------------------------------------------------
OwnerStep ==
  \/ Replay \/ Commit \/ Poll \/ Cancel \/ Retry

Starts(s) == CreateStarts(s) \/ UploadStarts(s) \/ CommitStarts(s) \/ Maintain(s)

Resumes(s) ==
  \/ Create(s) \/ Upload(s) \/ CommitFindsMissing(s) \/ CommitGoesOn(s) \/ Dispatch(s)
  \/ ArtifactMissing(s) \/ Verified(s) \/ Publish(s) \/ Manifest(s) \/ SweepEnds(s)
  \/ LoopPlaces(s)

TaskStep(t) ==
  HandleEvent(t) \/ Fetch(t) \/ Acknowledge(t) \/ StoreUpload(t) \/ TaskEnds(t)

DeviceStep(d) == Connect(d) \/ Drop(d) \/ Close(d) \/ Stale(d) \/ Available(d)

Next ==
  \/ OwnerStep \/ AssignQueuedWork \/ Hibernate \/ Restart
  \/ \E s \in Slot : Resumes(s)
  \/ \E s \in Free : Starts(s)
  \/ \E t \in tasks : TaskStep(t)
  \/ \E t \in tasks, s \in Free : ManifestStarts(t, s)
  \/ \E m \in wire : HandleError(m)
  \/ \E m \in wire, s \in Free : HandleResult(m, s)
  \/ \E d \in Device : DeviceStep(d)

Spec == Init /\ [][Next]_graphVars

-----------------------------------------------------------------------------
GraphTypeOK ==
  /\ custody \in BOOLEAN
  /\ heap \in [Ref -> Object]
  /\ cur \in Ref \cup {0}
  /\ disk \in Object
  /\ handler \in [Slot -> Suspended]
  /\ issued \in Token
  /\ link \in [Device -> {"up", "half", "down"}]
  /\ reserved \in SUBSET Device
  /\ tasks \in SUBSET Task
  /\ wire \in SUBSET Message

(* Relay may leave memory at any time: what it says of the job is what it  *)
(* stored, but for a token nobody was sent, and for a result whose         *)
(* manifest is still being written to R2.                                  *)
CacheCoherent ==
  cur # 0 /\ (\A s \in Slot : ~(handler[s].op = "publish" /\ handler[s].ref = cur))
    => [heap[cur] EXCEPT !.token = disk.token] = disk

(* relay-queue.ts: a previous attempt must not keep a usable upload        *)
(* capability.  Under custody, whoever knows the token of an assignment    *)
(* under way is its agent, orphaned tasks included.                        *)
TokenNamesHolder ==
  custody /\ Current.state \in Active
    => \A t \in tasks : t.token = Current.token => t.dev = Current.agent

(* No object, in use or superseded, in memory or in storage, keeps the     *)
(* payload of a job that was confirmed or is over.                         *)
PayloadForgotten ==
  custody =>
    \A o \in {heap[r] : r \in Ref} \cup {disk} :
      o.delivered \/ o.state \in Terminal => o.redacted

(* The holder of an assignment under way still finds the bundle, until it  *)
(* has confirmed that it got it.                                           *)
Deliverable ==
  custody /\ Current.state \in Active
    => \A t \in tasks : t.phase = "fetch" /\ t.token = Current.token => ~Current.redacted

stage ==
  IF ~custody THEN "absent"
  ELSE IF Current.state \in {"planned", "queued"} THEN "waiting"
  ELSE IF Current.state \in Active THEN "placed"
  ELSE Current.state

payload == custody /\ Current.state # "absent" /\ ~Current.redacted

holder == IF custody /\ Current.state \in Active THEN Current.agent ELSE None

Promise == INSTANCE CustodiedWork

(* docs/local-custody.md: whatever is lost, delayed or forgotten, terminal *)
(* jobs stay terminal, work is placed only with its payload and finishes   *)
(* only after a confirmed delivery, and a payload that is gone comes back  *)
(* only with a resubmission.                                               *)
ImplementsCustodiedWork == Promise!Spec

-----------------------------------------------------------------------------
(* What the repository says of the program and the code does not do.       *)

(* docs/graph-jobs.md: the complete graph is placed on one compatible      *)
(* node, and each assignment rotates its upload token.  While the bundle   *)
(* of a commit is looked up in R2 the job is queued in memory, so another  *)
(* assignQueuedWork places it too, and both nodes get the last token.      *)
PlacedOnce ==
  \A t, u \in tasks : t.token = u.token => t.dev = u.dev
=============================================================================
