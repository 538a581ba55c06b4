----------------------------- MODULE ModelPlans -----------------------------
(***************************************************************************)
(* A fleet model plan (relay-model-plans.ts): the models some nodes lack   *)
(* are installed by the nodes, each target on its own.  A node at work on  *)
(* a plan is reserved for it, and its task takes the node's gate           *)
(* (agent.rs, ModelPlanRequest).  The plan is stored with every change, so *)
(* a restart of the object loses the connections and nothing of the plan.  *)
(***************************************************************************)
EXTENDS Requests

CONSTANT MaxApply  \* bound: attempts to apply the plan

ASSUME PlanConstants == MaxApply \in Nat

VARIABLES
  plan,    \* state and attempt of the plan
  target,  \* state of each device as a target
  sent     \* devices that got the last attempt over a connection they still have,
           \* unless Relay failed to read their result; history, which nothing reads

planVars == <<plan, target, sent>>

PlanState == {"none", "planned", "applying", "finished", "failed", "cancelled"}
TargetState ==
  {"none", "ready", "noop", "offline", "applying", "finished", "failed", "cancelled"}

PlanInit ==
  /\ plan = [state |-> "none", attempt |-> 0]
  /\ target = [d \in Device |-> "none"]
  /\ sent = {}

Target == {d \in Device : target[d] # "none"}

(* updatePlanState, for the target states t.                               *)
PlanStateOf(t) ==
  LET now == {t[d] : d \in Device} \ {"none"} IN
  CASE plan.state = "cancelled" -> "cancelled"
    [] plan.state # "cancelled" /\ "applying" \in now -> "applying"
    [] plan.state # "cancelled" /\ "applying" \notin now /\ "ready" \in now -> "planned"
    [] plan.state # "cancelled" /\ {"applying", "ready"} \cap now = {} ->
         IF {"failed", "offline", "cancelled"} \cap now # {} THEN "failed" ELSE "finished"

(* createFleetModelPlan for the known nodes D, of which some lack models.  *)
CreatePlan(D, lacking) ==
  LET t == [d \in Device |-> CASE d \notin D -> "none"
                               [] d \in D \ lacking -> "noop"
                               [] d \in D \cap lacking ->
                                    IF d \in connected THEN "ready" ELSE "offline"] IN
  /\ Quiet
  /\ setup.plan /\ plan.state = "none"
  /\ D # {} /\ \A d \in D : policy[d] # "unknown"
  /\ target' = t
  /\ plan' = [plan EXCEPT !.state = PlanStateOf(t)]
  /\ UNCHANGED <<requestVars, sent>>

(* A target when the plan is applied; barred: disabled or revoked, while a *)
(* draining node takes the plan.                                           *)
Attempted(d, lacking, barred) ==
  CASE d \notin connected -> "offline"
    [] d \in connected /\ (reserved[d] # None \/ d \in barred) -> "failed"
    [] d \in connected /\ reserved[d] = None /\ d \notin barred ->
         IF d \in lacking THEN "applying" ELSE "noop"

Barred ==
  {B \in SUBSET {d \in Device : policy[d] \in {"closed", "revoked"}} :
     {d \in Device : policy[d] = "revoked"} \subseteq B}

(* A node that still has a task of this plan drops the request.            *)
PlanTasks(D) ==
  {[dev |-> d, work |-> Plan, n |-> plan.attempt + 1, at |-> "waits"] :
     d \in {e \in D \cap linked : \A t \in tasks : t.dev = e /\ t.work = Plan => t.at = "reported"}}

Applied(lacking, barred) ==
  LET t == [d \in Device |-> IF d \in Target THEN Attempted(d, lacking, barred) ELSE "none"]
      D == {d \in Device : t[d] = "applying"} IN
  /\ target' = t
  /\ plan' = [state |-> PlanStateOf(t), attempt |-> plan.attempt + 1]
  /\ reserved' = [d \in Device |-> IF d \in D THEN Plan ELSE reserved[d]]
  /\ sent' = D \cap linked
  /\ tasks' = tasks \cup PlanTasks(D)
  /\ UNCHANGED <<setup, work, mem, keyed, connected, policy, todo, restarts, linked, gate, last,
                 dirty, wire>>

ApplyPlan_again(lacking, barred) ==
  /\ Quiet
  /\ plan.state \notin {"none", "cancelled"} /\ plan.attempt < MaxApply
  /\ Applied(lacking, barred)

(* applyFleetModelPlan.                                                    *)
ApplyPlan(lacking, barred) ==
  /\ Quiet
  /\ plan.state \in {"planned", "finished", "failed"} /\ plan.attempt < MaxApply
  /\ Applied(lacking, barred)

(* cancelFleetModelPlan; the nodes at work are asked to stop, and still    *)
(* report.                                                                 *)
CancelPlan ==
  /\ Quiet
  /\ plan.state \in {"planned", "applying"}
  /\ plan' = [plan EXCEPT !.state = "cancelled"]
  /\ UNCHANGED <<requestVars, target, sent>>

(* Is this report of the attempt under way?  Asked of events, which add to *)
(* the plan's log, and of results.                                         *)
PlanCurrent(d, n) == n = plan.attempt /\ target[d] = "applying"

(* The target's outcome, of the outcomes of its models.                    *)
Settled_raw(ok) == IF ok THEN {"installed"} ELSE {"failed", "cancelled"}

Settled(ok) == IF ok THEN {"finished"} ELSE {"failed", "cancelled"}

(* handleFleetModelPlanResult: the node is released whatever it is         *)
(* reserved for, and the queue tried.  validateModelIds throws at an       *)
(* inventory of more than 128 models, or with a malformed name, before     *)
(* anything is saved; the message loop goes on, the result is gone.        *)
HandlePlanResult(d) ==
  LET m == Head(wire[d]) IN
  /\ Quiet /\ Arrives(d, "result") /\ m.of = Plan
  /\ Taken(d)
  /\ \/ /\ PlanCurrent(d, m.n)
        /\ \E s \in Settled(m.ok) : target' = [target EXCEPT ![d] = s]
        /\ plan' = [plan EXCEPT !.state = PlanStateOf(target')]
        /\ UNCHANGED <<work, mem, sent>>
        /\ Release(d)
        /\ AssignQueued
     \/ /\ PlanCurrent(d, m.n)
        /\ sent' = sent \ {d}
        /\ UNCHANGED <<plan, target>> /\ Ignore
     \/ /\ ~PlanCurrent(d, m.n)
        /\ UNCHANGED planVars /\ Ignore
  /\ UNCHANGED <<setup, keyed, connected, policy, restarts, linked, tasks, gate, last, dirty>>

(* A connection ends: what the plan's task sends from now on is lost.      *)
PlanLosesNodes(D) == sent' = sent \ D /\ UNCHANGED <<plan, target>>

PlanStep ==
  \/ CancelPlan
  \/ \E lacking \in SUBSET Device :
       \/ \E D \in SUBSET setup.nodes : CreatePlan(D, lacking)
       \/ \E barred \in Barred : ApplyPlan(lacking, barred)
  \/ \E d \in Device : HandlePlanResult(d)

-----------------------------------------------------------------------------
PlanTypeOK ==
  /\ plan \in [state : PlanState, attempt : 0 .. MaxApply]
  /\ target \in [Device -> TargetState]
  /\ sent \subseteq Device

(* A target that is applying over a connection it has kept is waited for   *)
(* with reason: the node works at this very attempt, or its result is on   *)
(* the way.  Except a target whose connection ended, and one whose result  *)
(* arrived with an inventory Relay cannot read: nothing comes of these any *)
(* more, and they stay applying.                                           *)
PlanUnderway ==
  \A d \in sent : target[d] = "applying" =>
    \/ \E t \in tasks :
         t.dev = d /\ t.work = Plan /\ t.n = plan.attempt /\ t.at \in {"waits", "runs"}
    \/ \E i \in DOMAIN wire[d] :
         wire[d][i].type = "result" /\ wire[d][i].of = Plan /\ wire[d][i].n = plan.attempt

(* docs/graph-jobs.md: "Nodes are unavailable to the scheduler while an    *)
(* apply attempt is active."                                               *)
PlanExcludes ==
  [][\A w \in Work, d \in sent :
       work[w].state \in {"new", "queued"}
         /\ work'[w] = [state |-> "processing", agent |-> d] =>
       target[d] # "applying"]_<<requestVars, planVars>>
=============================================================================
