------------------------------ MODULE MCAccount ------------------------------
(***************************************************************************)
(* Instances of Account for TLC, and bounded checks of Placement's         *)
(* operators.  Two nodes, what they can run computed by Placement from     *)
(* what they report; the accounts differ in what is submitted, in who else *)
(* uses the devices, and in what the owner does.                           *)
(***************************************************************************)
EXTENDS Account, TLC

CONSTANTS d1, d2

P == INSTANCE Placement

(* d1: a Mac with everything installed; d2: a small node for text.         *)
Report(d) ==
  [device |-> d, lora |-> FALSE, adapters |-> {}, families |-> {"text-chat-"},
   models |-> IF d = d1 THEN {"text", "talk-nano", "embed", "ocr", "asr"} ELSE {"mere-nano", "embed"},
   installed |-> IF d = d1 THEN {"speech-asr-parakeet"} ELSE {},
   backends |-> {}, mereRun |-> IF d = d1 THEN <<0, 25>> ELSE <<0, 9, 3>>,
   plugins |-> IF d = d1 THEN {[name |-> "vfx", commands |-> {"matte"}]} ELSE {}]

Chat == [device |-> "none", model |-> "zero-nano", adapter |-> "none", base |-> "none",
         pinnedSpec |-> FALSE, lora |-> FALSE]

Asr == [diarize |-> FALSE, backend |-> "auto"]

MCCanRun ==
  [k \in Kind |->
     {d \in Device :
        CASE k = "chat" -> P!SupportsChat(Report(d), Chat)
          [] k = "talk" -> P!SupportsTalk(Report(d))
          [] k = "asr" -> P!SupportsAsr(Report(d), Asr)
          [] k = "embed" -> P!SupportsEmbed(Report(d))
          [] k = "ocr" -> P!SupportsOcr(Report(d))
          [] k = "tool" -> P!SupportsTool(Report(d), [plugin |-> "vfx", command |-> "matte"])}]

MCCanStream == {d \in Device : P!ResolveBackend(Report(d), "auto") # "none"}

-----------------------------------------------------------------------------
(* The accounts.                                                           *)
Plain(k1, k2, nodes) ==
  [kind |-> (1 :> k1) @@ (2 :> k2), keyed |-> {}, nodes |-> nodes, shared |-> {},
   managed |-> FALSE, restarts |-> 0, plan |-> FALSE, stream |-> FALSE]

MCSetup ==
  {[Plain("chat", "chat", {d1}) EXCEPT !.keyed = {1, 2}, !.managed = TRUE, !.restarts = 1],
   [Plain("chat", "chat", {d1}) EXCEPT !.shared = {d1}],
   Plain("talk", "tool", {d1}),
   [Plain("asr", "ocr", {d1}) EXCEPT !.managed = TRUE],
   [Plain("embed", "none", {d1, d2}) EXCEPT !.restarts = 1],
   [Plain("tool", "none", {d1}) EXCEPT !.restarts = 1, !.plan = TRUE],
   [Plain("chat", "none", {d1}) EXCEPT !.restarts = 1, !.stream = TRUE],
   Plain("chat", "chat", {d1, d2}),
   [Plain("tool", "tool", {d1}) EXCEPT !.restarts = 1],
   [Plain("none", "none", {d1}) EXCEPT !.plan = TRUE, !.stream = TRUE]}

(* A cancelled tool, a plan, and a request that could be placed.           *)
MCPlanSetup == {[Plain("tool", "chat", {d1}) EXCEPT !.plan = TRUE]}

-----------------------------------------------------------------------------
(* Placement, over bounded inputs.                                         *)

Versions == UNION {[1 .. n -> 0 .. 2] : n \in 1 .. 3}

Padded(v) == [i \in 1 .. 3 |-> P!Part(v, i)]

(* compareVersions orders versions as the numbers they spell, missing      *)
(* parts counted as zero.                                                  *)
ASSUME VersionsAreOrdered ==
  \A v, w \in Versions :
    P!Older(v, w) <=>
      9 * Padded(v)[1] + 3 * Padded(v)[2] + Padded(v)[3]
        < 9 * Padded(w)[1] + 3 * Padded(w)[2] + Padded(w)[3]

Worker(custody, version, kinds, disk) ==
  [custody |-> custody, version |-> version, kinds |-> kinds, disk |-> disk,
   contracts |-> {"1"}, providers |-> <<[id |-> "core", build |-> "b1", kinds |-> kinds]>>,
   models |-> {"m"}, backend |-> "metal", memory |-> 8, systemMemory |-> 16, cores |-> 8,
   network |-> FALSE, secrets |-> {}]

GraphNodes ==
  {[device |-> "n1", status |-> s, enabled |-> TRUE, draining |-> dr, revoked |-> FALSE,
    hasWorker |-> h, worker |-> Worker(c, v, k, disk)] :
     s \in {"online", "busy"}, dr \in BOOLEAN, h \in BOOLEAN, c \in BOOLEAN,
     v \in {<<1, 1>>, <<1, 2, 0>>}, k \in {{"a"}, {"a", "b"}}, disk \in {1, 4}}

Graphs ==
  {[device |-> "none", custody |-> c, redacted |-> r, state |-> "queued", contract |-> "1",
    minVersion |-> <<1, 2>>, kinds |-> {"a", "b"},
    providers |-> {[id |-> "core", build |-> b, kinds |-> {"a"}]}, models |-> {"m"},
    backends |-> {"metal"}, minMemory |-> 0, minSystemMemory |-> 0, minCores |-> 1,
    network |-> FALSE, secrets |-> {}, minDisk |-> 0,
    assets |-> {[path |-> "x", digest |-> "dx", size |-> 2], [path |-> "y", digest |-> "dx", size |-> 2]}] :
     c \in BOOLEAN, r \in BOOLEAN, b \in {"b1", "b2"}}

(* What the owner is told of a node agrees with what the scheduler does:   *)
(* a queued graph with a node that blocks nothing would have been placed,  *)
(* and the diagnostic `busy' is given only when an able node is            *)
(* otherwise occupied, drained or disabled.                                *)
ASSUME ReportAgrees ==
  \A g \in Graphs, n, m \in GraphNodes :
    LET nodes == {n, m}
        supporting == {x \in nodes : P!SupportsGraph(x, g)} IN
    /\ P!Diagnostic(nodes, g) = "none" <=> P!Eligible(supporting) # {}
    /\ P!Diagnostic(nodes, g) = "busy" =>
         supporting # {} /\ P!Eligible(supporting) = {}
=============================================================================
