----------------------------- MODULE Placement -----------------------------
(***************************************************************************)
(* Which node may run a piece of work, and which of several gets it: the   *)
(* capability checks, the choice and the placement report of               *)
(* relay-queue.ts with the policy and the scores of relay-fleet.ts.        *)
(*                                                                         *)
(* A node is a record of what its agent reported and of its policy.  A     *)
(* model name is a string; `families' holds the prefixes its models have   *)
(* ("image-" ...), `installed' the runtime's list of installed models.     *)
(* "none" stands for a field the request leaves out.  Versions are         *)
(* sequences of at most three numbers, as compareVersions parses them.     *)
(* Scores are integers: the fractions the code keeps are rounded down.     *)
(***************************************************************************)
EXTENDS Integers, Sequences, FiniteSets, FiniteSetsExt

Canonical(m) == IF m = "zero-nano" THEN "mere-nano" ELSE m

HasModel(node, m) == Canonical(m) \in {Canonical(n) : n \in node.models}

HasFamily(node, prefix) == prefix \in node.families

Installed(node, m) ==
  HasModel(node, m) \/ Canonical(m) \in {Canonical(n) : n \in node.installed}

(* A node that serves a kind as such takes any model of it.                *)
SupportsModel(node, m, marker, prefix) ==
  IF m # "none"
  THEN HasModel(node, m) \/ HasModel(node, marker)
  ELSE HasModel(node, marker) \/ HasFamily(node, prefix)

Pinned(node, w) == w.device \in {"none", node.device}

InferKind(j) ==
  CASE j.kind # "none" -> j.kind
    [] j.kind = "none" /\ (j.model = "ltxvideo" \/ j.family = "video-") -> "video"
    [] j.kind = "none" /\ j.model # "ltxvideo" /\ j.family = "music-" -> "music"
    [] OTHER -> "image"

SupportsJob(node, j) ==
  /\ Pinned(node, j)
  /\ j.device # "none" /\ j.model # "none" => HasModel(node, j.model)
  /\ CASE InferKind(j) = "music" -> SupportsModel(node, j.model, "music", "music-")
       [] InferKind(j) = "video" ->
            /\ j.controls => node.controls
            /\ SupportsModel(node, j.model, "video", "video-")
       [] OTHER ->
            /\ j.width <= node.resolution /\ j.height <= node.resolution
            /\ j.input => node.img2img
            /\ SupportsModel(node, j.model, "image", "image-")

(* An adapter names the base model it was trained on.                      *)
SupportsChat(node, c) ==
  LET base == IF c.adapter = "none" THEN "none" ELSE c.base
      model == IF c.model # "none" THEN c.model ELSE base IN
  /\ Pinned(node, c)
  /\ IF model = "none"
     THEN HasModel(node, "text") \/ HasModel(node, "mere-nano") \/ HasFamily(node, "text-chat-")
     ELSE \/ HasModel(node, model)
          \/ c.adapter = "none" /\ ~c.pinnedSpec /\ HasModel(node, "text")
  /\ c.lora => node.lora
  /\ c.adapter # "none" => [manifest |-> c.adapter, base |-> c.base] \in node.adapters

SupportsTalk(node) == HasModel(node, "talk-nano")
SupportsEmbed(node) == HasModel(node, "embed") \/ HasModel(node, "text-embed-qwen3-0.6b")
SupportsOcr(node) == HasModel(node, "ocr")

SupportsTool(node, t) ==
  \E p \in node.plugins : p.name = t.plugin /\ t.command \in p.commands

-----------------------------------------------------------------------------
Part(v, i) == IF i <= Len(v) THEN v[i] ELSE 0

(* compareVersions(v, w) < 0.                                              *)
Older(v, w) ==
  \E i \in 1 .. 3 : Part(v, i) < Part(w, i) /\ \A k \in 1 .. i - 1 : Part(v, k) = Part(w, k)

BackendModel(b) ==
  CASE b = "parakeet" -> "speech-asr-parakeet"
    [] b = "qwen" -> "speech-asr-qwen3"
    [] OTHER -> "none"

(* Nodes that advertise no backends serve Parakeet from mere.run 0.24 on.  *)
SupportsBackend(node, b) ==
  \/ b \in node.backends
  \/ b = "parakeet" /\ Installed(node, BackendModel(b)) /\ ~Older(node.mereRun, <<0, 24, 0>>)

(* resolveAsrBackend: the backend a node would use, "none" if it has none. *)
ResolveBackend(node, b) ==
  CASE b # "auto" /\ SupportsBackend(node, b) -> b
    [] b = "auto" /\ SupportsBackend(node, "parakeet") -> "parakeet"
    [] /\ b = "auto" /\ ~SupportsBackend(node, "parakeet")
       /\ \/ SupportsBackend(node, "qwen") \/ Installed(node, "speech-asr-qwen3")
          \/ HasModel(node, "asr") -> "qwen"
    [] OTHER -> "none"

SupportsAsr(node, a) ==
  /\ HasModel(node, "asr") \/ HasFamily(node, "speech-asr-")
  /\ a.diarize => Installed(node, "speech-diarization-sortformer")
  /\ ResolveBackend(node, a.backend) # "none"

-----------------------------------------------------------------------------
(* Graph jobs: why a node cannot run one.                                  *)
CustodyBlockers(node, g) ==
  (IF g.custody /\ ~node.worker.custody THEN {"data_policy_unsupported"} ELSE {})
  \cup (IF g.custody /\ g.redacted /\ g.state \in {"planned", "queued"}
        THEN {"payload_replay_required"} ELSE {})
  \cup (IF Pinned(node, g) THEN {} ELSE {"required_device_mismatch"})

(* A provider is [id, build (version and catalog), kinds]; of several with *)
(* one id the first that the worker reports counts.                        *)
ProviderBlocker(node, r) ==
  LET providers == node.worker.providers
      having == {i \in DOMAIN providers : providers[i].id = r.id}
      first == providers[Min(having)] IN
  IF having = {} THEN {"graph_provider_missing"}
  ELSE IF first.build # r.build THEN {"graph_provider_mismatch"}
  ELSE IF r.kinds \subseteq first.kinds THEN {} ELSE {"graph_provider_node_kind_missing"}

ProviderBlockers(node, g) == UNION {ProviderBlocker(node, r) : r \in g.providers}

InputBytes(entries) == MapThenSumSet(LAMBDA a : a.size, entries)

Short(have, need, code) == IF have < need THEN {code} ELSE {}

CapabilityBlockers(node, g) ==
  IF ~node.hasWorker THEN {"graph_worker_missing"}
  ELSE CustodyBlockers(node, g)
    \cup (IF g.contract \in node.worker.contracts THEN {} ELSE {"contract_version_unsupported"})
    \cup (IF Older(node.worker.version, g.minVersion) THEN {"worker_version_too_old"} ELSE {})
    \cup (IF g.kinds \subseteq node.worker.kinds THEN {} ELSE {"node_kind_missing"})
    \cup ProviderBlockers(node, g)
    \cup (IF g.models \subseteq node.worker.models THEN {} ELSE {"model_missing"})
    \cup (IF node.worker.backend \in g.backends THEN {} ELSE {"accelerator_backend_unsupported"})
    \cup Short(node.worker.memory, g.minMemory, "accelerator_memory_insufficient")
    \cup Short(node.worker.systemMemory, g.minSystemMemory, "system_memory_insufficient")
    \cup Short(node.worker.cores, g.minCores, "cpu_capacity_insufficient")
    \cup (IF g.network /\ ~node.worker.network THEN {"network_access_unavailable"} ELSE {})
    \cup (IF g.secrets \subseteq node.worker.secrets THEN {} ELSE {"secret_missing"})
    \cup Short(node.worker.disk, Max({InputBytes(g.assets), g.minDisk}),
               "disk_space_insufficient")

SupportsGraph(node, g) == CapabilityBlockers(node, g) = {}

-----------------------------------------------------------------------------
(* Policy, choice, report                                                  *)

(* normalizePolicy: what a stored policy counts as.                        *)
NormalPriority(p) == Max({0, Min({100, p})})

CanAccept(node) == node.enabled /\ ~node.draining /\ ~node.revoked

(* getOnlineAgent's candidates, of the connected nodes that support the    *)
(* work.                                                                   *)
Eligible(supporting) == {n \in supporting : n.status = "online" /\ CanAccept(n)}

(* anyCapableAgent: also busy nodes count.                                 *)
Capable(supporting) == {n \in supporting : CanAccept(n)}

PowerScore(node) ==
  (CASE node.power \in {"ac", "external"} -> 20 [] node.power = "battery" -> -30 [] OTHER -> 0)
  + (IF node.lowPower THEN -20 ELSE 0)
  + (CASE node.thermal = "serious" -> -25 [] node.thermal = "critical" -> -100 [] OTHER -> 0)

(* average: milliseconds per work of this model, 0 if unknown.             *)
Score(node, model, average, mode) ==
  NormalPriority(node.priority)
  + (IF model \in node.preferred THEN 30 ELSE 0)
  + (IF mode = "fastest" /\ average > 0 THEN 100000 \div average ELSE 0)
  + (IF mode = "efficient" THEN PowerScore(node) ELSE 0)
  + Min({20, node.freeMemoryGiB \div 4})

(* An asset used at several places is cached once.                         *)
CachedBytes(node, g) ==
  InputBytes({[digest |-> a.digest, size |-> a.size] :
                a \in {b \in g.assets : b.digest \in node.cached}})

GiB == 1073741824

GraphScore(node, g, average, mode) ==
  LET total == InputBytes(g.assets)
      cached == CachedBytes(node, g) IN
  Score(node, "graph", 0, mode)
  + Min({30, 10 * Cardinality(g.models \cap node.preferred)})
  + (IF mode = "fastest" /\ average > 0 THEN 100000 \div average ELSE 0)
  + (IF total = 0 THEN 0 ELSE (40 * cached) \div total + Min({20, cached \div GiB}))

(* The preferred node if it is eligible, else a best one; the code breaks  *)
(* ties by connection time.                                                *)
Chosen(supporting, preferred, score) ==
  LET able == Eligible(supporting)
      liked == {n \in able : n.device = preferred} IN
  IF liked # {} THEN liked ELSE {n \in able : \A m \in able : score[m] <= score[n]}

PolicyBlockers(node) ==
  (IF node.status # "online" THEN {"node_busy"} ELSE {})
  \cup (IF ~node.enabled THEN {"node_disabled"} ELSE {})
  \cup (IF node.draining THEN {"node_draining"} ELSE {})
  \cup (IF node.revoked THEN {"node_revoked"} ELSE {})

(* graphPlacementReport: what the owner is told of each node.              *)
Blockers(node, g) == PolicyBlockers(node) \cup CapabilityBlockers(node, g)

Diagnostic(nodes, g) ==
  CASE \E n \in nodes : Blockers(n, g) = {} -> "none"
    [] nodes = {} -> "no nodes"
    [] nodes # {} /\ (\A n \in nodes : "graph_worker_missing" \in Blockers(n, g)) -> "no workers"
    [] OTHER -> IF \E n \in nodes : CapabilityBlockers(n, g) = {} THEN "busy" ELSE "unsatisfied"

(* getQueuedPosition: queued works of the same kind before it in its map.  *)
QueuePosition(order, queued, w) ==
  Cardinality({i \in 1 .. Len(order) :
    order[i] \in queued /\ \A k \in 1 .. i : order[k] # w})
=============================================================================
