---------------------------- MODULE GraphRequests ----------------------------
(***************************************************************************)
(* What the relay takes for a graph job: the validation of a submission    *)
(* (relay-api-graph.ts, relay-graph-custody.ts), the digests it still      *)
(* needs, the artifacts it believes, and the log of events it retains.     *)
(*                                                                         *)
(* A request is a record b: its nodes in order, the definitions of its     *)
(* inputs and the values supplied for them, its outputs, its asset groups  *)
(* and its job manifest.  A value is the sequence of its leaves, and a     *)
(* leaf [is, name, output] is a reference to a graph input ("input"), to   *)
(* an output of a node ("node") or to nothing known ("other"), a           *)
(* "secret", or "plain".  An optional number or value is the set that      *)
(* holds it, empty when it is left out; a node without a provider has      *)
(* "mere.run".  b.wellFormed says that versions, identifiers, digests and  *)
(* paths have the form their patterns ask for.                             *)
(***************************************************************************)
EXTENDS Integers, Sequences, FiniteSets, SequencesExt

IsReference(leaf) == leaf.is \in {"input", "node", "other"}

ReferenceStrings(v) == {leaf \in Range(v) : IsReference(leaf)}

SecretNames(v) == {leaf.name : leaf \in {l \in Range(v) : l.is = "secret"}}

(* A list that holds every member of the set once.                         *)
Lists(list, set) == IsInjective(list) /\ Range(list) = set

BuiltinNodeOutputs(kind) ==
  CASE kind \in {"boolean.value", "choice.value", "integer.value", "json.value",
                 "number.value"} -> {"value"}
    [] kind \in {"image.describe", "speech.transcribe", "text.anonymize", "text.enhance",
                 "text.generate", "text.join", "text.template", "text.value",
                 "vision.ocr"} -> {"text"}
    [] kind \in {"audio.enhance", "music.generate", "sfx.generate",
                 "speech.synthesize"} -> {"audio"}
    [] kind = "image.generate" -> {"image"}
    [] kind = "image.train-lora" -> {"adapter"}
    [] kind = "music.separate" -> {"stems"}
    [] kind = "music.transcribe" -> {"transcription"}
    [] kind = "seed.value" -> {"seed"}
    [] kind = "speech.diarize" -> {"segments"}
    [] kind = "text.embed" -> {"embeddings"}
    [] kind = "video.generate" -> {"video"}
    [] kind = "vision.caption" -> {"captions"}
    [] kind = "vision.geometry" -> {"geometry"}
    [] kind = "vision.ground" -> {"image", "detections", "masks"}
    [] kind = "vision.image-to-3d" -> {"mesh"}
    [] kind = "vision.segment" -> {"image", "segments", "masks"}
    [] kind = "vision.track" -> {"video", "tracks", "masks"}
    [] OTHER -> {}

(* What a provider's node puts out is known to its worker only.            *)
NodeOutputExists(node, output) ==
  node.provider = "mere.run" => output \in BuiltinNodeOutputs(node.kind)

-----------------------------------------------------------------------------
(* The manifest                                                            *)

ProviderRequirements(b) ==
  LET providers == b.job.providers IN
  /\ \A p \in Range(providers) : p.kinds # {}
  /\ \A i, k \in DOMAIN providers : providers[i].id = providers[k].id => i = k

ValidWebhookUrl(url) ==
  url.protocol = "https:" /\ ~url.credentials /\ url.host = "public"

DeviceAndResourceRequirements(b) ==
  /\ b.job.minimums \subseteq Nat \ {0}
  /\ \A url \in b.job.webhook_url : ValidWebhookUrl(url)

InputTypes ==
  {"string", "integer", "number", "boolean", "enum", "json", "asset", "asset_directory",
   "asset_collection", "asset_array"}

InputValueMatches(value, definition) ==
  CASE definition.type \in {"string", "asset", "asset_directory"} -> value.is = "string"
    [] definition.type = "integer" -> value.is = "integer"
    [] definition.type = "number" -> value.is \in {"integer", "fraction"}
    [] definition.type = "boolean" -> value.is = "boolean"
    [] definition.type = "enum" ->
         value.is = "string" /\ \A values \in definition.values : value.text \in values
    [] definition.type = "json" -> TRUE
    [] definition.type \in {"asset_collection", "asset_array"} -> value.is = "strings"

Supplied(b, name) ==
  IF name \in DOMAIN b.inputs THEN {b.inputs[name]} ELSE b.definitions[name].default

InputsMatch(b) ==
  /\ DOMAIN b.inputs \subseteq DOMAIN b.definitions
  /\ \A name \in DOMAIN b.definitions :
       /\ b.definitions[name].type \in InputTypes
       /\ b.definitions[name].required => Supplied(b, name) # {}
       /\ \A value \in Supplied(b, name) : InputValueMatches(value, b.definitions[name])

PolicyAccepted(node) ==
  /\ node.max_attempts \subseteq 1 .. 10
  /\ node.timeout_seconds \subseteq 1 .. 604800
  /\ node.cache \in {"none", "auto", "never", "refresh"}
  /\ SecretNames(node.arguments) # {} => node.cache = "never"

KindDeclared(b, node) ==
  IF node.provider = "mere.run"
  THEN BuiltinNodeOutputs(node.kind) # {}
  ELSE \E p \in Range(b.job.providers) : p.id = node.provider /\ node.kind \in p.kinds

NodesAccepted(b) ==
  /\ \A i, k \in DOMAIN b.nodes : b.nodes[i].id = b.nodes[k].id => i = k
  /\ \A node \in Range(b.nodes) : PolicyAccepted(node) /\ KindDeclared(b, node)

BoundSecrets(b) == UNION {SecretNames(node.arguments) : node \in Range(b.nodes)}

(* Values outside of the nodes.                                            *)
OtherValues(b) ==
  {b.metadata} \cup {b.outputs[name] : name \in DOMAIN b.outputs}
    \cup UNION {{v.leaves : v \in b.definitions[name].default} : name \in DOMAIN b.definitions}
    \cup {b.inputs[name].leaves : name \in DOMAIN b.inputs}

(* The manifest requires just what the nodes use.                          *)
RequirementsMatch(b) ==
  /\ Lists(b.job.secret_names, BoundSecrets(b))
  /\ \A v \in OtherValues(b) : SecretNames(v) = {}
  /\ {p.id : p \in Range(b.job.providers)} =
       {node.provider : node \in Range(b.nodes)} \ {"mere.run"}
  /\ Lists(b.job.node_kinds, {node.kind : node \in Range(b.nodes)})

-----------------------------------------------------------------------------
(* The graph                                                               *)

NodeIds(b) == {node.id : node \in Range(b.nodes)}

Resolves(b, leaf) ==
  \/ leaf.is = "input" /\ leaf.name \in DOMAIN b.definitions
  \/ /\ leaf.is = "node"
     /\ \E node \in Range(b.nodes) : node.id = leaf.name /\ NodeOutputExists(node, leaf.output)

DependenciesOf(node) ==
  node.depends_on
    \cup {leaf.name : leaf \in {l \in ReferenceStrings(node.arguments) : l.is = "node"}}

Dependencies(b) ==
  [id \in NodeIds(b) |->
     UNION {DependenciesOf(node) : node \in {n \in Range(b.nodes) : n.id = id}}]

DependenciesResolve(b) ==
  \A node \in Range(b.nodes) :
    /\ \A leaf \in ReferenceStrings(node.arguments) : Resolves(b, leaf)
    /\ DependenciesOf(node) \subseteq NodeIds(b)

(* One round of the elimination: the first node, in order, that waits for  *)
(* nothing leaves `remaining'.  Without one the loop is at its end.        *)
Free(order, remaining) ==
  {i \in DOMAIN order : order[i] \in DOMAIN remaining /\ remaining[order[i]] = {}}

Eliminated(order, remaining) ==
  LET next == order[Min(Free(order, remaining))] IN
  IF Free(order, remaining) = {} THEN remaining
  ELSE [id \in DOMAIN remaining \ {next} |-> remaining[id] \ {next}]

Elimination(order, dependencies) ==
  LET remaining[k \in Nat] ==
        IF k = 0 THEN dependencies ELSE Eliminated(order, remaining[k - 1]) IN
  remaining

NoCycle(order, dependencies) ==
  DOMAIN Elimination(order, dependencies)[Len(order)] = {}

Order(b) == [i \in DOMAIN b.nodes |-> b.nodes[i].id]

(* Each output is one reference to a node's output, and the manifest       *)
(* declares just these.                                                    *)
OutputsMatch(b) ==
  /\ \A name \in DOMAIN b.outputs :
       \E i \in DOMAIN b.outputs[name] :
         /\ {k \in DOMAIN b.outputs[name] : IsReference(b.outputs[name][k])} = {i}
         /\ b.outputs[name][i].is = "node" /\ Resolves(b, b.outputs[name][i])
  /\ Lists(b.job.outputs,
           UNION {{[name |-> name, reference |-> leaf] :
                     leaf \in ReferenceStrings(b.outputs[name])} : name \in DOMAIN b.outputs})

-----------------------------------------------------------------------------
(* Assets and custody                                                      *)

AssetsAccepted(b) ==
  /\ \A i, k \in DOMAIN b.groups : b.groups[i].name = b.groups[k].name => i = k
  /\ \A group \in Range(b.groups) : group.entries # <<>>
  /\ \A name \in DOMAIN b.definitions :
       b.definitions[name].type \in {"asset", "asset_directory"} =>
         /\ name \in DOMAIN b.inputs /\ b.inputs[name].asset = name
         /\ \E group \in Range(b.groups) :
              group.name = name /\ group.kind = b.definitions[name].type

CustodyAccepted(b) ==
  b.job.data_policy # "none" =>
    /\ b.job.data_policy = "local-custody.v1"
    /\ b.groups = <<>>
    /\ b.job.outputs # <<>>
    /\ \A output \in Range(b.job.outputs) : output.name \in {"receipt", "report"}
    /\ b.bytes <= 256000

(* validateCreateRequest: the checks in their order.  `documents' are the  *)
(* bundle's files, which must decode to the values of the request.         *)
CreateRequestAccepted(b) ==
  /\ b.wellFormed /\ b.nodes # <<>> /\ b.max_parallel_nodes \subseteq 1 .. 32
  /\ b.documents \in {"none", "equal"}
  /\ ProviderRequirements(b)
  /\ IsInjective(b.job.secret_names)
  /\ DeviceAndResourceRequirements(b)
  /\ InputsMatch(b)
  /\ NodesAccepted(b)
  /\ RequirementsMatch(b)
  /\ DependenciesResolve(b)
  /\ NoCycle(Order(b), Dependencies(b))
  /\ OutputsMatch(b)
  /\ AssetsAccepted(b)
  /\ CustodyAccepted(b)

AssetEntries(b) == UNION {Range(group.entries) : group \in Range(b.groups)}

(* stored: the objects in R2, with the digest their metadata names.  The   *)
(* last entry of a digest says what size it must have.                     *)
MissingDigests(entries, stored) ==
  {entries[i].digest : i \in {k \in DOMAIN entries :
     /\ \A m \in DOMAIN entries : entries[m].digest = entries[k].digest => m <= k
     /\ [digest |-> entries[k].digest, size |-> entries[k].size] \notin stored}}

-----------------------------------------------------------------------------
(* Artifacts and events                                                    *)

(* R2 holds objects [at, digest, size]: whole files at [name, part |-> 0], *)
(* and parts at [name |-> the artifact's digest, part |-> 1 ...].  A name  *)
(* is a file name as graphArtifactKey leaves it: several names that it     *)
(* sanitizes to one are one name here.                                     *)
Whole(name) == [name |-> name, part |-> 0]

Stored(stored, at, digest, size) == [at |-> at, digest |-> digest, size |-> size] \in stored

(* The parts of an upload are all there, in number, bytes and content.     *)
VerifiedPartMetadata(upload, stored) ==
  LET parts == upload.parts IN
  /\ upload.part_count >= 1
  /\ Len(parts) = upload.part_count
  /\ {parts[i].index : i \in DOMAIN parts} = 1 .. upload.part_count
  /\ MapThenSumSet(LAMBDA i : parts[i].size, DOMAIN parts) = upload.size
  /\ \A i \in DOMAIN parts :
       Stored(stored, [name |-> upload.digest, part |-> parts[i].index],
              parts[i].digest, parts[i].size)

(* uploads: what the job records of the artifacts uploaded for it.         *)
HasStoredGraphArtifact(custody, uploads, stored, artifact) ==
  LET known == {u \in uploads : u.digest = artifact.digest} IN
  IF known = {}
  THEN ~custody /\ Stored(stored, Whole(artifact.name), artifact.digest, artifact.size)
  ELSE \A u \in known :
         /\ u.size = artifact.size
         /\ IF u.object_name # "none"
            THEN Stored(stored, Whole(u.object_name), u.digest, u.size)
            ELSE VerifiedPartMetadata(u, stored)

(* graphArtifactError = null: an alias of an artifact already verified is  *)
(* not looked up again.                                                    *)
ArtifactsVerified(custody, uploads, stored, artifacts) ==
  \A i \in DOMAIN artifacts :
    LET before == {k \in 1 .. i - 1 : artifacts[k].digest = artifacts[i].digest} IN
    /\ artifacts[i].valid
    /\ \A k \in before : artifacts[k].size = artifacts[i].size
    /\ before = {} => HasStoredGraphArtifact(custody, uploads, stored, artifacts[i])

MaxRetainedGraphEvents == 512

Coalesced(event) == event.type \in {"node_progress", "node_heartbeat", "node_output_delta"}

(* A coalesced event takes the place of the last one of its kind.          *)
Superseded(log, event) ==
  {i \in DOMAIN log : /\ Coalesced(event)
                      /\ log[i].type = event.type
                      /\ log[i].node_id = event.node_id
                      /\ log[i].phase = event.phase}

WithoutFirst(log, places) == IF places = {} THEN log ELSE RemoveAt(log, Min(places))

(* The log grows by one event at a time, so that one goes when it is full. *)
RetainGraphEvent(log, event, max) ==
  LET pushed == Append(WithoutFirst(log, Superseded(log, event)), event)
      coalescible == {i \in DOMAIN pushed : Coalesced(pushed[i])} IN
  IF Len(pushed) <= max THEN pushed
  ELSE WithoutFirst(pushed, IF coalescible = {} THEN {1} ELSE coalescible)
=============================================================================
