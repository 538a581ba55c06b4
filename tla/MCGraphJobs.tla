----------------------------- MODULE MCGraphJobs -----------------------------
(* Instances of GraphJobs for TLC, and bounded checks of GraphRequests'    *)
(* operators.                                                              *)
EXTENDS GraphJobs, Sequences, TLC

R == INSTANCE GraphRequests
P == INSTANCE Placement

(* Nothing tells the devices, or the handlers, from one another.           *)
MCSymmetry == Permutations(Device) \cup Permutations(Slot)

-----------------------------------------------------------------------------
(* The elimination refuses just the dependencies that have a chain back to *)
(* where it began, in whatever order the request names its nodes.          *)
Names == {"a", "b", "c"}

Orders == {<<"a", "b", "c">>, <<"c", "a", "b">>}

(* What lies at most n dependencies away.                                  *)
Within(deps, from, n) ==
  LET reach[k \in 0 .. n] ==
        IF k = 0 THEN deps[from] ELSE reach[k - 1] \cup UNION {deps[x] : x \in reach[k - 1]} IN
  reach[n]

ASSUME CyclesAreFound ==
  \A order \in Orders, deps \in [Names -> SUBSET Names] :
    R!NoCycle(order, deps) <=> \A x \in Names : x \notin Within(deps, x, 3)

-----------------------------------------------------------------------------
(* A submission of two nodes, the second fed by the first.  What may go    *)
(* wrong with it: its dependencies, its policies, its manifest.            *)
Leaf(is, name, output) == [is |-> is, name |-> name, output |-> output]

GraphNode(id, provider, kind, arguments, after, cache) ==
  [id |-> id, provider |-> provider, kind |-> kind, arguments |-> arguments,
   depends_on |-> after, cache |-> cache, max_attempts |-> {}, timeout_seconds |-> {3600}]

Value(asset) == [is |-> "string", text |-> "t", asset |-> asset, leaves |-> <<>>]

Submission(provider, argument, after, cache, secrets, outputs, policy, file, required) ==
  [wellFormed |-> TRUE, documents |-> "none", bytes |-> 1000, max_parallel_nodes |-> {2},
   nodes |-> <<GraphNode("a", "mere.run", "text.value", <<Leaf("input", "x", "")>>, after, "none"),
               GraphNode("b", provider, IF provider = "mere.run" THEN "text.join" ELSE "k",
                         <<argument, Leaf("plain", "", "")>>, {}, cache)>>,
   definitions |-> [n \in {"x"} |-> [type |-> IF file THEN "asset" ELSE "string",
                                     required |-> required, default |-> {}, values |-> {}]],
   inputs |-> IF required THEN [n \in {"x"} |-> Value(IF file THEN "x" ELSE "none")] ELSE <<>>,
   outputs |-> [n \in outputs |-> <<Leaf("node", "b", "text")>>], metadata |-> <<>>,
   groups |-> IF file THEN <<[name |-> "x", kind |-> "asset",
                              entries |-> <<[digest |-> "dx", size |-> 2]>>]>> ELSE <<>>,
   job |-> [providers |-> IF provider = "mere.run" THEN <<>>
                          ELSE <<[id |-> provider, build |-> "b1", kinds |-> {"k", "l"}]>>,
            secret_names |-> secrets,
            node_kinds |-> <<IF provider = "mere.run" THEN "text.join" ELSE "k", "text.value">>,
            minimums |-> {1}, webhook_url |-> {}, data_policy |-> policy,
            outputs |-> R!SetToSeq({[name |-> n, reference |-> Leaf("node", "b", "text")] :
                                      n \in outputs})]]

Submissions ==
  {Submission(p, l, after, cache, secrets, outputs, policy, file, required) :
     p \in {"mere.run", "mere-x"},
     l \in {Leaf("node", "a", "text"), Leaf("node", "a", "image"), Leaf("secret", "s", "")},
     after \in SUBSET {"b", "z"}, cache \in {"none", "never"}, secrets \in {<<>>, <<"s">>},
     outputs \in {{"receipt"}, {"receipt", "extra"}},
     policy \in {"none", "local-custody.v1"}, file \in BOOLEAN, required \in BOOLEAN}

(* What a worker must have, as Placement reads it of a job.                *)
Work(b) ==
  [device |-> "none", custody |-> b.job.data_policy # "none", redacted |-> FALSE,
   state |-> "queued", contract |-> "1", minVersion |-> <<1>>, kinds |-> R!Range(b.job.node_kinds),
   providers |-> R!Range(b.job.providers), models |-> {}, backends |-> {"metal"},
   minMemory |-> 0, minSystemMemory |-> 0, minCores |-> 0, network |-> FALSE,
   secrets |-> R!Range(b.job.secret_names), minDisk |-> 0, assets |-> {}]

Workers ==
  {[device |-> "n1", hasWorker |-> TRUE,
    worker |-> [custody |-> TRUE, version |-> <<1>>, kinds |-> k, providers |-> p, disk |-> 1,
                contracts |-> {"1"}, models |-> {}, backend |-> "metal", memory |-> 1,
                systemMemory |-> 1, cores |-> 1, network |-> FALSE, secrets |-> s]] :
     k \in {{"text.value", "text.join"}, {"text.value", "k"}},
     p \in {<<>>, <<[id |-> "mere-x", build |-> "b1", kinds |-> {"k", "l"}]>>},
     s \in {{}, {"s"}}}

(* A submission that is taken has an order to run in, and a worker that    *)
(* Placement finds able has all its nodes use; a file it declares is       *)
(* wanted until it is stored, and none is under local custody.             *)
ASSUME AcceptedCanRun ==
  LET accepted == {b \in Submissions : R!CreateRequestAccepted(b)} IN
  /\ \A held \in BOOLEAN, p \in {"mere.run", "mere-x"}, is \in {"node", "secret"} :
       \E b \in accepted : /\ b.nodes[2].provider = p /\ b.nodes[2].arguments[1].is = is
                           /\ held <=> b.job.data_policy # "none"
  /\ \A b \in accepted :
       /\ b.nodes[1].depends_on = {} \/ b.nodes[2].arguments[1].is # "node"
       /\ b.job.data_policy # "none" => R!AssetEntries(b) = {}
       /\ \A node \in Workers : P!SupportsGraph(node, Work(b)) =>
            /\ \A n \in R!Range(b.nodes) : n.kind \in node.worker.kinds
            /\ b.nodes[2].provider # "mere.run" => node.worker.providers # <<>>
            /\ b.nodes[2].arguments[1].is = "secret" => node.worker.secrets = {"s"}
  /\ \E b \in accepted : R!AssetEntries(b) # {}
  /\ R!MissingDigests(<<[digest |-> "dx", size |-> 2]>>, {}) = {"dx"}
  /\ R!MissingDigests(<<[digest |-> "dx", size |-> 2]>>, {[digest |-> "dx", size |-> 2]}) = {}

-----------------------------------------------------------------------------
(* Believed artifacts: each was uploaded, at its size, although an alias   *)
(* is not looked up; one upload cannot be claimed at two sizes; and one    *)
(* sent in two parts is not there before both are.                         *)
Artifacts == [name : {"m", "n"}, digest : {"d", "e"}, size : {1, 2}, valid : {TRUE}]

UploadOf(digest, size, object, parts) ==
  [digest |-> digest, size |-> size, object_name |-> object, part_count |-> 2, parts |-> parts]

PartOf(i) == [index |-> i, digest |-> "p", size |-> 1]

ASSUME BelievedWasUploaded ==
  \A sent \in SUBSET {1, 2} :
    LET uploads == {UploadOf("d", 1, "m", <<>>),
                    UploadOf("e", 2, "none", R!SetToSeq({PartOf(i) : i \in sent}))}
        stored == {[at |-> R!Whole("m"), digest |-> "d", size |-> 1]}
                    \cup {[at |-> [name |-> "e", part |-> i], digest |-> "p", size |-> 1] :
                           i \in sent} IN
    \A one, two \in Artifacts :
      R!ArtifactsVerified(TRUE, uploads, stored, <<one, two>>) <=>
        \A a \in {one, two} : \/ a.digest = "d" /\ a.size = 1
                              \/ a.digest = "e" /\ a.size = 2 /\ sent = {1, 2}

(* Not so without custody and upload records: an alias of an artifact that *)
(* is stored under its name is let through and not stored.                 *)
ASSUME LegacyAliasesHide ==
  LET stored == {[at |-> R!Whole("m"), digest |-> "d", size |-> 1]}
      named(n) == [name |-> n, digest |-> "d", size |-> 1, valid |-> TRUE] IN
  /\ R!ArtifactsVerified(FALSE, {}, stored, <<named("m"), named("n")>>)
  /\ ~R!HasStoredGraphArtifact(FALSE, {}, stored, named("n"))

-----------------------------------------------------------------------------
(* A log of at most three events: what it loses is what renders progress,  *)
(* as long as there is any of it, and of that it keeps the last.           *)
Once(log, event) ==
  R!Coalesced(event) => Cardinality({i \in DOMAIN log : log[i] = event}) <= 1

Events ==
  [type : {"node_progress", "node_finished"}, node_id : {"a", "b"}, phase : {""},
   sequence : {0}]

ASSUME ProgressIsDroppedFirst ==
  \A log \in UNION {[1 .. n -> Events] : n \in 0 .. 3}, event \in Events :
    LET kept == R!RetainGraphEvent(log, event, 3)
        outcomes == {i \in DOMAIN log : ~R!Coalesced(log[i])} IN
    /\ Len(kept) <= 3
    /\ Cardinality({i \in DOMAIN kept : ~R!Coalesced(kept[i])}) =
         P!Min({3, Cardinality(outcomes) + (IF R!Coalesced(event) THEN 0 ELSE 1)})
    /\ (\A e \in Events : Once(log, e)) => \A e \in Events : Once(kept, e)
    /\ Cardinality(outcomes) < 3 => kept[Len(kept)] = event
=============================================================================
