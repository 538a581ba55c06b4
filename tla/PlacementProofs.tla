-------------------------- MODULE PlacementProofs --------------------------
(***************************************************************************)
(* Facts about the operators of Placement and GraphRequests, for all       *)
(* requests, nodes, versions and logs; MCAccount and MCGraphJobs check     *)
(* them over bounded inputs.  The loops of the code are recursive          *)
(* functions here, and what holds of each of their rounds is proved for    *)
(* the first round of which it would not hold (LeastNat).                  *)
(***************************************************************************)
EXTENDS Placement, GraphRequests, FiniteSetTheorems, WellFoundedInduction, TLAPS

LEMMA PartIsNat ==
  ASSUME NEW v \in Seq(Nat), NEW i \in 1 .. 3
  PROVE  Part(v, i) \in Nat
  BY DEF Part

(* compareVersions is a strict order on versions, in which versions that   *)
(* differ only by zeros at the end are not told apart.                     *)
THEOREM OlderIsAnOrder ==
  ASSUME NEW u \in Seq(Nat), NEW v \in Seq(Nat), NEW w \in Seq(Nat)
  PROVE  /\ ~Older(v, v)
         /\ Older(u, v) /\ Older(v, w) => Older(u, w)
         /\ Older(v, w) \/ Older(w, v) \/ \A i \in 1 .. 3 : Part(v, i) = Part(w, i)
<1> DEFINE Before(a1, a2, a3, b1, b2, b3) ==
             a1 < b1 \/ (a1 = b1 /\ a2 < b2) \/ (a1 = b1 /\ a2 = b2 /\ a3 < b3)
<1>1. ASSUME NEW x \in Seq(Nat), NEW y \in Seq(Nat)
      PROVE  Older(x, y) <=>
               Before(Part(x, 1), Part(x, 2), Part(x, 3), Part(y, 1), Part(y, 2), Part(y, 3))
  <2>1. \A i \in 1 .. 3 : i = 1 \/ i = 2 \/ i = 3
    OBVIOUS
  <2>2. /\ \A k \in 1 .. 1 - 1 : FALSE
        /\ \A k \in 1 .. 2 - 1 : k = 1
        /\ \A k \in 1 .. 3 - 1 : k = 1 \/ k = 2
    OBVIOUS
  <2>3. 1 \in 1 .. 2 - 1 /\ 1 \in 1 .. 3 - 1 /\ 2 \in 1 .. 3 - 1
    OBVIOUS
  <2> QED
    BY <2>1, <2>2, <2>3 DEF Older
<1>2. /\ Part(u, 1) \in Nat /\ Part(u, 2) \in Nat /\ Part(u, 3) \in Nat
      /\ Part(v, 1) \in Nat /\ Part(v, 2) \in Nat /\ Part(v, 3) \in Nat
      /\ Part(w, 1) \in Nat /\ Part(w, 2) \in Nat /\ Part(w, 3) \in Nat
  BY PartIsNat
<1>3. ~Older(v, v)
  <2>1. Older(v, v) <=> Before(Part(v, 1), Part(v, 2), Part(v, 3), Part(v, 1), Part(v, 2), Part(v, 3))
    BY <1>1
  <2> QED
    BY <1>2, <2>1
<1>4. Older(u, v) /\ Older(v, w) => Older(u, w)
  <2>1. Older(u, v) <=> Before(Part(u, 1), Part(u, 2), Part(u, 3), Part(v, 1), Part(v, 2), Part(v, 3))
    BY <1>1
  <2>2. Older(v, w) <=> Before(Part(v, 1), Part(v, 2), Part(v, 3), Part(w, 1), Part(w, 2), Part(w, 3))
    BY <1>1
  <2>3. Older(u, w) <=> Before(Part(u, 1), Part(u, 2), Part(u, 3), Part(w, 1), Part(w, 2), Part(w, 3))
    BY <1>1
  <2> QED
    BY <1>2, <2>1, <2>2, <2>3
<1>5. Older(v, w) \/ Older(w, v) \/ \A i \in 1 .. 3 : Part(v, i) = Part(w, i)
  <2>1. Older(v, w) <=> Before(Part(v, 1), Part(v, 2), Part(v, 3), Part(w, 1), Part(w, 2), Part(w, 3))
    BY <1>1
  <2>2. Older(w, v) <=> Before(Part(w, 1), Part(w, 2), Part(w, 3), Part(v, 1), Part(v, 2), Part(v, 3))
    BY <1>1
  <2>3. \/ Older(v, w) \/ Older(w, v)
        \/ Part(v, 1) = Part(w, 1) /\ Part(v, 2) = Part(w, 2) /\ Part(v, 3) = Part(w, 3)
    BY <1>2, <2>1, <2>2
  <2>4. \A i \in 1 .. 3 : i = 1 \/ i = 2 \/ i = 3
    OBVIOUS
  <2> QED
    BY <2>3, <2>4
<1> QED
  BY <1>3, <1>4, <1>5

(* A node the report lists no blocker for is one the scheduler may choose, *)
(* and the other way round.                                                *)
LEMMA BlockersAgree ==
  ASSUME NEW g, NEW n, n.enabled \in BOOLEAN, n.draining \in BOOLEAN, n.revoked \in BOOLEAN
  PROVE  Blockers(n, g) = {} <=>
           n.status = "online" /\ CanAccept(n) /\ SupportsGraph(n, g)
<1>1. PolicyBlockers(n) = {} <=> n.status = "online" /\ CanAccept(n)
  BY DEF PolicyBlockers, CanAccept
<1> QED
  BY <1>1 DEF Blockers, SupportsGraph

(* What an owner is told of a waiting graph is what the scheduler would    *)
(* do with it: `none' (nothing is in the way) exactly when a node is       *)
(* eligible, and `busy' only when some node would run it, were it not for  *)
(* its present work or policy.                                             *)
THEOREM ReportTellsTruth ==
  ASSUME NEW nodes, NEW g,
         \A n \in nodes : n.enabled \in BOOLEAN /\ n.draining \in BOOLEAN /\ n.revoked \in BOOLEAN
  PROVE  LET supporting == {n \in nodes : SupportsGraph(n, g)} IN
         /\ Diagnostic(nodes, g) = "none" <=> Eligible(supporting) # {}
         /\ Diagnostic(nodes, g) = "busy" =>
              supporting # {} /\ Eligible(supporting) = {}
<1> DEFINE supporting == {n \in nodes : SupportsGraph(n, g)}
           Ready == \E n \in nodes : Blockers(n, g) = {}
           NoNode == nodes = {}
           NoWorker == \A n \in nodes : "graph_worker_missing" \in Blockers(n, g)
           Able == \E n \in nodes : CapabilityBlockers(n, g) = {}
<1>1. Ready <=> Eligible(supporting) # {}
  BY BlockersAgree DEF Eligible
<1>2. Ready => Diagnostic(nodes, g) = "none"
  BY DEF Diagnostic
<1>3. ~Ready => Diagnostic(nodes, g) \in {"no nodes", "no workers", "busy", "unsatisfied"}
  BY DEF Diagnostic
<1>4. Diagnostic(nodes, g) = "busy" => Able
  BY DEF Diagnostic
<1>5. Able => supporting # {}
  BY DEF SupportsGraph
<1> QED
  BY <1>1, <1>2, <1>3, <1>4, <1>5

-----------------------------------------------------------------------------
(* The elimination of a graph's nodes                                      *)

(* A set of numbers has a least one: what stands in for induction.         *)
LEMMA LeastNat ==
  ASSUME NEW T, T \subseteq Nat, T # {}
  PROVE  \E n \in T : \A m \in T : n <= m
<1> DEFINE Rel == {ss \in Nat \X Nat : ss[1] < ss[2]}
<1>1. IsWellFoundedOn(Rel, Nat)
  BY NatLessThanWellFounded, Zenon DEF OpToRel
<1>2. \A m, k \in Nat : m < k => <<m, k>> \in Rel
  OBVIOUS
<1> HIDE DEF Rel
<1>3. PICK n \in T : \A m \in T : ~(<<m, n>> \in Rel)
  BY <1>1, WFMin
<1>4. \A m \in T : ~(m < n)
  BY <1>2, <1>3
<1>5. \A m \in T : m \in Nat /\ n \in Nat
  OBVIOUS
<1>6. \A m \in T : n <= m
  BY <1>4, <1>5
<1> QED
  BY <1>6

(* The recursive function the code's loop is translated to exists.         *)
IsRun(f, order, deps, n) ==
  /\ f[0] = deps
  /\ \A i \in 1 .. n : f[i] = Eliminated(order, f[i - 1])

LEMMA RunsExist ==
  ASSUME NEW order, NEW deps
  PROVE  \A n \in Nat : \E f : IsRun(f, order, deps, n)
<1> DEFINE T == {n \in Nat : ~ \E f : IsRun(f, order, deps, n)}
<1>1. SUFFICES ASSUME T # {} PROVE FALSE
  OBVIOUS
<1>2. PICK n \in T : \A m \in T : n <= m
  BY <1>1, LeastNat
<1>3. CASE n = 0
  <2> DEFINE f == [i \in {0} |-> deps]
  <2>1. IsRun(f, order, deps, 0)
    BY DEF IsRun
  <2> QED
    BY <1>2, <1>3, <2>1
<1>4. CASE n # 0
  <2>1. n \in Nat /\ n - 1 \in Nat /\ ~(n <= n - 1)
    BY <1>2, <1>4
  <2>2. PICK g : IsRun(g, order, deps, n - 1)
    BY <1>2, <2>1
  <2> DEFINE f == [i \in 0 .. n |-> IF i = n THEN Eliminated(order, g[n - 1]) ELSE g[i]]
  <2>3. f[0] = deps
    BY <1>4, <2>1, <2>2 DEF IsRun
  <2>4. ASSUME NEW i \in 1 .. n PROVE f[i] = Eliminated(order, f[i - 1])
    <3>1. i - 1 \in 0 .. n /\ i - 1 # n /\ f[i - 1] = g[i - 1]
      BY <2>1
    <3>2. CASE i = n
      BY <3>1, <3>2, <2>1
    <3>3. CASE i # n
      <4>1. i \in 1 .. n - 1 /\ f[i] = g[i]
        BY <3>3, <2>1
      <4> QED
        BY <3>1, <4>1, <2>2 DEF IsRun
    <3> QED
      BY <3>2, <3>3
  <2> HIDE DEF f
  <2>5. IsRun(f, order, deps, n)
    BY <2>3, <2>4 DEF IsRun
  <2> QED
    BY <1>2, <2>5
<1> QED
  BY <1>3, <1>4

LEMMA RunsAgree ==
  ASSUME NEW order, NEW deps, NEW n \in Nat, NEW k \in Nat, NEW f, NEW g,
         IsRun(f, order, deps, n), IsRun(g, order, deps, k)
  PROVE  \A i \in Nat : i <= n /\ i <= k => f[i] = g[i]
<1> DEFINE T == {i \in Nat : i <= n /\ i <= k /\ f[i] # g[i]}
<1>1. SUFFICES ASSUME T # {} PROVE FALSE
  OBVIOUS
<1>2. PICK i \in T : \A m \in T : i <= m
  BY <1>1, LeastNat
<1>3. i # 0
  BY <1>2 DEF IsRun
<1>4. i \in 1 .. n /\ i \in 1 .. k /\ i - 1 \in Nat /\ ~(i <= i - 1) /\ i - 1 <= n /\ i - 1 <= k
  BY <1>2, <1>3
<1>5. f[i - 1] = g[i - 1]
  BY <1>2, <1>4
<1> QED
  BY <1>2, <1>4, <1>5 DEF IsRun

LEMMA EliminationUnfolds ==
  ASSUME NEW order, NEW deps
  PROVE  /\ Elimination(order, deps)[0] = deps
         /\ \A k \in Nat :
              Elimination(order, deps)[k + 1] = Eliminated(order, Elimination(order, deps)[k])
<1> DEFINE Run(n) == CHOOSE f : IsRun(f, order, deps, n)
           run == [n \in Nat |-> Run(n)[n]]
           Def(r) == [k \in Nat |-> IF k = 0 THEN deps ELSE Eliminated(order, r[k - 1])]
<1>1. \A n \in Nat : IsRun(Run(n), order, deps, n)
  BY RunsExist
<1> HIDE DEF Run
<1>2. run[0] = deps
  BY <1>1 DEF IsRun
<1>3. ASSUME NEW n \in Nat, n # 0 PROVE run[n] = Eliminated(order, run[n - 1])
  <2>1. n - 1 \in Nat /\ n \in 1 .. n /\ n - 1 <= n /\ n - 1 <= n - 1
    BY <1>3
  <2>2. Run(n)[n] = Eliminated(order, Run(n)[n - 1])
    BY <1>1, <2>1 DEF IsRun
  <2>3. Run(n)[n - 1] = Run(n - 1)[n - 1]
    BY <1>1, <2>1, RunsAgree
  <2> QED
    BY <2>1, <2>2, <2>3
<1>4. run = Def(run)
  BY <1>2, <1>3
<1> HIDE DEF run
<1>5. Elimination(order, deps) = Def(Elimination(order, deps))
  BY <1>4, Zenon DEF Elimination
<1>6. \A k \in Nat : k + 1 \in Nat /\ k + 1 # 0 /\ k + 1 - 1 = k
  OBVIOUS
<1> DEFINE e == Elimination(order, deps)
<1> HIDE DEF e
<1>7. e[0] = deps /\ \A k \in Nat : e[k + 1] = Eliminated(order, e[k])
  <2>1. e = Def(e)
    BY <1>5 DEF e
  <2>2. \A k \in Nat : e[k] = (IF k = 0 THEN deps ELSE Eliminated(order, e[k - 1]))
    BY <2>1
  <2> QED
    BY <2>2, <1>6
<1> QED
  BY <1>7 DEF e

LEMMA MinIsThere ==
  ASSUME NEW S, S \subseteq Nat, S # {}
  PROVE  Min(S) \in S /\ \A k \in S : Min(S) <= k
<1>1. \E i \in S : \A k \in S : i <= k
  BY LeastNat
<1> QED
  BY <1>1, Zenon DEF Min

(* What remains after a round: the dependencies, restricted to the names   *)
(* that remain.                                                            *)
Restricts(remaining, order, deps) ==
  /\ DOMAIN remaining \subseteq Range(order)
  /\ remaining = [id \in DOMAIN remaining |-> deps[id] \cap DOMAIN remaining]

LEMMA RoundRestricts ==
  ASSUME NEW Id, NEW order \in Seq(Id), NEW deps, NEW remaining,
         Restricts(remaining, order, deps), Free(order, remaining) # {}
  PROVE  \E next \in DOMAIN remaining :
           /\ remaining[next] = {}
           /\ DOMAIN Eliminated(order, remaining) = DOMAIN remaining \ {next}
           /\ Restricts(Eliminated(order, remaining), order, deps)
<1> DEFINE i == Min(Free(order, remaining))
           next == order[i]
           after == [id \in DOMAIN remaining \ {next} |-> remaining[id] \ {next}]
<1>1. i \in Free(order, remaining)
  <2>1. Free(order, remaining) \subseteq Nat
    BY DEF Free
  <2> QED
    BY <2>1, MinIsThere
<1> HIDE DEF i
<1>2. next \in DOMAIN remaining /\ remaining[next] = {}
  BY <1>1 DEF Free
<1>3. Eliminated(order, remaining) = after
  BY DEF Eliminated, i
<1> HIDE DEF next
<1>4. DOMAIN after = DOMAIN remaining \ {next}
  OBVIOUS
<1>5. \A id \in DOMAIN after : after[id] = deps[id] \cap DOMAIN after
  BY DEF Restricts
<1>6. after = [id \in DOMAIN after |-> after[id]]
  OBVIOUS
<1> HIDE DEF after
<1>7. after = [id \in DOMAIN after |-> deps[id] \cap DOMAIN after]
  BY <1>5, <1>6
<1>8. Restricts(after, order, deps)
  BY <1>4, <1>7 DEF Restricts
<1> QED
  BY <1>2, <1>3, <1>4, <1>8

LEMMA StuckStays ==
  ASSUME NEW order, NEW remaining, Free(order, remaining) = {}
  PROVE  Eliminated(order, remaining) = remaining
  BY DEF Eliminated

(* A set of names each of which waits for one of them.                     *)
Circular(C, deps) == \A c \in C : deps[c] \cap C # {}

LEMMA RangeIsFinite ==
  ASSUME NEW Id, NEW order \in Seq(Id)
  PROVE  IsFiniteSet(Range(order)) /\ Cardinality(Range(order)) <= Len(order)
<1>1. Len(order) \in Nat /\ DOMAIN order = 1 .. Len(order)
  OBVIOUS
<1>2. IsFiniteSet(1 .. Len(order)) /\ Cardinality(1 .. Len(order)) = Len(order)
  BY <1>1, FS_Interval
<1>3. order \in Surjection(1 .. Len(order), Range(order))
  BY <1>1 DEF Surjection, Range
<1> QED
  BY <1>2, <1>3, FS_Surjection

LEMMA LoopRestricts ==
  ASSUME NEW Id, NEW order \in Seq(Id),
         NEW deps \in [Range(order) -> SUBSET Range(order)],
         NEW e, e[0] = deps, \A k \in Nat : e[k + 1] = Eliminated(order, e[k])
  PROVE  \A k \in Nat : Restricts(e[k], order, deps)
<1> DEFINE T == {k \in Nat : ~Restricts(e[k], order, deps)}
<1>1. SUFFICES ASSUME T # {} PROVE FALSE
  OBVIOUS
<1>2. PICK k \in T : \A m \in T : k <= m
  BY <1>1, LeastNat
<1>3. Restricts(deps, order, deps)
  <2>1. \A id \in DOMAIN deps : deps[id] = deps[id] \cap DOMAIN deps
    OBVIOUS
  <2>2. deps = [id \in DOMAIN deps |-> deps[id]]
    OBVIOUS
  <2>3. deps = [id \in DOMAIN deps |-> deps[id] \cap DOMAIN deps]
    BY <2>1, <2>2
  <2> QED
    BY <2>3 DEF Restricts
<1>4. k # 0
  BY <1>2, <1>3
<1>5. k - 1 \in Nat /\ ~(k <= k - 1) /\ k - 1 + 1 = k
  BY <1>2, <1>4
<1>6. Restricts(e[k - 1], order, deps) /\ e[k] = Eliminated(order, e[k - 1])
  BY <1>2, <1>5
<1>7. CASE Free(order, e[k - 1]) = {}
  BY <1>2, <1>6, <1>7, StuckStays
<1>8. CASE Free(order, e[k - 1]) # {}
  <2> DEFINE r == e[k - 1]
  <2>1. Restricts(r, order, deps) /\ Free(order, r) # {}
    BY <1>6, <1>8
  <2> HIDE DEF r
  <2>2. Restricts(Eliminated(order, r), order, deps)
    BY <2>1, RoundRestricts
  <2> QED
    BY <1>2, <1>6, <2>2 DEF r
<1> QED
  BY <1>7, <1>8

LEMMA CirclesRemain ==
  ASSUME NEW Id, NEW order \in Seq(Id),
         NEW deps \in [Range(order) -> SUBSET Range(order)],
         NEW e, e[0] = deps, \A k \in Nat : e[k + 1] = Eliminated(order, e[k]),
         NEW C \in SUBSET Range(order), Circular(C, deps)
  PROVE  \A k \in Nat : C \subseteq DOMAIN e[k]
<1> DEFINE T == {k \in Nat : ~(C \subseteq DOMAIN e[k])}
<1>1. SUFFICES ASSUME T # {} PROVE FALSE
  OBVIOUS
<1>2. PICK k \in T : \A m \in T : k <= m
  BY <1>1, LeastNat
<1>3. k # 0
  BY <1>2
<1>4. k - 1 \in Nat /\ ~(k <= k - 1) /\ k - 1 + 1 = k
  BY <1>2, <1>3
<1>5. /\ C \subseteq DOMAIN e[k - 1]
      /\ e[k] = Eliminated(order, e[k - 1])
      /\ Restricts(e[k - 1], order, deps)
  BY <1>2, <1>4, LoopRestricts
<1>6. CASE Free(order, e[k - 1]) = {}
  BY <1>2, <1>5, <1>6, StuckStays
<1>7. CASE Free(order, e[k - 1]) # {}
  <2> DEFINE r == e[k - 1]
  <2>4. Restricts(r, order, deps) /\ Free(order, r) # {}
    BY <1>5, <1>7
  <2> HIDE DEF r
  <2>5. \E next \in DOMAIN r :
          /\ r[next] = {}
          /\ DOMAIN Eliminated(order, r) = DOMAIN r \ {next}
          /\ Restricts(Eliminated(order, r), order, deps)
    BY <2>4, RoundRestricts, Zenon
  <2>1. PICK next \in DOMAIN e[k - 1] :
          /\ e[k - 1][next] = {}
          /\ DOMAIN e[k] = DOMAIN e[k - 1] \ {next}
    BY <1>5, <2>5 DEF r
  <2>2. e[k - 1][next] = deps[next] \cap DOMAIN e[k - 1]
    BY <1>5 DEF Restricts
  <2>3. next \notin C
    BY <1>5, <2>1, <2>2 DEF Circular
  <2> QED
    BY <1>2, <1>5, <2>1, <2>3
<1> QED
  BY <1>6, <1>7

(* The loop needs no more rounds than there are names.                     *)
LEMMA LoopEnds ==
  ASSUME NEW Id, NEW order \in Seq(Id),
         NEW deps \in [Range(order) -> SUBSET Range(order)],
         NEW e, e[0] = deps, \A k \in Nat : e[k + 1] = Eliminated(order, e[k])
  PROVE  Free(order, e[Len(order)]) = {}
<1> DEFINE Done(k) == \/ Free(order, e[k]) = {}
                      \/ Cardinality(DOMAIN e[k]) + k <= Len(order)
           T == {k \in Nat : ~Done(k)}
<1>1. \A k \in Nat : /\ Restricts(e[k], order, deps)
                     /\ IsFiniteSet(DOMAIN e[k]) /\ Cardinality(DOMAIN e[k]) \in Nat
  <2>1. ASSUME NEW k \in Nat
        PROVE  /\ Restricts(e[k], order, deps)
               /\ IsFiniteSet(DOMAIN e[k]) /\ Cardinality(DOMAIN e[k]) \in Nat
    <3>1. Restricts(e[k], order, deps)
      BY LoopRestricts
    <3>2. DOMAIN e[k] \subseteq Range(order)
      BY <3>1 DEF Restricts
    <3>3. IsFiniteSet(DOMAIN e[k])
      BY <3>2, RangeIsFinite, FS_Subset
    <3> QED
      BY <3>1, <3>3, FS_CardinalityType
  <2> QED
    BY <2>1
<1>2. Len(order) \in Nat
  OBVIOUS
<1>3. Done(0)
  <2>1. DOMAIN e[0] = Range(order)
    OBVIOUS
  <2>2. Cardinality(DOMAIN e[0]) <= Len(order) /\ Cardinality(DOMAIN e[0]) \in Nat
    BY <1>1, <2>1, RangeIsFinite
  <2> QED
    BY <1>2, <2>2
<1>5. ASSUME NEW j \in Nat, Done(j) PROVE Done(j + 1)
  <2> DEFINE r == e[j]
  <2>1. e[j + 1] = Eliminated(order, r)
    OBVIOUS
  <2>2. Restricts(r, order, deps) /\ IsFiniteSet(DOMAIN r) /\ Cardinality(DOMAIN r) \in Nat
    BY <1>1
  <2>3. Free(order, r) = {} \/ Cardinality(DOMAIN r) + j <= Len(order)
    BY <1>5
  <2> HIDE DEF r
  <2>4. CASE Free(order, r) = {}
    BY <2>1, <2>4, StuckStays
  <2>5. CASE Free(order, r) # {}
    <3>1. PICK next \in DOMAIN r :
            /\ r[next] = {}
            /\ DOMAIN Eliminated(order, r) = DOMAIN r \ {next}
            /\ Restricts(Eliminated(order, r), order, deps)
      BY <2>2, <2>5, RoundRestricts, Zenon
    <3>2. Cardinality(DOMAIN r \ {next}) = Cardinality(DOMAIN r) - 1
      BY <2>2, <3>1, FS_RemoveElement
    <3>3. Cardinality(DOMAIN e[j + 1]) = Cardinality(DOMAIN r) - 1
      BY <2>1, <3>1, <3>2
    <3>4. Cardinality(DOMAIN e[j + 1]) + (j + 1) <= Len(order)
      <4>1. \A a, b, n \in Nat : a + b <= n => (a - 1) + (b + 1) <= n
        OBVIOUS
      <4>2. (Cardinality(DOMAIN r) - 1) + (j + 1) <= Len(order)
        BY <1>2, <2>2, <2>3, <2>5, <4>1
      <4> QED
        BY <3>3, <4>2
    <3> QED
      BY <3>4
  <2> QED
    BY <2>4, <2>5
<1> HIDE DEF Done
<1>6. \A k \in Nat : Done(k)
  <2>1. SUFFICES ASSUME T # {} PROVE FALSE
    OBVIOUS
  <2>2. PICK k \in T : \A m \in T : k <= m
    BY <2>1, LeastNat
  <2>3. k # 0
    BY <2>2, <1>3
  <2>4. k \in Nat /\ k - 1 \in Nat /\ ~(k <= k - 1) /\ k - 1 + 1 = k
    BY <2>2, <2>3
  <2>5. Done(k - 1)
    BY <2>2, <2>4
  <2>6. Done(k - 1 + 1)
    BY <1>5, <2>4, <2>5
  <2> QED
    BY <2>2, <2>4, <2>6
<1>7. \/ Free(order, e[Len(order)]) = {}
      \/ Cardinality(DOMAIN e[Len(order)]) + Len(order) <= Len(order)
  BY <1>2, <1>6 DEF Done
<1>4. CASE Cardinality(DOMAIN e[Len(order)]) + Len(order) <= Len(order)
  <2>1. Len(order) \in Nat
    OBVIOUS
  <2>2. Cardinality(DOMAIN e[Len(order)]) = 0
    BY <1>1, <1>4, <2>1
  <2>3. DOMAIN e[Len(order)] = {}
    BY <1>1, <2>1, <2>2, FS_EmptySet
  <2> QED
    BY <2>3 DEF Free
<1> QED
  BY <1>4, <1>7

(* The check of validateCreateRequest against cycles: it refuses a graph   *)
(* exactly when some of its nodes can never run, because each of them      *)
(* waits for another; in whatever order the nodes are listed, and whatever *)
(* they wait for.                                                          *)
THEOREM CyclesAreRefused ==
  ASSUME NEW Id, NEW order \in Seq(Id),
         NEW deps \in [Range(order) -> SUBSET Range(order)]
  PROVE  NoCycle(order, deps) <=>
           ~ \E C \in SUBSET Range(order) : C # {} /\ Circular(C, deps)
<1> DEFINE e == Elimination(order, deps)
           rest == DOMAIN e[Len(order)]
<1>1. e[0] = deps /\ \A k \in Nat : e[k + 1] = Eliminated(order, e[k])
  BY EliminationUnfolds
<1>2. NoCycle(order, deps) <=> rest = {}
  BY DEF NoCycle
<1> HIDE DEF e
<1>3. Len(order) \in Nat
  OBVIOUS
<1>4. ASSUME rest = {}, NEW C \in SUBSET Range(order), Circular(C, deps) PROVE C = {}
  BY <1>1, <1>3, <1>4, CirclesRemain
<1>5. ASSUME rest # {} PROVE rest \in SUBSET Range(order) /\ Circular(rest, deps)
  <2>1. Restricts(e[Len(order)], order, deps)
    BY <1>1, <1>3, LoopRestricts
  <2>2. Free(order, e[Len(order)]) = {}
    BY <1>1, LoopEnds
  <2>3. ASSUME NEW c \in rest PROVE deps[c] \cap rest # {}
    <3>1. PICK i \in DOMAIN order : order[i] = c
      BY <2>1 DEF Restricts, Range
    <3>2. e[Len(order)][c] # {}
      BY <2>2, <3>1 DEF Free
    <3>3. e[Len(order)][c] = deps[c] \cap rest
      BY <2>1 DEF Restricts
    <3> QED
      BY <3>2, <3>3
  <2> QED
    BY <2>1, <2>3 DEF Restricts, Circular
<1> QED
  BY <1>2, <1>4, <1>5

-----------------------------------------------------------------------------
(* Accepted requests                                                       *)

LEMMA RequestOrder ==
  ASSUME NEW b, NEW GNode, b.nodes \in Seq(GNode), DependenciesResolve(b)
  PROVE  /\ Order(b) \in Seq(NodeIds(b))
         /\ Range(Order(b)) = NodeIds(b)
         /\ Dependencies(b) \in [Range(Order(b)) -> SUBSET Range(Order(b))]
<1>1. Len(b.nodes) \in Nat /\ DOMAIN b.nodes = 1 .. Len(b.nodes)
  OBVIOUS
<1>2. \A i \in DOMAIN b.nodes : b.nodes[i].id \in NodeIds(b)
  BY DEF NodeIds, Range
<1>3. Order(b) \in Seq(NodeIds(b))
  BY <1>1, <1>2 DEF Order
<1>4. Range(Order(b)) = NodeIds(b)
  BY DEF Order, Range, NodeIds
<1>5. \A id \in NodeIds(b) : Dependencies(b)[id] \in SUBSET NodeIds(b)
  BY DEF Dependencies, DependenciesResolve
<1>6. Dependencies(b) \in [NodeIds(b) -> SUBSET NodeIds(b)]
  BY <1>5 DEF Dependencies
<1> QED
  BY <1>3, <1>4, <1>6

(* A graph that validateCreateRequest takes can be run to its end: of any  *)
(* nodes still to be run there is one that waits for none of them, and     *)
(* all a node waits for is in the graph.                                   *)
THEOREM AcceptedGraphsCanRun ==
  ASSUME NEW b, NEW GNode, b.nodes \in Seq(GNode), CreateRequestAccepted(b)
  PROVE  \A todo \in SUBSET Range(b.nodes) :
           todo # {} =>
             \E node \in todo : /\ DependenciesOf(node) \cap {n.id : n \in todo} = {}
                                /\ DependenciesOf(node) \subseteq NodeIds(b)
<1>1. /\ DependenciesResolve(b) /\ NodesAccepted(b)
      /\ NoCycle(Order(b), Dependencies(b))
  BY DEF CreateRequestAccepted
<1>2. /\ Order(b) \in Seq(NodeIds(b))
      /\ Range(Order(b)) = NodeIds(b)
      /\ Dependencies(b) \in [Range(Order(b)) -> SUBSET Range(Order(b))]
  BY <1>1, RequestOrder
<1>3. \A C \in SUBSET NodeIds(b) : C # {} => ~Circular(C, Dependencies(b))
  BY <1>1, <1>2, CyclesAreRefused
<1>4. ASSUME NEW todo \in SUBSET Range(b.nodes), todo # {}
      PROVE  \E node \in todo : /\ DependenciesOf(node) \cap {n.id : n \in todo} = {}
                                /\ DependenciesOf(node) \subseteq NodeIds(b)
  <2> DEFINE C == {n.id : n \in todo}
  <2>1. C \in SUBSET NodeIds(b) /\ C # {}
    BY <1>4 DEF NodeIds
  <2>2. PICK id \in C : Dependencies(b)[id] \cap C = {}
    BY <1>3, <2>1 DEF Circular
  <2>3. PICK node \in todo : node.id = id
    OBVIOUS
  <2>4. node \in Range(b.nodes) /\ id \in NodeIds(b)
    BY <2>1
  <2>5. DependenciesOf(node) \subseteq Dependencies(b)[id]
    BY <2>3, <2>4 DEF Dependencies
  <2>6. DependenciesOf(node) \subseteq NodeIds(b)
    BY <1>1, <2>4 DEF DependenciesResolve
  <2> QED
    BY <2>2, <2>5, <2>6
<1> QED
  BY <1>4

(* The manifest of an accepted request speaks for its nodes: a worker that *)
(* the scheduler finds able to serve the manifest's kinds, providers and   *)
(* secrets has what every single node of the graph needs, although the     *)
(* scheduler never looks at the graph.                                     *)
THEOREM AbleWorkersServeEveryNode ==
  ASSUME NEW b, NEW worker, NEW g, NEW Provider,
         worker.worker.providers \in Seq(Provider),
         g.kinds = Range(b.job.node_kinds), g.providers = Range(b.job.providers),
         g.secrets = Range(b.job.secret_names),
         CreateRequestAccepted(b), SupportsGraph(worker, g)
  PROVE  \A node \in Range(b.nodes) :
           /\ node.kind \in worker.worker.kinds
           /\ node.provider # "mere.run" =>
                \E p \in Range(worker.worker.providers) :
                  p.id = node.provider /\ node.kind \in p.kinds
           /\ SecretNames(node.arguments) \subseteq worker.worker.secrets
<1>1. NodesAccepted(b) /\ RequirementsMatch(b) /\ ProviderRequirements(b)
  BY DEF CreateRequestAccepted
<1>2. /\ worker.hasWorker
      /\ ProviderBlockers(worker, g) = {}
      /\ g.kinds \subseteq worker.worker.kinds
      /\ g.secrets \subseteq worker.worker.secrets
  <2>1. CapabilityBlockers(worker, g) = {}
    BY DEF SupportsGraph
  <2>2. worker.hasWorker
    BY <2>1, SMT DEF CapabilityBlockers
  <2>3. /\ ProviderBlockers(worker, g) = {}
        /\ (IF g.kinds \subseteq worker.worker.kinds THEN {} ELSE {"node_kind_missing"}) = {}
        /\ (IF g.secrets \subseteq worker.worker.secrets THEN {} ELSE {"secret_missing"}) = {}
    BY <2>1, <2>2, SMT DEF CapabilityBlockers
  <2> QED
    BY <2>2, <2>3
<1>3. TAKE node \in Range(b.nodes)
<1>4. node.kind \in worker.worker.kinds
  BY <1>1, <1>2 DEF RequirementsMatch, Lists
<1>5. SecretNames(node.arguments) \subseteq worker.worker.secrets
  BY <1>1, <1>2 DEF RequirementsMatch, Lists, BoundSecrets
<1>6. ASSUME node.provider # "mere.run"
      PROVE  \E p \in Range(worker.worker.providers) :
               p.id = node.provider /\ node.kind \in p.kinds
  <2>1. PICK r \in Range(b.job.providers) : r.id = node.provider /\ node.kind \in r.kinds
    BY <1>1, <1>6 DEF NodesAccepted, KindDeclared
  <2> DEFINE providers == worker.worker.providers
             having == {i \in DOMAIN providers : providers[i].id = r.id}
             first == providers[Min(having)]
  <2>2. ProviderBlocker(worker, r) = {}
    BY <1>2, <2>1 DEF ProviderBlockers
  <2>3. having # {} /\ r.kinds \subseteq first.kinds
    BY <2>2 DEF ProviderBlocker
  <2>4. having \subseteq Nat
    OBVIOUS
  <2>5. Min(having) \in having
    BY <2>3, <2>4, MinIsThere
  <2>6. Min(having) \in DOMAIN providers /\ first.id = r.id
    BY <2>5
  <2>7. first \in Range(providers)
    BY <2>6 DEF Range
  <2> QED
    BY <2>1, <2>3, <2>6, <2>7
<1> QED
  BY <1>4, <1>5, <1>6

(* Under local custody nothing but a receipt and a report leaves the       *)
(* graph, and no input is a file that would have to be uploaded: the       *)
(* policy's check on the manifest holds of the graph itself.               *)
THEOREM CustodyBindsTheGraph ==
  ASSUME NEW b, CreateRequestAccepted(b), b.job.data_policy # "none"
  PROVE  /\ DOMAIN b.outputs \subseteq {"receipt", "report"}
         /\ \A name \in DOMAIN b.definitions :
              b.definitions[name].type \notin {"asset", "asset_directory"}
<1>1. CustodyAccepted(b) /\ AssetsAccepted(b) /\ OutputsMatch(b)
  BY DEF CreateRequestAccepted
<1>2. b.groups = <<>> /\ \A output \in Range(b.job.outputs) : output.name \in {"receipt", "report"}
  BY <1>1 DEF CustodyAccepted
<1>3. Range(b.groups) = {}
  BY <1>2 DEF Range
<1>4. ASSUME NEW name \in DOMAIN b.outputs PROVE name \in {"receipt", "report"}
  <2>1. PICK i \in DOMAIN b.outputs[name] : b.outputs[name][i].is = "node"
    BY <1>1 DEF OutputsMatch
  <2> DEFINE leaf == b.outputs[name][i]
             output == [name |-> name, reference |-> leaf]
  <2>2. leaf \in ReferenceStrings(b.outputs[name])
    BY <2>1 DEF ReferenceStrings, IsReference, Range
  <2> HIDE DEF leaf
  <2>3. output \in Range(b.job.outputs)
    <3> DEFINE Declared(n) ==
                 {[name |-> n, reference |-> l] : l \in ReferenceStrings(b.outputs[n])}
    <3>1. output \in Declared(name)
      BY <2>2
    <3>2. Range(b.job.outputs) = UNION {Declared(n) : n \in DOMAIN b.outputs}
      BY <1>1, Zenon DEF OutputsMatch, Lists
    <3> HIDE DEF Declared
    <3> QED
      BY <3>1, <3>2
  <2>4. output.name = name
    OBVIOUS
  <2> QED
    BY <1>2, <2>3, <2>4
<1>5. \A name \in DOMAIN b.definitions :
        b.definitions[name].type \notin {"asset", "asset_directory"}
  BY <1>1, <1>3 DEF AssetsAccepted
<1> QED
  BY <1>4, <1>5

-----------------------------------------------------------------------------
(* The retained log                                                        *)

LEMMA RemovedOne ==
  ASSUME NEW Event, NEW s \in Seq(Event), NEW i \in DOMAIN s
  PROVE  /\ RemoveAt(s, i) \in Seq(Event)
         /\ Len(RemoveAt(s, i)) = Len(s) - 1
         /\ \A k \in DOMAIN RemoveAt(s, i) :
              RemoveAt(s, i)[k] = IF k < i THEN s[k] ELSE s[k + 1]
         /\ \A k \in DOMAIN s : k # i => s[k] \in Range(RemoveAt(s, i))
<1> DEFINE front == SubSeq(s, 1, i - 1)
           back == SubSeq(s, i + 1, Len(s))
           rest == front \o back
<1>1. /\ Len(s) \in Nat /\ DOMAIN s = 1 .. Len(s)
      /\ i \in Nat /\ 1 <= i /\ i <= Len(s)
  OBVIOUS
<1>2. front \in Seq(Event) /\ Len(front) = i - 1 /\ \A k \in 1 .. i - 1 : front[k] = s[k]
  BY <1>1
<1>3. /\ back \in Seq(Event) /\ Len(back) = Len(s) - i
      /\ \A k \in 1 .. Len(s) - i : back[k] = s[k + i]
  <2>1. CASE i = Len(s)
    BY <1>1, <2>1
  <2>2. CASE i < Len(s)
    BY <1>1, <2>2
  <2> QED
    BY <1>1, <2>1, <2>2
<1> HIDE DEF front, back
<1>4. rest \in Seq(Event) /\ Len(rest) = Len(s) - 1
  <2>1. rest \in Seq(Event) /\ Len(rest) = Len(front) + Len(back)
    <3>1. \A x, y \in Seq(Event) : x \o y \in Seq(Event) /\ Len(x \o y) = Len(x) + Len(y)
      OBVIOUS
    <3> QED
      BY <1>2, <1>3, <3>1
  <2> HIDE DEF rest
  <2> QED
    BY <1>1, <1>2, <1>3, <2>1
<1>5. ASSUME NEW k \in 1 .. Len(s) - 1 PROVE rest[k] = IF k < i THEN s[k] ELSE s[k + 1]
  <2>1. CASE k < i
    BY <1>1, <1>2, <1>3, <2>1
  <2>2. CASE ~(k < i)
    <3>1. rest[k] = back[k - (i - 1)]
      BY <1>1, <1>2, <1>3, <2>2
    <3>2. k - (i - 1) \in 1 .. Len(s) - i /\ k - (i - 1) + i = k + 1
      BY <1>1, <2>2
    <3> QED
      BY <1>3, <2>2, <3>1, <3>2
  <2> QED
    BY <2>1, <2>2
<1> HIDE DEF rest
<1>6. DOMAIN rest = 1 .. Len(s) - 1
  BY <1>4
<1>7. ASSUME NEW k \in DOMAIN s, k # i PROVE s[k] \in Range(rest)
  <2>1. CASE k < i
    <3>1. k \in 1 .. Len(s) - 1 /\ rest[k] = s[k]
      BY <1>1, <1>5, <2>1
    <3> QED
      BY <1>6, <3>1 DEF Range
  <2>2. CASE i < k
    <3>1. k - 1 \in 1 .. Len(s) - 1 /\ ~(k - 1 < i) /\ k - 1 + 1 = k
      BY <1>1, <2>2
    <3>2. rest[k - 1] = s[k]
      BY <1>5, <3>1
    <3> QED
      BY <1>6, <3>1, <3>2 DEF Range
  <2> QED
    BY <1>1, <1>7, <2>1, <2>2
<1>8. RemoveAt(s, i) = rest
  BY DEF RemoveAt, rest, front, back
<1> QED
  BY <1>4, <1>5, <1>6, <1>7, <1>8

(* At most one coalesced event of a kind, node and phase.                  *)
OneOfEach(log) ==
  \A i, k \in DOMAIN log :
    /\ Coalesced(log[i]) /\ log[i].type = log[k].type
    /\ log[i].node_id = log[k].node_id /\ log[i].phase = log[k].phase
    => i = k

LEMMA WithoutFirstKeeps ==
  ASSUME NEW Event, NEW log \in Seq(Event), NEW places \in SUBSET DOMAIN log
  PROVE  LET rest == WithoutFirst(log, places) IN
         /\ rest \in Seq(Event)
         /\ Len(rest) = IF places = {} THEN Len(log) ELSE Len(log) - 1
         /\ OneOfEach(log) => OneOfEach(rest)
         /\ \A k \in DOMAIN log : k \notin places => log[k] \in Range(rest)
         /\ \A k \in DOMAIN rest :
              \E m \in DOMAIN log : rest[k] = log[m] /\ (places # {} => m # Min(places))
<1> DEFINE rest == WithoutFirst(log, places)
           first == Min(places)
<1>1. CASE places = {}
  <2>1. rest = log
    BY <1>1 DEF WithoutFirst
  <2> QED
    BY <1>1, <2>1 DEF Range
<1>2. CASE places # {}
  <2>1. places \subseteq Nat
    OBVIOUS
  <2>2. first \in places
    BY <1>2, <2>1, MinIsThere
  <2>3. rest = RemoveAt(log, first)
    BY <1>2 DEF WithoutFirst
  <2> HIDE DEF first, rest
  <2>4. /\ rest \in Seq(Event) /\ Len(rest) = Len(log) - 1
        /\ \A k \in DOMAIN rest : rest[k] = IF k < first THEN log[k] ELSE log[k + 1]
        /\ \A k \in DOMAIN log : k # first => log[k] \in Range(rest)
    BY <2>2, <2>3, RemovedOne
  <2> DEFINE was(k) == IF k < first THEN k ELSE k + 1
  <2>5. \A k \in DOMAIN rest : was(k) \in DOMAIN log /\ rest[k] = log[was(k)]
    BY <2>2, <2>4
  <2>6. \A i, k \in DOMAIN rest : was(i) = was(k) => i = k
    BY <2>2, <2>4
  <2> HIDE DEF was
  <2>7. OneOfEach(log) => OneOfEach(rest)
    BY <2>5, <2>6 DEF OneOfEach
  <2>8. \A k \in DOMAIN rest : \E m \in DOMAIN log : rest[k] = log[m] /\ m # first
    <3>1. \A k \in DOMAIN rest : was(k) # first
      BY <2>2, <2>4 DEF was
    <3> QED
      BY <2>5, <3>1
  <2> QED
    BY <1>2, <2>2, <2>4, <2>7, <2>8 DEF rest, first
<1> QED
  BY <1>1, <1>2

(* retainGraphEvent, over a log of any length: the log keeps its bound, a  *)
(* node's progress of a phase stays one event, and an event that is not    *)
(* coalesced is given up only for another, when the log is full of them;   *)
(* however a worker mixes its events, what happened to the graph outlives  *)
(* what was merely rendered.                                               *)
THEOREM OutcomesOutliveProgress ==
  ASSUME NEW Event, NEW log \in Seq(Event), NEW event \in Event,
         NEW max \in Nat \ {0}, Len(log) <= max
  PROVE  LET kept == RetainGraphEvent(log, event, max) IN
         /\ kept \in Seq(Event) /\ Len(kept) <= max
         /\ OneOfEach(log) => OneOfEach(kept)
         /\ Range(kept) \subseteq Range(log) \cup {event}
         /\ \A lost \in (Range(log) \cup {event}) \ Range(kept) :
              \/ Coalesced(lost)
              \/ Len(log) = max /\ ~Coalesced(event) /\ \A e \in Range(log) : ~Coalesced(e)
<1> DEFINE places == Superseded(log, event)
           left == WithoutFirst(log, places)
           pushed == Append(left, event)
           coalescible == {i \in DOMAIN pushed : Coalesced(pushed[i])}
           gone == IF coalescible = {} THEN {1} ELSE coalescible
           kept == RetainGraphEvent(log, event, max)
<1>1. places \in SUBSET DOMAIN log
  BY DEF Superseded
<1>2. \A k \in places : Coalesced(log[k]) /\ Coalesced(event)
  BY DEF Superseded, Coalesced
<1> HIDE DEF places
<1>3. /\ left \in Seq(Event)
      /\ Len(left) = IF places = {} THEN Len(log) ELSE Len(log) - 1
      /\ OneOfEach(log) => OneOfEach(left)
      /\ \A k \in DOMAIN log : k \notin places => log[k] \in Range(left)
      /\ \A k \in DOMAIN left :
           \E m \in DOMAIN log : left[k] = log[m] /\ (places # {} => m # Min(places))
  BY <1>1, WithoutFirstKeeps
<1> HIDE DEF left
<1>4. /\ pushed \in Seq(Event) /\ Len(pushed) = Len(left) + 1
      /\ \A k \in DOMAIN pushed :
           \/ k \in DOMAIN left /\ pushed[k] = left[k]
           \/ k = Len(left) + 1 /\ pushed[k] = event
      /\ \A k \in DOMAIN left : k \in DOMAIN pushed /\ pushed[k] = left[k]
      /\ Len(left) + 1 \in DOMAIN pushed /\ pushed[Len(left) + 1] = event
  BY <1>3
<1> HIDE DEF pushed
<1>5. ASSUME OneOfEach(log), Coalesced(event), NEW k \in DOMAIN left,
             left[k].type = event.type, left[k].node_id = event.node_id,
             left[k].phase = event.phase
      PROVE  FALSE
  <2>1. PICK m \in DOMAIN log : left[k] = log[m] /\ (places # {} => m # Min(places))
    BY <1>3
  <2>2. m \in places
    BY <1>5, <2>1 DEF places, Superseded
  <2>3. places \subseteq Nat /\ Min(places) \in places
    <3>1. places \subseteq Nat
      BY <1>1
    <3> QED
      BY <2>2, <3>1, MinIsThere
  <2> DEFINE first == Min(places)
  <2> HIDE DEF first
  <2>4. first \in places /\ m # first
    BY <2>1, <2>2, <2>3 DEF first
  <2>5. /\ Coalesced(log[m]) /\ log[m].type = log[first].type
        /\ log[m].node_id = log[first].node_id /\ log[m].phase = log[first].phase
    BY <1>2, <2>2, <2>4 DEF places, Superseded
  <2> QED
    BY <1>1, <1>5, <2>4, <2>5 DEF OneOfEach
<1>6. ASSUME OneOfEach(log) PROVE OneOfEach(pushed)
  <2>1. SUFFICES ASSUME NEW i \in DOMAIN pushed, NEW k \in DOMAIN pushed, i # k,
                        Coalesced(pushed[i]), pushed[i].type = pushed[k].type,
                        pushed[i].node_id = pushed[k].node_id, pushed[i].phase = pushed[k].phase
                 PROVE  FALSE
    BY DEF OneOfEach
  <2>2. CASE i \in DOMAIN left /\ k \in DOMAIN left
    BY <1>3, <1>4, <1>6, <2>1, <2>2 DEF OneOfEach
  <2>3. CASE i \in DOMAIN left /\ k \notin DOMAIN left
    <3>1. pushed[k] = event /\ pushed[i] = left[i] /\ Coalesced(event)
      BY <1>4, <2>1, <2>3 DEF Coalesced
    <3> QED
      BY <1>5, <1>6, <2>1, <2>3, <3>1
  <2>4. CASE i \notin DOMAIN left /\ k \in DOMAIN left
    <3>1. pushed[i] = event /\ pushed[k] = left[k] /\ Coalesced(event)
      BY <1>4, <2>1, <2>4
    <3> QED
      BY <1>5, <1>6, <2>1, <2>4, <3>1
  <2>5. CASE i \notin DOMAIN left /\ k \notin DOMAIN left
    BY <1>4, <2>1, <2>5
  <2> QED
    BY <2>2, <2>3, <2>4, <2>5
<1>7. \A k \in DOMAIN log : log[k] \in Range(pushed) \/ k \in places
  BY <1>3, <1>4 DEF Range
<1>8. Range(pushed) \subseteq Range(log) \cup {event} /\ event \in Range(pushed)
  BY <1>3, <1>4 DEF Range
<1>9. CASE Len(pushed) <= max
  <2>1. kept = pushed
    BY <1>9 DEF RetainGraphEvent, pushed, left, places
  <2>2. \A lost \in (Range(log) \cup {event}) \ Range(pushed) : Coalesced(lost)
    BY <1>2, <1>7, <1>8 DEF Range
  <2> HIDE DEF kept
  <2> QED
    BY <1>4, <1>6, <1>8, <1>9, <2>1, <2>2 DEF kept
<1>10. CASE ~(Len(pushed) <= max)
  <2>1. kept = WithoutFirst(pushed, gone)
    BY <1>10 DEF RetainGraphEvent, pushed, left, places
  <2>2. Len(log) = max /\ places = {} /\ Len(pushed) = max + 1
    BY <1>3, <1>4, <1>10
  <2>3. gone \in SUBSET DOMAIN pushed /\ gone # {}
    BY <1>4, <2>2
  <2> HIDE DEF gone, kept
  <2>4. /\ kept \in Seq(Event) /\ Len(kept) = Len(pushed) - 1
        /\ OneOfEach(pushed) => OneOfEach(kept)
        /\ \A k \in DOMAIN pushed : k \notin gone => pushed[k] \in Range(kept)
        /\ \A k \in DOMAIN kept : \E m \in DOMAIN pushed : kept[k] = pushed[m]
    <3>1. pushed \in Seq(Event) /\ gone # {}
      BY <1>4, <2>3
    <3> HIDE DEF coalescible
    <3> QED
      BY <2>1, <2>3, <3>1, WithoutFirstKeeps
  <2>5. Range(kept) \subseteq Range(log) \cup {event}
    BY <1>8, <2>4 DEF Range
  <2>6. ASSUME NEW lost \in (Range(log) \cup {event}) \ Range(kept)
        PROVE  \/ Coalesced(lost)
               \/ Len(log) = max /\ ~Coalesced(event) /\ \A e \in Range(log) : ~Coalesced(e)
    <3>1. \A e \in Range(log) \cup {event} : e \in Range(pushed)
      BY <1>7, <1>8, <2>2 DEF Range
    <3>2. PICK k \in DOMAIN pushed : pushed[k] = lost
      BY <3>1 DEF Range
    <3>3. k \in gone
      BY <2>4, <3>2
    <3>4. CASE coalescible # {}
      BY <3>2, <3>3, <3>4 DEF gone
    <3>5. CASE coalescible = {}
      <4>1. \A e \in Range(pushed) : ~Coalesced(e)
        BY <3>5 DEF Range
      <4> QED
        BY <2>2, <3>1, <4>1
    <3> QED
      BY <3>4, <3>5
  <2> QED
    BY <1>4, <1>6, <2>2, <2>4, <2>5, <2>6 DEF kept
<1> QED
  BY <1>9, <1>10

(* graphArtifactError looks a digest up once, under the first of its       *)
(* names.  What that shows of every artifact it lets through: if the job   *)
(* has local custody or recorded an upload of the digest, the artifact is  *)
(* stored, alias or not.  Else (no upload record: the store is *)
(* asked by name) only a first artifact of the same digest and size is     *)
(* known to be stored, under its own name; an alias need not be, and       *)
(* graphArtifactResponse, which asks for the alias by name, finds nothing. *)
THEOREM VerifiedArtifactsAreStored ==
  ASSUME NEW custody, NEW uploads, NEW stored, NEW Artifact, NEW artifacts \in Seq(Artifact),
         ArtifactsVerified(custody, uploads, stored, artifacts), NEW i \in DOMAIN artifacts
  PROVE  /\ custody \/ (\E u \in uploads : u.digest = artifacts[i].digest) =>
              HasStoredGraphArtifact(custody, uploads, stored, artifacts[i])
         /\ \E m \in 1 .. i :
              /\ artifacts[m].digest = artifacts[i].digest
              /\ artifacts[m].size = artifacts[i].size
              /\ HasStoredGraphArtifact(custody, uploads, stored, artifacts[m])
<1> DEFINE same == {k \in 1 .. i : artifacts[k].digest = artifacts[i].digest}
<1>1. Len(artifacts) \in Nat /\ DOMAIN artifacts = 1 .. Len(artifacts) /\ i \in same
  OBVIOUS
<1>2. PICK m \in same : \A k \in same : m <= k
  <2>1. same \subseteq Nat /\ same # {}
    BY <1>1
  <2> QED
    BY <2>1, LeastNat
<1>3. m \in DOMAIN artifacts /\ artifacts[m].digest = artifacts[i].digest
  BY <1>1, <1>2
<1>4. {k \in 1 .. m - 1 : artifacts[k].digest = artifacts[m].digest} = {}
  BY <1>1, <1>2
<1>5. HasStoredGraphArtifact(custody, uploads, stored, artifacts[m])
  BY <1>3, <1>4 DEF ArtifactsVerified
<1>6. artifacts[m].size = artifacts[i].size
  <2>1. CASE m = i
    BY <2>1
  <2>2. CASE m # i
    <3>1. m \in {k \in 1 .. i - 1 : artifacts[k].digest = artifacts[i].digest}
      BY <1>1, <1>2, <2>2
    <3> QED
      BY <3>1 DEF ArtifactsVerified
  <2> QED
    BY <2>1, <2>2
<1>7. ASSUME custody \/ \E u \in uploads : u.digest = artifacts[i].digest
      PROVE  HasStoredGraphArtifact(custody, uploads, stored, artifacts[i])
  <2>1. {u \in uploads : u.digest = artifacts[i].digest} # {}
    BY <1>3, <1>5, <1>7 DEF HasStoredGraphArtifact
  <2> QED
    BY <1>3, <1>5, <1>6, <2>1 DEF HasStoredGraphArtifact
<1> QED
  BY <1>2, <1>3, <1>5, <1>6, <1>7
=============================================================================
