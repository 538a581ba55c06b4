--------------------------- MODULE GraphJobsProofs ---------------------------
(***************************************************************************)
(* Theorems about graph jobs, for any devices, handlers, retry limit and   *)
(* number of dispatches.                                                   *)
(*                                                                         *)
(* The first part is about every job: whatever handlers overlap, an object *)
(* a handler refers to exists, no job counts more attempts than there were *)
(* dispatches, and memory and storage agree.  The second part is about     *)
(* jobs under local custody, and shows that they implement CustodiedWork.  *)
(*                                                                         *)
(* Both go through the steps by what they do to memory and storage, which  *)
(* is one of three things: look (Look and Memory with what is in use),     *)
(* save (SaveAt, SaveAndEvict), or assign.                                 *)
(***************************************************************************)
EXTENDS GraphJobs, FiniteSetTheorems, TLAPS

(* Operations that hold no object across their suspension.                 *)
Bare == {"idle", "create", "verify", "sweep", "loop"}

HandlersOK(hs) == \A s \in Slot : hs[s].ref # 0 <=> hs[s].op \notin Bare

Dispatching(hs) == {s \in Slot : hs[s].op = "dispatch"}

Dispatches(hs) == Cardinality(Dispatching(hs))

(* Attempts never outrun tokens: whoever suspends with a token to send     *)
(* will count one attempt.                                                 *)
Counts(o, hs, n) == o.attempt + Dispatches(hs) <= n

Publishing(hs, c) == \E s \in Slot : hs[s].op = "publish" /\ hs[s].ref = c

Agree(h, c, hs, o) == c # 0 /\ ~Publishing(hs, c) => [h[c] EXCEPT !.token = o.token] = o

(* What holds of memory h, c and hs, storage o and n tokens.               *)
Sound(h, hs, o, n) ==
  /\ h \in [Ref -> Object]
  /\ hs \in [Slot -> Suspended]
  /\ o \in Object
  /\ n \in Token
  /\ HandlersOK(hs)
  /\ \A r \in Ref : Counts(h[r], hs, n)
  /\ Counts(o, hs, n)

RestTypeOK ==
  /\ custody \in BOOLEAN
  /\ link \in [Device -> {"up", "half", "down"}]
  /\ reserved \in SUBSET Device
  /\ tasks \in SUBSET Task
  /\ wire \in SUBSET Message

BaseInv ==
  /\ Sound(heap, handler, disk, issued)
  /\ cur \in Ref \cup {0}
  /\ Agree(heap, cur, handler, disk)
  /\ RestTypeOK

-----------------------------------------------------------------------------
(* Counting handlers                                                       *)

LEMMA DispatchesType ==
  ASSUME NEW hs
  PROVE  IsFiniteSet(Dispatching(hs)) /\ Dispatches(hs) \in Nat
<1>1. Dispatching(hs) \in SUBSET Slot
  BY DEF Dispatching
<1>2. IsFiniteSet(Dispatching(hs))
  BY <1>1, GraphConstants, FS_Subset DEF GraphConstants
<1> QED
  BY <1>2, FS_CardinalityType DEF Dispatches

(* A handler that goes on, or suspends in anything but a dispatch.         *)
LEMMA DispatchesFall ==
  ASSUME NEW hs, NEW gs, Dispatching(gs) \subseteq Dispatching(hs)
  PROVE  Dispatches(gs) <= Dispatches(hs)
BY DispatchesType, FS_Subset DEF Dispatches

LEMMA DispatchEnds ==
  ASSUME NEW hs \in [Slot -> Suspended], NEW s \in Slot, hs[s].op = "dispatch"
  PROVE  Dispatches([hs EXCEPT ![s] = Idle]) + 1 <= Dispatches(hs)
<1>1. Dispatching([hs EXCEPT ![s] = Idle]) = Dispatching(hs) \ {s}
  BY DEF Dispatching, Idle
<1>2. s \in Dispatching(hs) /\ IsFiniteSet(Dispatching(hs))
  BY DispatchesType DEF Dispatching
<1>3. Dispatches([hs EXCEPT ![s] = Idle]) = Dispatches(hs) - 1
  BY <1>1, <1>2, FS_RemoveElement DEF Dispatches
<1> QED
  BY <1>3, DispatchesType

LEMMA DispatchStarts ==
  ASSUME NEW hs \in [Slot -> Suspended], NEW s \in Slot, NEW x
  PROVE  Dispatches([hs EXCEPT ![s] = x]) <= Dispatches(hs) + 1
<1> DEFINE gs == [hs EXCEPT ![s] = x]
<1>1. Dispatching(gs) \in SUBSET (Dispatching(hs) \cup {s})
  BY DEF Dispatching
<1>2. /\ IsFiniteSet(Dispatching(hs) \cup {s})
      /\ Cardinality(Dispatching(hs) \cup {s}) <= Dispatches(hs) + 1
  BY DispatchesType, FS_AddElement DEF Dispatches
<1>3. Cardinality(Dispatching(gs)) <= Cardinality(Dispatching(hs) \cup {s})
  BY <1>1, <1>2, FS_Subset
<1> QED
  BY <1>2, <1>3, DispatchesType, FS_CardinalityType DEF Dispatches

-----------------------------------------------------------------------------
(* There is always a cell for a new object                                 *)

LEMMA SpareRef ==
  ASSUME NEW S, IsFiniteSet(S), Cardinality(S) <= Cardinality(Slot)
  PROVE  \E r \in Ref : r \notin S
<1>1. Cardinality(Slot) \in Nat
  BY GraphConstants, FS_CardinalityType DEF GraphConstants
<1>2. IsFiniteSet(Ref) /\ Cardinality(Ref) = Cardinality(Slot) + 1
  BY <1>1, FS_Interval DEF Ref
<1>3. ASSUME Ref \subseteq S PROVE FALSE
  <2>1. Cardinality(Ref) <= Cardinality(S)
    BY <1>3, FS_Subset
  <2> QED
    BY <1>1, <1>2, <2>1, FS_CardinalityType
<1> QED
  BY <1>3

(* The objects of some handlers are no more than these handlers.           *)
LEMMA RefsOfHandlers ==
  ASSUME NEW hs, NEW S \in SUBSET Slot
  PROVE  LET R == {hs[s].ref : s \in S}
         IN IsFiniteSet(R) /\ Cardinality(R) <= Cardinality(S)
<1> DEFINE R == {hs[s].ref : s \in S}
           g == [s \in S |-> hs[s].ref]
<1>1. IsFiniteSet(S)
  BY GraphConstants, FS_Subset DEF GraphConstants
<1>2. g \in Surjection(S, R)
  BY DEF Surjection
<1>3. IsFiniteSet(R) /\ Cardinality(R) <= Cardinality(S)
  <2> HIDE DEF g, R
  <2> QED
    BY <1>1, <1>2, FS_Surjection
<1> QED
  BY <1>3

LEMMA SpareForLook ==
  ASSUME NEW hs
  PROVE  \E r \in Ref : r \notin Held(hs)
BY RefsOfHandlers, SpareRef DEF Held

LEMMA SpareForCreate ==
  ASSUME NEW hs \in [Slot -> Suspended], NEW s \in Slot, hs[s].ref = 0, NEW c
  PROVE  \E r \in Ref : r # c /\ r \notin Held(hs)
<1> DEFINE R == {hs[t].ref : t \in Slot \ {s}}
<1>1. IsFiniteSet(Slot) /\ IsFiniteSet(Slot \ {s})
      /\ Cardinality(Slot \ {s}) = Cardinality(Slot) - 1
  BY GraphConstants, FS_RemoveElement DEF GraphConstants
<1>2. IsFiniteSet(R) /\ Cardinality(R) <= Cardinality(Slot \ {s})
  BY RefsOfHandlers
<1>3. IsFiniteSet(R \cup {c}) /\ Cardinality(R \cup {c}) <= Cardinality(R) + 1
  <2> HIDE DEF R
  <2>1. Cardinality(R) \in Nat
    BY <1>2, FS_CardinalityType
  <2>2. /\ IsFiniteSet(R \cup {c})
        /\ Cardinality(R \cup {c}) = IF c \in R THEN Cardinality(R) ELSE Cardinality(R) + 1
    BY <1>2, FS_AddElement
  <2> QED
    BY <2>1, <2>2
<1>4. Cardinality(R \cup {c}) <= Cardinality(Slot)
  BY <1>1, <1>2, <1>3, FS_CardinalityType
<1>5. PICK r \in Ref : r \notin R \cup {c}
  BY <1>3, <1>4, SpareRef
<1>6. r # 0
  BY DEF Ref
<1> QED
  BY <1>5, <1>6 DEF Held

LEMMA AtIsARef == BaseInv => At \in Ref /\ (cur # 0 => At = cur) /\ (cur = 0 => At \notin Held(handler))
BY SpareForLook DEF BaseInv, At

-----------------------------------------------------------------------------
(* What looking and saving do to memory                                    *)

LEMMA BlankIsAnObject == Blank \in Object /\ Blank.attempt = 0
BY GraphConstants DEF GraphConstants, Blank, Object, State, Token

LEMMA StoredIsAnObject ==
  ASSUME NEW o \in Object
  PROVE  Stored(o) \in Object /\ Stored(o).attempt = o.attempt
BY DEF Stored, Object

(* Memory and storage after a step.                                        *)
LEMMA MemoryKeeps ==
  ASSUME NEW h, NEW c \in Ref \cup {0}, NEW hs, NEW o, NEW n,
         Sound(h, hs, o, n), Agree(h, c, hs, o),
         Memory(h, c, hs), disk' = o, issued' = n, RestTypeOK'
  PROVE  BaseInv'
<1>1. heap' = [r \in Ref |-> IF r = c \/ r \in Held(hs) THEN h[r] ELSE Blank]
      /\ cur' = c /\ handler' = hs
  BY DEF Memory
<1>2. heap' \in [Ref -> Object]
  BY <1>1, BlankIsAnObject DEF Sound
<1>3. Counts(Blank, hs, n)
  BY BlankIsAnObject, DispatchesType, GraphConstants DEF GraphConstants, Sound, Counts, Object, Token
<1>4. \A r \in Ref : Counts(heap'[r], hs, n)
  BY <1>1, <1>3 DEF Sound
<1>5. Agree(heap', cur', handler', disk')
  <2>1. c # 0 => heap'[c] = h[c]
    BY <1>1
  <2> QED
    BY <1>1, <2>1 DEF Agree
<1>6. Sound(heap', handler', disk', issued')
  BY <1>1, <1>2, <1>4 DEF Sound
<1> QED
  BY <1>1, <1>5, <1>6 DEF BaseInv, Sound, Agree, HandlersOK, Counts, Publishing, Dispatches, Dispatching

LEMMA SaveKeeps ==
  ASSUME NEW h, NEW r \in Ref, NEW o \in Object, NEW hs, NEW p, NEW n,
         Sound(h, hs, p, n), Counts(o, hs, n),
         SaveAt(h, r, o, hs) \/ SaveAndEvict(h, r, o, hs), issued' = n, RestTypeOK'
  PROVE  BaseInv'
<1> DEFINE g == [h EXCEPT ![r] = Stored(o)]
<1>1. Stored(o) \in Object /\ Counts(Stored(o), hs, n)
  BY StoredIsAnObject DEF Counts
<1>2. Sound(g, hs, Stored(o), n)
  BY <1>1 DEF Sound
<1>3. Agree(g, r, hs, Stored(o)) /\ Agree(g, 0, hs, Stored(o))
  <2>1. g[r] = Stored(o)
    BY DEF Sound
  <2> QED
    BY <1>1, <2>1 DEF Agree, Object
<1>4. disk' = Stored(o) /\ (Memory(g, r, hs) \/ Memory(g, 0, hs))
  BY DEF SaveAt, SaveAndEvict
<1> HIDE DEF g
<1> QED
  BY <1>2, <1>3, <1>4, MemoryKeeps

(* What the map gives a handler that asks for the job.                     *)
LEMMA GotKeeps ==
  ASSUME BaseInv
  PROVE  /\ Sound(Got, handler, disk, issued)
         /\ Current \in Object /\ Counts(Current, handler, issued)
         /\ Got[At] = Current
         /\ Kept \in Ref \cup {0} /\ Agree(Got, Kept, handler, disk)
<1>1. At \in Ref /\ (cur # 0 => At = cur)
  BY AtIsARef
<1>2. Current \in Object /\ Counts(Current, handler, issued)
  BY DEF BaseInv, Sound, Current
<1>3. Got \in [Ref -> Object] /\ Got[At] = Current /\ \A r \in Ref : r # At => Got[r] = heap[r]
  BY <1>1, <1>2 DEF Got, BaseInv, Sound
<1>4. Sound(Got, handler, disk, issued)
  BY <1>2, <1>3 DEF BaseInv, Sound
<1>5. Kept \in Ref \cup {0} /\ (Kept # 0 => Kept = At)
  BY <1>1 DEF Kept, BaseInv
<1>6. Agree(Got, Kept, handler, disk)
  <2>1. CASE cur # 0
    BY <1>1, <1>3, <2>1 DEF BaseInv, Agree, Current, Kept
  <2>2. CASE cur = 0
    BY <1>3, <1>5, <2>2 DEF BaseInv, Sound, Agree, Current, Object
  <2> QED
    BY <2>1, <2>2
<1> QED
  BY <1>2, <1>3, <1>4, <1>5, <1>6

-----------------------------------------------------------------------------
(* What handlers are after a step: none more dispatches, and whoever       *)
(* writes a manifest goes on doing so.                                     *)
Moved(hs) ==
  /\ hs \in [Slot -> Suspended]
  /\ HandlersOK(hs)
  /\ Dispatching(hs) \subseteq Dispatching(handler)
  /\ \A s \in Slot : handler[s].op = "publish" => hs[s] = handler[s]

LEMMA StayMoved == BaseInv => Moved(handler)
BY DEF Moved, BaseInv, Sound

LEMMA IdleIsBare == Idle \in Suspended /\ Idle.op = "idle" /\ Idle.ref = 0
BY GraphConstants DEF GraphConstants, Idle, Suspended, Ops, Token

LEMMA DoneMoved ==
  ASSUME BaseInv, NEW s \in Slot, handler[s].op # "publish"
  PROVE  Moved(Done(s))
BY IdleIsBare DEF BaseInv, Sound, Moved, Done, HandlersOK, Dispatching, Bare

LEMMA SuspendMoved ==
  ASSUME BaseInv, NEW s \in Free, NEW x \in Suspended, x.op # "dispatch",
         x.ref # 0 <=> x.op \notin Bare
  PROVE  Moved(Suspend(s, x))
BY IdleIsBare DEF BaseInv, Sound, Moved, Suspend, HandlersOK, Dispatching, Bare, Free

LEMMA SocketGoneMoved ==
  ASSUME BaseInv, NEW d \in Device
  PROVE  Moved(SocketGone(d))
<1>1. \A s \in Slot : /\ SocketGone(d)[s] \in Suspended
                      /\ SocketGone(d)[s].op = handler[s].op
                      /\ SocketGone(d)[s].ref = handler[s].ref
                      /\ handler[s].op # "dispatch" => SocketGone(d)[s] = handler[s]
  BY DEF BaseInv, Sound, SocketGone, Suspended
<1>2. SocketGone(d) = [s \in Slot |-> SocketGone(d)[s]]
  BY DEF SocketGone
<1> QED
  BY <1>1, <1>2 DEF BaseInv, Sound, Moved, HandlersOK, Dispatching

LEMMA HoldIsSuspended ==
  ASSUME NEW op \in Ops, NEW r \in Ref \cup {0}
  PROVE  Hold(op, r) \in Suspended /\ Hold(op, r).op = op /\ Hold(op, r).ref = r
BY GraphConstants DEF GraphConstants, Hold, Suspended, Token

LEMMA CollectedMoved ==
  ASSUME BaseInv, NEW h, NEW c, NEW hs, Moved(hs), NEW gs \in Collected(h, c, hs)
  PROVE  Moved(gs)
<1>1. CASE gs = hs
  BY <1>1
<1>2. ASSUME NEW s \in Slot, hs[s] = Idle, gs = [hs EXCEPT ![s] = Hold("loop", 0)]
      PROVE  Moved(gs)
  <2>1. Hold("loop", 0) \in Suspended /\ Hold("loop", 0).op = "loop" /\ Hold("loop", 0).ref = 0
    BY HoldIsSuspended DEF Ops
  <2>2. handler[s].op # "publish"
    BY <1>2, IdleIsBare DEF Moved
  <2> QED
    BY <1>2, <2>1, <2>2 DEF Moved, HandlersOK, Dispatching, Bare
<1> QED
  BY <1>1, <1>2 DEF Collected

LEMMA MovedSound ==
  ASSUME NEW h, NEW o, NEW n, Sound(h, handler, o, n), NEW hs, Moved(hs)
  PROVE  Sound(h, hs, o, n)
<1>1. Dispatches(hs) <= Dispatches(handler)
  BY DispatchesFall DEF Moved
<1>2. ASSUME NEW p \in Object, Counts(p, handler, n) PROVE Counts(p, hs, n)
  <2>1. p.attempt \in Nat /\ n \in Nat
    BY GraphConstants DEF GraphConstants, Object, Sound, Token
  <2> QED
    BY <1>1, <1>2, <2>1, DispatchesType DEF Counts
<1> QED
  BY <1>2 DEF Sound, Moved

LEMMA MovedAgrees ==
  ASSUME NEW h, NEW c, NEW o, Agree(h, c, handler, o), NEW hs, Moved(hs)
  PROVE  Agree(h, c, hs, o)
BY DEF Agree, Publishing, Moved

(* A handler that only looks, or does not even look.                       *)
LEMMA LookKeeps ==
  ASSUME BaseInv, NEW hs, Moved(hs), RestTypeOK', issued' = issued, disk' = disk,
         Memory(Got, Kept, hs) \/ Memory(heap, cur, hs) \/ Memory(heap, 0, hs)
  PROVE  BaseInv'
<1>1. CASE Memory(Got, Kept, hs)
  <2>1. Sound(Got, hs, disk, issued) /\ Agree(Got, Kept, hs, disk) /\ Kept \in Ref \cup {0}
    BY GotKeeps, MovedSound, MovedAgrees
  <2> QED
    BY <1>1, <2>1, MemoryKeeps
<1>2. CASE Memory(heap, cur, hs)
  <2>1. Sound(heap, hs, disk, issued) /\ Agree(heap, cur, hs, disk) /\ cur \in Ref \cup {0}
    BY MovedSound, MovedAgrees DEF BaseInv
  <2> QED
    BY <1>2, <2>1, MemoryKeeps
<1>3. CASE Memory(heap, 0, hs)
  <2>1. Sound(heap, hs, disk, issued) /\ Agree(heap, 0, hs, disk)
    BY MovedSound DEF BaseInv, Agree
  <2> QED
    BY <1>3, <2>1, MemoryKeeps
<1> QED
  BY <1>1, <1>2, <1>3

-----------------------------------------------------------------------------
(* Placement                                                               *)

LEMMA PlacedIsAnObject ==
  ASSUME NEW o \in Object, NEW d \in Device, NEW t \in Token, NEW hs, NEW n \in Token,
         Counts(o, hs, n), n < MaxTokens
  PROVE  LET p == [o EXCEPT !.token = t]
         IN /\ p \in Object /\ Counts(p, hs, n + 1)
            /\ Placed(p, d) \in Object /\ Counts(Placed(p, d), hs, n + 1)
<1> DEFINE p == [o EXCEPT !.token = t]
<1>1. o.attempt \in Nat /\ n \in Nat /\ MaxTokens \in Nat /\ Dispatches(hs) \in Nat
  BY GraphConstants, DispatchesType DEF GraphConstants, Object, Token
<1>2. p \in Object /\ p.attempt = o.attempt
  BY DEF Object
<1>3. o.attempt + 1 \in 0 .. MaxTokens
  BY <1>1 DEF Counts
<1>4. Placed(p, d) \in Object /\ Placed(p, d).attempt = o.attempt + 1
  BY <1>2, <1>3 DEF Placed, Object, State, Active
<1> QED
  BY <1>1, <1>2, <1>4 DEF Counts

LEMMA RequestIsTyped ==
  ASSUME RestTypeOK, NEW d \in Device, NEW t \in Token, Request(d, t)
  PROVE  tasks' \in SUBSET Task
<1>1. [dev |-> d, token |-> t, up |-> TRUE, phase |-> "fetch"] \in Task
  BY DEF Task, Phases
<1> QED
  BY <1>1 DEF RestTypeOK, Request

(* n + 1 tokens leave room for one more attempt.                           *)
LEMMA DrawKeeps ==
  ASSUME NEW h, NEW hs, NEW o, NEW n \in Token, n < MaxTokens, Sound(h, hs, o, n), NEW r \in Ref,
         Agree(h, r, hs, o), NEW g, g = [h EXCEPT ![r].token = n + 1]
  PROVE  n + 1 \in Token /\ Sound(g, hs, o, n + 1) /\ Agree(g, r, hs, o)
<1>1. n + 1 \in Token /\ n \in Nat /\ Dispatches(hs) \in Nat
  BY GraphConstants, DispatchesType DEF GraphConstants, Token
<1>2. g[r] = [h[r] EXCEPT !.token = n + 1] /\ \A q \in Ref : q # r => g[q] = h[q]
  BY DEF Sound
<1>3. g \in [Ref -> Object] /\ \A q \in Ref : g[q].attempt = h[q].attempt
  BY <1>1, <1>2 DEF Sound, Object
<1>4. \A p \in Object : Counts(p, hs, n) => Counts(p, hs, n + 1)
  BY <1>1 DEF Counts, Object
<1>5. \A q \in Ref : Counts(g[q], hs, n + 1)
  BY <1>3, <1>4 DEF Sound, Counts
<1>6. Sound(g, hs, o, n + 1)
  BY <1>1, <1>3, <1>4, <1>5 DEF Sound
<1>7. [g[r] EXCEPT !.token = o.token] = [h[r] EXCEPT !.token = o.token]
  BY <1>2 DEF Sound, Object
<1> QED
  BY <1>1, <1>2, <1>6, <1>7 DEF Agree

LEMMA AssignKeeps ==
  ASSUME BaseInv, NEW h, NEW r \in Ref, NEW hs, NEW o,
         Sound(h, hs, o, issued), Agree(h, r, hs, o), Assign(h, r, hs, r, o),
         UNCHANGED <<custody, link, wire>>
  PROVE  BaseInv'
<1>1. CASE Memory(h, r, hs) /\ disk' = o /\ UNCHANGED <<issued, reserved, tasks>>
  <2>1. RestTypeOK'
    BY <1>1 DEF BaseInv, RestTypeOK
  <2> QED
    BY <1>1, <2>1, MemoryKeeps
<1>2. ASSUME NEW d \in Candidates(h[r]), issued < MaxTokens, issued' = NewToken,
             LET n == [h EXCEPT ![r].token = NewToken]
             IN \/ Send(n, r, d, hs)
                \/ Memory(n, r, hs) /\ disk' = o /\ UNCHANGED <<reserved, tasks>>
                \/ /\ disk' = o /\ UNCHANGED <<reserved, tasks>>
                   /\ \E s \in {t \in Slot : hs[t] = Idle} :
                        Memory(n, r, [hs EXCEPT ![s] = [Hold("dispatch", r) EXCEPT !.dev = d]])
      PROVE  BaseInv'
  <2> DEFINE g == [h EXCEPT ![r].token = NewToken]
  <2>1. issued \in Token /\ d \in Device
    BY <1>2 DEF Sound, Candidates
  <2>2. /\ NewToken \in Token
        /\ Sound(g, hs, o, NewToken) /\ Agree(g, r, hs, o)
        /\ g[r] = [h[r] EXCEPT !.token = NewToken]
    <3>1. g = [h EXCEPT ![r].token = issued + 1] /\ NewToken = issued + 1
      BY DEF NewToken
    <3>2. issued < MaxTokens
      BY <1>2
    <3>3. g[r] = [h[r] EXCEPT !.token = NewToken]
      BY DEF Sound
    <3> HIDE DEF g
    <3>4. issued + 1 \in Token /\ Sound(g, hs, o, issued + 1) /\ Agree(g, r, hs, o)
      BY <2>1, <3>1, <3>2, DrawKeeps
    <3> QED
      BY <3>1, <3>3, <3>4
  <2>3. CASE Send(g, r, d, hs)
    <3>1. h[r] \in Object /\ Counts(h[r], hs, issued)
      BY DEF Sound
    <3>2. Placed(g[r], d) \in Object /\ Counts(Placed(g[r], d), hs, NewToken)
      BY <1>2, <2>1, <2>2, <3>1, PlacedIsAnObject DEF NewToken
    <3>3. SaveAt(g, r, Placed(g[r], d), hs) /\ Request(d, g[r].token)
          /\ reserved' = reserved \cup {d}
      BY <2>3 DEF Send
    <3>4. g[r].token = NewToken
      BY <2>2, <3>1 DEF Object
    <3>5. tasks' \in SUBSET Task
      BY <2>1, <2>2, <3>3, <3>4, RequestIsTyped DEF BaseInv
    <3>6. RestTypeOK'
      BY <2>1, <3>3, <3>5 DEF BaseInv, RestTypeOK
    <3> HIDE DEF g
    <3> QED
      BY <1>2, <2>2, <3>2, <3>3, <3>6, SaveKeeps
  <2>4. CASE Memory(g, r, hs) /\ disk' = o /\ UNCHANGED <<reserved, tasks>>
    <3>1. RestTypeOK'
      BY <2>4 DEF BaseInv, RestTypeOK
    <3> HIDE DEF g
    <3> QED
      BY <1>2, <2>2, <2>4, <3>1, MemoryKeeps
  <2>5. ASSUME NEW s \in Slot, hs[s] = Idle, disk' = o, UNCHANGED <<reserved, tasks>>,
               Memory(g, r, [hs EXCEPT ![s] = [Hold("dispatch", r) EXCEPT !.dev = d]])
        PROVE  BaseInv'
    <3> DEFINE x == [Hold("dispatch", r) EXCEPT !.dev = d]
               gs == [hs EXCEPT ![s] = x]
    <3>1. x \in Suspended /\ x.op = "dispatch" /\ x.ref = r /\ r # 0
      BY <2>1, GraphConstants DEF GraphConstants, Hold, Suspended, Token, Ops, Ref
    <3>2. Dispatches(gs) <= Dispatches(hs) + 1
      BY DispatchStarts DEF Sound
    <3>3. \A p \in Object : Counts(p, hs, issued) => Counts(p, gs, NewToken)
      <4>1. issued \in Nat /\ Dispatches(gs) \in Nat /\ Dispatches(hs) \in Nat
        BY <2>1, DispatchesType, GraphConstants DEF GraphConstants, Token
      <4> HIDE DEF gs
      <4> QED
        BY <3>2, <4>1 DEF Counts, NewToken, Object
    <3>4. \A q \in Ref : Counts(g[q], gs, NewToken)
      <4>1. \A q \in Ref : g[q].attempt = h[q].attempt
        BY DEF Sound, Object
      <4>2. \A q \in Ref : Counts(h[q], gs, NewToken)
        BY <3>3 DEF Sound
      <4> QED
        BY <4>1, <4>2 DEF Counts
    <3>5. Sound(g, gs, o, NewToken)
      <4>1. Counts(o, gs, NewToken)
        BY <3>3 DEF Sound
      <4>2. gs \in [Slot -> Suspended] /\ HandlersOK(gs)
        BY <3>1 DEF Sound, HandlersOK, Bare
      <4> HIDE DEF gs, g
      <4> QED
        BY <2>2, <3>4, <4>1, <4>2 DEF Sound
    <3>6. Agree(g, r, gs, o)
      <4>1. Publishing(hs, r) => Publishing(gs, r)
        BY <2>5, IdleIsBare DEF Publishing, Sound
      <4> HIDE DEF gs, g
      <4> QED
        BY <2>2, <4>1 DEF Agree
    <3>7. RestTypeOK'
      BY <2>5 DEF BaseInv, RestTypeOK
    <3>8. Memory(g, r, gs) /\ disk' = o /\ issued' = NewToken
      BY <1>2, <2>5
    <3> HIDE DEF g, gs
    <3> QED
      BY <3>5, <3>6, <3>7, <3>8, MemoryKeeps
  <2> QED
    BY <1>2, <2>3, <2>4, <2>5
<1> QED
  BY <1>1, <1>2 DEF Assign

(* A save that is followed by a placement.                                 *)
LEMMA SaveAndAssignKeeps ==
  ASSUME BaseInv, NEW o \in Object, o.attempt = Current.attempt, SaveAndAssign(o, handler),
         UNCHANGED <<custody, link, wire>>
  PROVE  BaseInv'
<1> DEFINE g == [Got EXCEPT ![At] = Stored(o)]
<1>1. At \in Ref
  BY AtIsARef
<1>2. Sound(Got, handler, disk, issued) /\ Counts(Current, handler, issued)
  BY GotKeeps
<1>3. Stored(o) \in Object /\ Counts(Stored(o), handler, issued)
  BY <1>2, StoredIsAnObject DEF Counts
<1>4. Sound(g, handler, Stored(o), issued)
  BY <1>1, <1>2, <1>3 DEF Sound
<1>5. Agree(g, At, handler, Stored(o))
  <2>1. g[At] = Stored(o)
    BY <1>1, <1>2 DEF Sound
  <2> QED
    BY <1>3, <2>1 DEF Agree, Object
<1>6. Assign(g, At, handler, At, Stored(o))
  BY DEF SaveAndAssign
<1> HIDE DEF g
<1> QED
  BY <1>1, <1>4, <1>5, <1>6, AssignKeeps

-----------------------------------------------------------------------------
(* Every step keeps the invariant of all jobs                              *)

LEMMA InitBaseInv == Init => BaseInv
<1> SUFFICES ASSUME Init PROVE BaseInv
  OBVIOUS
<1>1. Dispatches(handler) = 0
  <2>1. Dispatching(handler) = {}
    BY IdleIsBare DEF Init, Dispatching
  <2> QED
    BY <2>1, FS_EmptySet DEF Dispatches
<1>2. 0 \in Token
  BY GraphConstants DEF GraphConstants, Token
<1>3. Sound(heap, handler, disk, issued)
  BY <1>1, <1>2, IdleIsBare, BlankIsAnObject DEF Init, Sound, HandlersOK, Counts, Bare
<1>4. RestTypeOK
  BY DEF Init, RestTypeOK
<1> QED
  BY <1>3, <1>4 DEF Init, BaseInv, Agree

(* A new state of the job, saved.                                          *)
LEMMA SaveCurrentKeeps ==
  ASSUME BaseInv, NEW hs, Moved(hs), NEW o \in Object, o.attempt = Current.attempt,
         Save(o, hs) \/ SaveAndEvict(Got, At, o, hs),
         issued' = issued, RestTypeOK'
  PROVE  BaseInv'
<1>1. At \in Ref
  BY AtIsARef
<1>2. Sound(Got, hs, disk, issued)
  BY GotKeeps, MovedSound
<1>3. Counts(o, hs, issued)
  <2>1. Sound(Got, hs, Current, issued)
    BY GotKeeps, MovedSound DEF Sound
  <2> QED
    BY <2>1 DEF Sound, Counts
<1>4. SaveAt(Got, At, o, hs) \/ SaveAndEvict(Got, At, o, hs)
  BY DEF Save
<1> QED
  BY <1>1, <1>2, <1>3, <1>4, SaveKeeps

(* A handler saves the object it held, as it is by then.                   *)
LEMMA SaveHeldKeeps ==
  ASSUME BaseInv, NEW s \in Slot, handler[s].op \notin Bare,
         LET r == handler[s].ref
         IN \/ SaveAt(heap, r, heap[r], Done(s))
            \/ SaveAndEvict(heap, r, heap[r], Done(s)),
         issued' = issued, RestTypeOK'
  PROVE  BaseInv'
<1> DEFINE r == handler[s].ref
<1>1. r \in Ref
  BY DEF BaseInv, Sound, HandlersOK, Suspended
<1>2. Done(s) \in [Slot -> Suspended] /\ HandlersOK(Done(s))
      /\ Dispatching(Done(s)) \subseteq Dispatching(handler)
  BY IdleIsBare DEF BaseInv, Sound, Done, HandlersOK, Dispatching, Bare
<1>3. Dispatches(Done(s)) <= Dispatches(handler)
  BY <1>2, DispatchesFall
<1>4. ASSUME NEW p \in Object, Counts(p, handler, issued) PROVE Counts(p, Done(s), issued)
  <2>1. p.attempt \in Nat /\ issued \in Nat
    BY GraphConstants DEF GraphConstants, Object, BaseInv, Sound, Token
  <2> QED
    BY <1>3, <1>4, <2>1, DispatchesType DEF Counts
<1>5. Sound(heap, Done(s), disk, issued)
  BY <1>2, <1>4 DEF BaseInv, Sound
<1>6. heap[r] \in Object /\ Counts(heap[r], Done(s), issued)
  BY <1>1, <1>5 DEF Sound
<1>7. SaveAt(heap, r, heap[r], Done(s)) \/ SaveAndEvict(heap, r, heap[r], Done(s))
  OBVIOUS
<1> HIDE DEF r
<1> QED
  BY <1>1, <1>5, <1>6, <1>7, SaveKeeps

(* The owner.                                                              *)
LEMMA OwnerKeeps == BaseInv /\ OwnerStep => BaseInv'
<1> SUFFICES ASSUME BaseInv, OwnerStep PROVE BaseInv'
  OBVIOUS
<1>1. Current \in Object
  BY GotKeeps
<1>2. CASE Replay
  <2>1. Restored(Current) \in Object /\ Restored(Current).attempt = Current.attempt
    BY <1>1 DEF Restored, Object
  <2> QED
    BY <1>2, <2>1, SaveAndAssignKeeps DEF Replay
<1>3. CASE Commit
  <2>1. Queued(Current) \in Object /\ Queued(Current).attempt = Current.attempt
    BY <1>1 DEF Queued, Object, State
  <2> QED
    BY <1>3, <2>1, SaveAndAssignKeeps DEF Commit
<1>4. CASE Poll
  <2>1. RestTypeOK'
    BY <1>4 DEF Poll, BaseInv, RestTypeOK, nodeVars
  <2> QED
    BY <1>4, <2>1, StayMoved, LookKeeps DEF Poll, Look
<1>5. CASE Cancel
  <2>1. Cancelled(Current) \in Object /\ Cancelled(Current).attempt = Current.attempt
    BY <1>1 DEF Cancelled, Object, State, Terminal
  <2>2. RestTypeOK'
    BY <1>5 DEF Cancel, BaseInv, RestTypeOK, nodeVars
  <2> QED
    BY <1>5, <2>1, <2>2, StayMoved, SaveCurrentKeeps DEF Cancel
<1>6. CASE Retry
  <2> DEFINE o == [Queued(Current) EXCEPT !.agent = None]
  <2>1. o \in Object /\ o.attempt = Current.attempt
    BY <1>1 DEF Queued, Object, State
  <2>2. SaveAndAssign(o, handler) /\ UNCHANGED <<custody, link, wire>>
    BY <1>6 DEF Retry
  <2> HIDE DEF o
  <2> QED
    BY <2>1, <2>2, SaveAndAssignKeeps
<1> QED
  BY <1>2, <1>3, <1>4, <1>5, <1>6 DEF OwnerStep

(* Handlers that suspend.                                                  *)
LEMMA StartsKeep == \A s \in Free : BaseInv /\ Starts(s) => BaseInv'
<1> SUFFICES ASSUME NEW s \in Free, BaseInv, Starts(s) PROVE BaseInv'
  OBVIOUS
<1>1. s \in Slot /\ At \in Ref /\ At # 0
  BY AtIsARef DEF Free, Ref
<1>2. ASSUME NEW op \in {"create", "sweep"} PROVE Moved(Suspend(s, Hold(op, 0)))
  BY <1>2, HoldIsSuspended, SuspendMoved DEF Ops, Bare
<1>3. ASSUME NEW op \in {"upload", "commit"} PROVE Moved(Suspend(s, Hold(op, At)))
  BY <1>1, <1>3, HoldIsSuspended, SuspendMoved DEF Ops, Bare
<1>4. CASE CreateStarts(s)
  <2>1. RestTypeOK'
    BY <1>4 DEF CreateStarts, BaseInv, RestTypeOK, nodeVars
  <2> QED
    BY <1>2, <1>4, <2>1, LookKeeps DEF CreateStarts
<1>5. CASE UploadStarts(s)
  <2>1. RestTypeOK'
    BY <1>5 DEF UploadStarts, BaseInv, RestTypeOK, nodeVars
  <2> QED
    BY <1>3, <1>5, <2>1, LookKeeps DEF UploadStarts, Look
<1>6. CASE CommitStarts(s)
  <2>1. RestTypeOK'
    BY <1>6 DEF CommitStarts, BaseInv, RestTypeOK, nodeVars
  <2> QED
    BY <1>3, <1>6, <2>1, LookKeeps DEF CommitStarts, Look
<1>7. CASE Maintain(s)
  <2> DEFINE r == CHOOSE q \in Ref : q \notin Held(handler)
             o == IF disk.attempt < MaxAttempt THEN Requeued(disk)
                  ELSE [disk EXCEPT !.state = "failed", !.agent = None]
             hs == Suspend(s, Hold("sweep", 0))
  <2>1. r \in Ref
    BY SpareForLook
  <2>2. disk \in Object
    BY DEF BaseInv, Sound
  <2>3. o \in Object /\ o.attempt = disk.attempt
    BY <2>2 DEF Requeued, Queued, Object, State, Terminal
  <2>4. Sound(heap, hs, disk, issued)
    BY <1>2, MovedSound DEF BaseInv
  <2>5. Counts(o, hs, issued)
    BY <2>3, <2>4 DEF Sound, Counts
  <2>6. SaveAt(heap, r, o, hs) /\ issued' = issued
    BY <1>7 DEF Maintain
  <2>7. RestTypeOK'
    BY <1>7 DEF Maintain, Release, BaseInv, RestTypeOK, nodeVars
  <2> HIDE DEF r, o, hs
  <2> QED
    BY <2>1, <2>3, <2>4, <2>5, <2>6, <2>7, SaveKeeps
<1> QED
  BY <1>4, <1>5, <1>6, <1>7 DEF Starts

(* handleGraphError, for a message or after a look into R2.                *)
LEMMA SettleKeeps ==
  ASSUME BaseInv, NEW m, NEW hs, Moved(hs), Settle(m, hs), UNCHANGED <<custody, issued, link, tasks>>,
         wire' \in SUBSET Message
  PROVE  BaseInv'
<1>1. Current \in Object
  BY GotKeeps
<1>2. RestTypeOK' /\ issued' = issued
  BY DEF Settle, Release, BaseInv, RestTypeOK
<1>3. CASE Look(hs)
  BY <1>2, <1>3, LookKeeps DEF Look
<1>4. CASE Save([Current EXCEPT !.agent = None], hs)
  <2> DEFINE o == [Current EXCEPT !.agent = None]
  <2>1. o \in Object /\ o.attempt = Current.attempt
    BY <1>1 DEF Object
  <2>2. Save(o, hs) \/ SaveAndEvict(Got, At, o, hs)
    BY <1>4
  <2> HIDE DEF o
  <2> QED
    BY <1>2, <2>1, <2>2, SaveCurrentKeeps
<1>5. CASE SaveAndEvict(Got, At, [Current EXCEPT !.state = "failed"], hs)
  <2> DEFINE o == [Current EXCEPT !.state = "failed"]
  <2>1. o \in Object /\ o.attempt = Current.attempt
    BY <1>1 DEF Object, State, Terminal
  <2>2. Save(o, hs) \/ SaveAndEvict(Got, At, o, hs)
    BY <1>5
  <2> HIDE DEF o
  <2> QED
    BY <1>2, <2>1, <2>2, SaveCurrentKeeps
<1> QED
  BY <1>3, <1>4, <1>5 DEF Settle

LEMMA CreateKeeps == ASSUME BaseInv, NEW s \in Slot, Create(s) PROVE BaseInv'
<1> DEFINE r == CHOOSE q \in Ref : q # cur /\ q \notin Held(handler)
           o == [Blank EXCEPT !.state = "planned"]
<1>1. handler[s].op = "create" /\ handler[s].ref = 0
  BY DEF Create, BaseInv, Sound, HandlersOK, Bare
<1>2. r \in Ref
  BY <1>1, SpareForCreate DEF BaseInv, Sound
<1>3. o \in Object /\ o.attempt = 0
  BY BlankIsAnObject DEF Object, State
<1>4. Sound(heap, Done(s), disk, issued)
  BY <1>1, DoneMoved, MovedSound DEF BaseInv
<1>5. Counts(o, Done(s), issued)
  BY <1>3, <1>4, DispatchesType, GraphConstants DEF GraphConstants, Sound, Counts, Object, Token
<1>6. RestTypeOK'
  BY DEF Create, BaseInv, RestTypeOK, nodeVars
<1>7. SaveAt(heap, r, o, Done(s)) /\ issued' = issued
  BY DEF Create
<1> HIDE DEF r, o
<1> QED
  BY <1>2, <1>3, <1>4, <1>5, <1>6, <1>7, SaveKeeps

LEMMA CommitGoesOnKeeps == ASSUME BaseInv, NEW s \in Slot, CommitGoesOn(s) PROVE BaseInv'
<1> DEFINE r == handler[s].ref
           o == Queued(heap[r])
           h == [heap EXCEPT ![r] = o]
<1>1. handler[s].op = "commit"
  BY DEF CommitGoesOn
<1>2. r \in Ref
  BY <1>1 DEF BaseInv, Sound, HandlersOK, Bare, Suspended
<1>3. Sound(heap, Done(s), disk, issued)
  BY <1>1, DoneMoved, MovedSound DEF BaseInv
<1>4. o \in Object /\ Counts(o, Done(s), issued)
  <2>1. heap[r] \in Object /\ Counts(heap[r], Done(s), issued)
    BY <1>2, <1>3 DEF Sound
  <2> QED
    BY <2>1 DEF Queued, Object, State, Counts
<1>5. Sound(h, Done(s), o, issued)
  BY <1>2, <1>3, <1>4 DEF Sound
<1>6. Agree(h, r, Done(s), o)
  <2>1. h[r] = o
    BY <1>2, <1>3 DEF Sound
  <2> QED
    BY <1>4, <2>1 DEF Agree, Object
<1>7. Assign(h, r, Done(s), r, o) /\ UNCHANGED <<custody, link, wire>>
  BY DEF CommitGoesOn
<1> HIDE DEF r, o, h
<1> QED
  BY <1>2, <1>5, <1>6, <1>7, AssignKeeps

LEMMA DispatchKeeps == ASSUME BaseInv, NEW s \in Slot, Dispatch(s) PROVE BaseInv'
<1> DEFINE r == handler[s].ref
           d == handler[s].dev
<1>1. handler[s].op = "dispatch" /\ issued' = issued
  BY DEF Dispatch
<1>2. Moved(Done(s))
  BY <1>1, DoneMoved
<1>3. CASE d # None /\ Send(heap, r, d, Done(s))
  <2>1. r \in Ref /\ d \in Device
    BY <1>1, <1>3 DEF BaseInv, Sound, HandlersOK, Bare, Suspended
  <2>2. heap[r] \in Object /\ Counts(heap[r], handler, issued) /\ issued \in Token
    BY <2>1 DEF BaseInv, Sound
  <2>3. Dispatches(Done(s)) + 1 <= Dispatches(handler)
    BY <1>1, DispatchEnds DEF BaseInv, Sound, Done
  <2>4. Placed(heap[r], d) \in Object /\ Counts(Placed(heap[r], d), Done(s), issued)
    <3>1. heap[r].attempt \in Nat /\ issued \in Nat /\ MaxTokens \in Nat /\ issued <= MaxTokens
      BY <2>2, GraphConstants DEF GraphConstants, Object, Token
    <3>2. heap[r].attempt + 1 + Dispatches(Done(s)) <= issued
      BY <2>2, <2>3, <3>1, DispatchesType DEF Counts
    <3>3. heap[r].attempt + 1 \in 0 .. MaxTokens
      BY <3>1, <3>2, DispatchesType
    <3>4. Placed(heap[r], d) \in Object /\ Placed(heap[r], d).attempt = heap[r].attempt + 1
      BY <2>1, <2>2, <3>3 DEF Placed, Object, State, Active
    <3> QED
      BY <3>2, <3>4 DEF Counts
  <2>5. Sound(heap, Done(s), disk, issued)
    BY <1>2, MovedSound DEF BaseInv
  <2>6. tasks' \in SUBSET Task
    BY <1>3, <2>1, <2>2, RequestIsTyped DEF Send, BaseInv, Object
  <2>7. RestTypeOK'
    BY <1>3, <2>1, <2>6 DEF Dispatch, Send, BaseInv, RestTypeOK
  <2>8. SaveAt(heap, r, Placed(heap[r], d), Done(s))
    BY <1>3 DEF Send
  <2> HIDE DEF r, d
  <2> QED
    BY <1>1, <2>1, <2>4, <2>5, <2>7, <2>8, SaveKeeps
<1>4. CASE Memory(heap, cur, Done(s)) /\ UNCHANGED <<disk, reserved, tasks>>
  <2>1. RestTypeOK'
    BY <1>4 DEF Dispatch, BaseInv, RestTypeOK
  <2> QED
    BY <1>1, <1>2, <1>4, <2>1, LookKeeps
<1> QED
  BY <1>3, <1>4 DEF Dispatch

LEMMA VerifiedKeeps == ASSUME BaseInv, NEW s \in Slot, Verified(s) PROVE BaseInv'
<1> DEFINE o == [Current EXCEPT !.state = "finished"]
<1>1. handler[s].op = "verify" /\ issued' = issued
  BY DEF Verified
<1>2. Moved(Done(s))
  BY <1>1, DoneMoved
<1>3. Current \in Object /\ Counts(Current, handler, issued)
  BY GotKeeps
<1>4. o \in Object /\ o.attempt = Current.attempt
  BY <1>3 DEF Object, State, Terminal
<1>5. RestTypeOK'
  BY DEF Verified, Release, BaseInv, RestTypeOK, nodeVars
<1>6. CASE Look(Done(s))
  BY <1>1, <1>2, <1>5, <1>6, LookKeeps DEF Look
<1>7. CASE SaveAndEvict(Got, At, o, Done(s))
  <2> HIDE DEF o
  <2> QED
    BY <1>1, <1>2, <1>4, <1>5, <1>7, SaveCurrentKeeps
<1>8. CASE Memory([Got EXCEPT ![At] = o], Kept, Suspend(s, Hold("publish", At))) /\ UNCHANGED disk
  <2> DEFINE h == [Got EXCEPT ![At] = o]
             x == Hold("publish", At)
             hs == Suspend(s, x)
  <2>1. At \in Ref /\ At # 0
    BY AtIsARef DEF Ref
  <2>2. x \in Suspended /\ x.op = "publish" /\ x.ref = At
    BY <2>1, HoldIsSuspended DEF Ops
  <2>3. hs \in [Slot -> Suspended] /\ HandlersOK(hs) /\ hs[s] = x
        /\ Dispatching(hs) \subseteq Dispatching(handler)
        /\ Moved(hs)
    BY <1>1, <2>1, <2>2 DEF Suspend, BaseInv, Sound, HandlersOK, Dispatching, Moved, Bare
  <2>4. Sound(h, hs, disk, issued)
    <3>1. Sound(h, handler, disk, issued)
      <4>1. Sound(Got, handler, disk, issued) /\ Counts(o, handler, issued)
        BY <1>3, <1>4, GotKeeps DEF Counts
      <4> QED
        BY <1>4, <2>1, <4>1 DEF Sound
    <3> HIDE DEF h, hs
    <3> QED
      BY <2>3, <3>1, MovedSound
  <2>5. Kept \in Ref \cup {0} /\ (Kept # 0 => Kept = At)
    BY AtIsARef DEF Kept, BaseInv
  <2>6. Agree(h, Kept, hs, disk)
    BY <2>2, <2>3, <2>5 DEF Agree, Publishing
  <2>7. Memory(h, Kept, hs) /\ disk' = disk
    BY <1>8
  <2> HIDE DEF h, hs
  <2> QED
    BY <1>1, <1>5, <2>4, <2>5, <2>6, <2>7, MemoryKeeps
<1> QED
  BY <1>6, <1>7, <1>8 DEF Verified

(* Handlers that go on.                                                    *)
LEMMA ResumesKeep == \A s \in Slot : BaseInv /\ Resumes(s) => BaseInv'
<1> SUFFICES ASSUME NEW s \in Slot, BaseInv, Resumes(s) PROVE BaseInv'
  OBVIOUS
<1>1. CASE Upload(s) \/ CommitFindsMissing(s) \/ Publish(s) \/ Manifest(s)
  <2>1. RestTypeOK' /\ issued' = issued /\ handler[s].op \notin Bare
    BY <1>1 DEF Upload, CommitFindsMissing, Publish, Manifest, BaseInv, RestTypeOK, nodeVars, Bare
  <2>2. LET r == handler[s].ref
        IN SaveAt(heap, r, heap[r], Done(s)) \/ SaveAndEvict(heap, r, heap[r], Done(s))
    BY <1>1 DEF Upload, CommitFindsMissing, Publish, Manifest
  <2> QED
    BY <2>1, <2>2, SaveHeldKeeps
<1>2. CASE ArtifactMissing(s)
  <2>1. Moved(Done(s)) /\ UNCHANGED <<custody, issued, link, tasks>> /\ wire' \in SUBSET Message
    BY <1>2, DoneMoved DEF ArtifactMissing, nodeVars, BaseInv, RestTypeOK
  <2> QED
    BY <1>2, <2>1, SettleKeeps DEF ArtifactMissing
<1>3. CASE SweepEnds(s)
  <2>1. PICK hs \in Collected(heap, cur, Done(s)) : Memory(heap, cur, hs)
    BY <1>3 DEF SweepEnds
  <2>2. Moved(hs)
    BY <1>3, <2>1, DoneMoved, CollectedMoved DEF SweepEnds
  <2>3. RestTypeOK' /\ issued' = issued /\ disk' = disk
    BY <1>3 DEF SweepEnds, BaseInv, RestTypeOK, nodeVars
  <2> QED
    BY <2>1, <2>2, <2>3, LookKeeps
<1>4. CASE LoopPlaces(s)
  <2>1. Moved(Done(s))
    BY <1>4, DoneMoved DEF LoopPlaces
  <2>2. CASE cur # 0 /\ Assign(heap, cur, Done(s), cur, disk)
    <3>1. cur \in Ref /\ Sound(heap, Done(s), disk, issued) /\ Agree(heap, cur, Done(s), disk)
      BY <2>1, <2>2, MovedSound, MovedAgrees DEF BaseInv
    <3> QED
      BY <1>4, <2>2, <3>1, AssignKeeps DEF LoopPlaces
  <2>3. CASE Memory(heap, cur, Done(s)) /\ UNCHANGED <<disk, issued, reserved, tasks>>
    <3>1. RestTypeOK'
      BY <1>4, <2>3 DEF LoopPlaces, BaseInv, RestTypeOK
    <3> QED
      BY <2>1, <2>3, <3>1, LookKeeps
  <2> QED
    BY <1>4, <2>2, <2>3 DEF LoopPlaces
<1> QED
  BY <1>1, <1>2, <1>3, <1>4, CreateKeeps, CommitGoesOnKeeps, DispatchKeeps, VerifiedKeeps
  DEF Resumes

(* Nodes and their messages.                                               *)
LEMMA TasksKeep == \A t \in tasks : BaseInv /\ TaskStep(t) => BaseInv'
<1> SUFFICES ASSUME NEW t \in tasks, BaseInv, TaskStep(t) PROVE BaseInv'
  OBVIOUS
<1>1. Current \in Object /\ t \in Task
  BY GotKeeps DEF BaseInv, RestTypeOK
<1>2. ASSUME NEW p \in Phases, Goes(t, p) PROVE tasks' \in SUBSET Task
  <2>1. [dev |-> t.dev, token |-> t.token, up |-> t.up, phase |-> p] \in Task
    BY <1>1, <1>2 DEF Task
  <2> QED
    BY <1>2, <2>1 DEF Goes, BaseInv, RestTypeOK
<1>3. CASE HandleEvent(t)
  <2> DEFINE o == [Current EXCEPT !.state = "running"]
  <2>1. o \in Object /\ o.attempt = Current.attempt
    BY <1>1 DEF Object, State, Active
  <2>2. Save(o, handler) /\ issued' = issued /\ RestTypeOK'
    BY <1>3 DEF HandleEvent, BaseInv, RestTypeOK, nodeVars
  <2> HIDE DEF o
  <2> QED
    BY <2>1, <2>2, StayMoved, SaveCurrentKeeps
<1>4. CASE Fetch(t)
  <2>1. tasks' \in SUBSET Task
    BY <1>2, <1>4 DEF Fetch, Phases
  <2>2. RestTypeOK' /\ issued' = issued
    BY <1>4, <2>1 DEF Fetch, BaseInv, RestTypeOK
  <2> QED
    BY <1>4, <2>2, StayMoved, LookKeeps DEF Fetch, Look
<1>5. CASE Acknowledge(t)
  <2>1. Acknowledged(Current) \in Object /\ Acknowledged(Current).attempt = Current.attempt
    BY <1>1 DEF Acknowledged, Object
  <2>2. tasks' \in SUBSET Task
    BY <1>2, <1>5 DEF Acknowledge, Phases
  <2>3. RestTypeOK' /\ issued' = issued /\ Save(Acknowledged(Current), handler)
    BY <1>5, <2>2 DEF Acknowledge, BaseInv, RestTypeOK
  <2> QED
    BY <2>1, <2>3, StayMoved, SaveCurrentKeeps
<1>6. CASE StoreUpload(t)
  <2>1. RestTypeOK' /\ issued' = issued /\ Save(Current, handler)
    BY <1>6 DEF StoreUpload, BaseInv, RestTypeOK, nodeVars
  <2> QED
    BY <1>1, <2>1, StayMoved, SaveCurrentKeeps
<1>7. CASE TaskEnds(t)
  <2>1. \A b \in BOOLEAN : [dev |-> t.dev, token |-> t.token, ok |-> b] \in Message
    BY <1>1 DEF Task, Message
  <2>2. wire' \in SUBSET Message /\ tasks' \in SUBSET Task
    BY <1>7, <2>1 DEF TaskEnds, BaseInv, RestTypeOK
  <2> QED
    BY <1>7, <2>2 DEF TaskEnds, relayVars, BaseInv, RestTypeOK, Sound, Agree, HandlersOK, Counts,
       Publishing, Dispatches, Dispatching
<1> QED
  BY <1>3, <1>4, <1>5, <1>6, <1>7 DEF TaskStep

LEMMA MessagesKeep ==
  ASSUME BaseInv,
         \/ \E t \in tasks, s \in Free : ManifestStarts(t, s)
         \/ \E m \in wire : HandleError(m)
         \/ \E m \in wire, s \in Free : HandleResult(m, s)
  PROVE  BaseInv'
<1>1. At \in Ref /\ At # 0
  BY AtIsARef DEF Ref
<1>2. ASSUME NEW t \in tasks, NEW s \in Free, ManifestStarts(t, s) PROVE BaseInv'
  <2>1. Moved(Suspend(s, Hold("manifest", At)))
    BY <1>1, HoldIsSuspended, SuspendMoved DEF Ops, Bare
  <2>2. RestTypeOK'
    BY <1>2 DEF ManifestStarts, BaseInv, RestTypeOK, nodeVars
  <2> QED
    BY <1>2, <2>1, <2>2, LookKeeps DEF ManifestStarts
<1>3. ASSUME NEW m \in wire, HandleError(m) PROVE BaseInv'
  <2>1. wire' \in SUBSET Message
    BY <1>3 DEF HandleError, BaseInv, RestTypeOK
  <2> QED
    BY <1>3, <2>1, StayMoved, SettleKeeps DEF HandleError
<1>4. ASSUME NEW m \in wire, NEW s \in Free, HandleResult(m, s) PROVE BaseInv'
  <2> DEFINE x == [op |-> "verify", ref |-> 0, dev |-> m.dev, token |-> m.token]
  <2>1. x \in Suspended /\ x.op = "verify" /\ x.ref = 0
    BY DEF BaseInv, RestTypeOK, Message, Suspended, Ops
  <2>2. RestTypeOK' /\ issued' = issued /\ Look(Suspend(s, x))
    BY <1>4 DEF HandleResult, BaseInv, RestTypeOK
  <2> HIDE DEF x
  <2>3. Moved(Suspend(s, x))
    BY <2>1, SuspendMoved DEF Bare
  <2> QED
    BY <2>2, <2>3, LookKeeps DEF Look
<1> QED
  BY <1>2, <1>3, <1>4

(* failInProgressWork and the placement it triggers.                       *)
LEMMA FailWorkKeeps ==
  ASSUME BaseInv, NEW d \in Device, NEW hs, Moved(hs), FailWork(d, hs), issued' = issued, RestTypeOK'
  PROVE  BaseInv'
<1>1. CASE ~InProgress(d) /\ disk' = disk /\ \E gs \in Collected(heap, cur, hs) : Memory(heap, cur, gs)
  BY <1>1, CollectedMoved, LookKeeps
<1>2. ASSUME InProgress(d),
             LET o == Requeued(heap[cur])
                 h == [heap EXCEPT ![cur] = o]
             IN /\ \E gs \in Collected(h, cur, hs) : Memory(h, cur, gs)
                /\ disk' = o
      PROVE  BaseInv'
  <2> DEFINE o == Requeued(heap[cur])
             h == [heap EXCEPT ![cur] = o]
  <2>1. cur \in Ref
    BY <1>2 DEF InProgress, BaseInv
  <2>2. PICK gs \in Collected(h, cur, hs) : Memory(h, cur, gs) /\ disk' = o
    BY <1>2
  <2>3. Moved(gs)
    BY <2>2, CollectedMoved
  <2>4. Sound(heap, gs, disk, issued)
    BY <2>3, MovedSound DEF BaseInv
  <2>5. o \in Object /\ Counts(o, gs, issued)
    <3>1. heap[cur] \in Object /\ Counts(heap[cur], gs, issued)
      BY <2>1, <2>4 DEF Sound
    <3> QED
      BY <3>1 DEF Requeued, Queued, Object, State, Counts
  <2>6. Sound(h, gs, o, issued)
    BY <2>1, <2>4, <2>5 DEF Sound
  <2>7. Agree(h, cur, gs, o)
    <3>1. h[cur] = o
      BY <2>1, <2>4 DEF Sound
    <3> QED
      BY <2>5, <3>1 DEF Agree, Object
  <2> HIDE DEF o, h
  <2> QED
    BY <2>1, <2>2, <2>6, <2>7, MemoryKeeps
<1>3. CASE InProgress(d) /\ SaveAndEvict(heap, cur, [heap[cur] EXCEPT !.state = "failed"], hs)
  <2> DEFINE o == [heap[cur] EXCEPT !.state = "failed"]
  <2>1. cur \in Ref
    BY <1>3 DEF InProgress, BaseInv
  <2>2. Sound(heap, hs, disk, issued)
    BY MovedSound DEF BaseInv
  <2>3. o \in Object /\ Counts(o, hs, issued)
    <3>1. heap[cur] \in Object /\ Counts(heap[cur], hs, issued)
      BY <2>1, <2>2 DEF Sound
    <3> QED
      BY <3>1 DEF Object, State, Terminal, Counts
  <2>4. SaveAndEvict(heap, cur, o, hs)
    BY <1>3
  <2> HIDE DEF o
  <2> QED
    BY <2>1, <2>2, <2>3, <2>4, SaveKeeps
<1> QED
  BY <1>1, <1>2, <1>3 DEF FailWork

LEMMA DevicesKeep == \A d \in Device : BaseInv /\ DeviceStep(d) => BaseInv'
<1> SUFFICES ASSUME NEW d \in Device, BaseInv, DeviceStep(d) PROVE BaseInv'
  OBVIOUS
<1>1. CASE Connect(d)
  <2>1. RestTypeOK' /\ issued' = issued
    BY <1>1 DEF Connect, Release, BaseInv, RestTypeOK
  <2> QED
    BY <1>1, <2>1, SocketGoneMoved, FailWorkKeeps DEF Connect
<1>2. CASE Close(d)
  <2>1. RestTypeOK' /\ issued' = issued
    BY <1>2 DEF Close, Release, BaseInv, RestTypeOK
  <2> QED
    BY <1>2, <2>1, SocketGoneMoved, FailWorkKeeps DEF Close
<1>3. CASE Stale(d)
  <2>1. RestTypeOK' /\ issued' = issued
    BY <1>3 DEF Stale, Release, BaseInv, RestTypeOK, nodeVars
  <2> QED
    BY <1>3, <2>1, StayMoved, FailWorkKeeps DEF Stale
<1>4. CASE Available(d)
  <2>1. PICK hs \in Collected(heap, cur, handler) : Memory(heap, cur, hs)
    BY <1>4 DEF Available
  <2>2. Moved(hs)
    BY <2>1, StayMoved, CollectedMoved
  <2>3. RestTypeOK' /\ issued' = issued /\ disk' = disk
    BY <1>4 DEF Available, Release, BaseInv, RestTypeOK, nodeVars
  <2> QED
    BY <2>1, <2>2, <2>3, LookKeeps
<1>5. CASE Drop(d)
  <2>1. \A t \in tasks : [dev |-> t.dev, token |-> t.token, phase |-> t.phase,
                          up |-> t.up /\ t.dev # d] \in Task
    BY DEF BaseInv, RestTypeOK, Task
  <2>2. RestTypeOK'
    BY <1>5, <2>1 DEF Drop, relayVars, BaseInv, RestTypeOK
  <2> QED
    BY <1>5, <2>2 DEF Drop, relayVars, BaseInv, Sound, Agree, HandlersOK, Counts, Publishing,
       Dispatches, Dispatching
<1> QED
  BY <1>1, <1>2, <1>3, <1>4, <1>5 DEF DeviceStep

LEMMA ObjectsKeep == BaseInv /\ (AssignQueuedWork \/ Hibernate \/ Restart) => BaseInv'
<1> SUFFICES ASSUME BaseInv, AssignQueuedWork \/ Hibernate \/ Restart PROVE BaseInv'
  OBVIOUS
<1>1. CASE AssignQueuedWork
  <2>1. PICK hs \in Collected(heap, cur, handler) : Memory(heap, cur, hs)
    BY <1>1 DEF AssignQueuedWork
  <2>2. Moved(hs)
    BY <2>1, StayMoved, CollectedMoved
  <2>3. RestTypeOK' /\ issued' = issued /\ disk' = disk
    BY <1>1 DEF AssignQueuedWork, BaseInv, RestTypeOK, nodeVars
  <2> QED
    BY <2>1, <2>2, <2>3, LookKeeps
<1>2. CASE Hibernate
  <2>1. RestTypeOK' /\ issued' = issued /\ disk' = disk
    BY <1>2 DEF Hibernate, BaseInv, RestTypeOK, nodeVars
  <2> QED
    BY <1>2, <2>1, StayMoved, LookKeeps DEF Hibernate
<1>3. CASE Restart
  <2> DEFINE hs == [s \in Slot |-> Idle]
  <2>1. hs \in [Slot -> Suspended] /\ HandlersOK(hs) /\ Dispatching(hs) \subseteq Dispatching(handler)
    BY IdleIsBare DEF HandlersOK, Dispatching, Bare
  <2>2. \A p \in Object : Counts(p, handler, issued) => Counts(p, hs, issued)
    <3>1. Dispatches(hs) <= Dispatches(handler)
      BY <2>1, DispatchesFall
    <3>2. issued \in Nat
      BY GraphConstants DEF GraphConstants, BaseInv, Sound, Token
    <3> HIDE DEF hs
    <3> QED
      BY <3>1, <3>2, DispatchesType DEF Counts, Object
  <2>3. Sound(heap, hs, disk, issued)
    <3> HIDE DEF hs
    <3> QED
      BY <2>1, <2>2 DEF BaseInv, Sound
  <2>4. Agree(heap, 0, hs, disk)
    BY DEF Agree
  <2>5. \A t \in tasks : [dev |-> t.dev, token |-> t.token, phase |-> t.phase, up |-> FALSE] \in Task
    BY DEF BaseInv, RestTypeOK, Task
  <2>6. RestTypeOK' /\ issued' = issued /\ disk' = disk
    BY <1>3, <2>5 DEF Restart, BaseInv, RestTypeOK
  <2>7. Memory(heap, 0, hs)
    BY <1>3 DEF Restart
  <2> HIDE DEF hs
  <2> QED
    BY <2>3, <2>4, <2>6, <2>7, MemoryKeeps
<1> QED
  BY <1>1, <1>2, <1>3

LEMMA StepBaseInv == BaseInv /\ [Next]_graphVars => BaseInv'
<1>1. BaseInv /\ UNCHANGED graphVars => BaseInv'
  BY DEF graphVars, relayVars, nodeVars, BaseInv, RestTypeOK, Sound, Agree, HandlersOK, Counts,
     Publishing, Dispatches, Dispatching
<1> QED
  BY <1>1, OwnerKeeps, ObjectsKeep, ResumesKeep, StartsKeep, TasksKeep, MessagesKeep, DevicesKeep
  DEF Next

(* Whatever handlers overlap, crash or go on with what they held: every    *)
(* object a handler refers to exists and is a job (type correctness), and  *)
(* what the map says of the job is what storage says.                      *)
THEOREM MemoryAgreesWithStorage == Spec => [](GraphTypeOK /\ CacheCoherent)
<1>1. BaseInv => GraphTypeOK /\ CacheCoherent
  BY DEF BaseInv, RestTypeOK, Sound, Agree, Publishing, GraphTypeOK, CacheCoherent
<1> QED
  BY <1>1, InitBaseInv, StepBaseInv, PTL DEF Spec

-----------------------------------------------------------------------------
(***************************************************************************)
(* Local custody.  No handler holds an object while it is suspended, so    *)
(* memory is the map's object and nothing else.  The rest of the invariant *)
(* is about tokens: who may know which, and what knowing one means.        *)
(***************************************************************************)

(* Tokens that tasks, messages on their way and handlers that verify a     *)
(* result carry.                                                           *)
Known(k) ==
  \/ \E t \in tasks : t.token = k
  \/ \E m \in wire : m.token = k
  \/ \E s \in Slot : handler[s].op = "verify" /\ handler[s].token = k

OnlyMap ==
  /\ \A s \in Slot : /\ handler[s].op \in Bare
                     /\ handler[s].op = "verify" => handler[s].dev # None
  /\ \A r \in Ref : r # cur => heap[r] = Blank
  /\ cur # 0 => disk.state # "absent"

Forgets(o) == o.delivered \/ o.state \in Terminal => o.redacted

Waits == {"absent", "planned", "queued"}

HasAgent(o) ==
  /\ o.state \in Waits => o.agent = None
  /\ o.state \in Active => o.agent # None

(* A token that was drawn and not stored was not sent, either.             *)
TokensOK ==
  /\ \A k : Known(k) => k \in 1 .. issued
  /\ disk.token <= issued
  /\ Current.token <= issued
  /\ Current.token = disk.token \/ ~Known(Current.token)

OneTaskPerToken == \A t, u \in tasks : t.token = u.token => t = u

(* Who knows the stored token of a job under way.                          *)
HolderOK(o) ==
  o.state \in Active =>
    \A t \in tasks : t.token = o.token
      => t.dev = o.agent /\ (t.phase = "fetch" => ~o.redacted)

VerifiersOK(o) ==
  o.state \in Active =>
    \A s \in Slot : handler[s].op = "verify" /\ handler[s].token = o.token => o.delivered

CustodyInv ==
  custody =>
    /\ OnlyMap
    /\ Forgets(disk) /\ HasAgent(disk)
    /\ TokensOK /\ OneTaskPerToken
    /\ HolderOK(disk) /\ VerifiersOK(disk)

GraphInv == BaseInv /\ CustodyInv

-----------------------------------------------------------------------------
(* What memory is, under custody                                           *)

LEMMA NobodyPublishes ==
  ASSUME GraphInv, custody
  PROVE  Current = [disk EXCEPT !.token = Current.token]
<1>1. ~Publishing(handler, cur)
  BY DEF GraphInv, CustodyInv, OnlyMap, Publishing, Bare
<1>2. disk \in Object /\ Current \in Object
  BY GotKeeps DEF GraphInv, BaseInv, Sound
<1>3. CASE cur # 0
  <2>1. [heap[cur] EXCEPT !.token = disk.token] = disk /\ Current = heap[cur]
    BY <1>1, <1>3 DEF GraphInv, BaseInv, Agree, Current
  <2> QED
    BY <1>2, <2>1 DEF Object
<1>4. CASE cur = 0
  BY <1>2, <1>4 DEF Current, Object
<1> QED
  BY <1>3, <1>4

LEMMA CurrentIsStored ==
  ASSUME GraphInv, custody
  PROVE  /\ disk \in Object /\ Current \in Object
         /\ Current.state = disk.state /\ Current.agent = disk.agent
         /\ Current.redacted = disk.redacted /\ Current.delivered = disk.delivered
         /\ Current.attempt = disk.attempt
         /\ disk.token \in Nat /\ Current.token \in Nat /\ issued \in Nat
<1>1. disk \in Object /\ Current \in Object /\ issued \in Token
  BY GotKeeps DEF GraphInv, BaseInv, Sound
<1>2. disk.token \in Nat /\ Current.token \in Nat /\ issued \in Nat
  BY <1>1, GraphConstants DEF GraphConstants, Object, Token
<1> QED
  BY <1>1, <1>2, NobodyPublishes DEF Object

(* Handlers after a step of a job under custody.                           *)
Bared(hs) ==
  /\ hs \in [Slot -> Suspended]
  /\ HandlersOK(hs)
  /\ \A s \in Slot : /\ hs[s].op \in Bare
                     /\ hs[s].op = "verify" => hs[s].dev # None

LEMMA BaredMemory ==
  ASSUME NEW h, NEW c \in Ref \cup {0}, NEW hs, Bared(hs), Memory(h, c, hs)
  PROVE  /\ cur' = c /\ handler' = hs
         /\ \A r \in Ref : r # c => heap'[r] = Blank
         /\ c # 0 => Current' = h[c]
         /\ c = 0 => Current' = disk'
<1>1. \A s \in Slot : hs[s].ref = 0
  BY DEF Bared, HandlersOK
<1>2. \A r \in Ref : r \notin Held(hs)
  BY <1>1 DEF Held, Ref
<1>3. heap' = [r \in Ref |-> IF r = c \/ r \in Held(hs) THEN h[r] ELSE Blank]
      /\ cur' = c /\ handler' = hs
  BY DEF Memory
<1> QED
  BY <1>2, <1>3 DEF Current

LEMMA LookShows ==
  ASSUME GraphInv, custody, NEW hs, Bared(hs), disk' = disk,
         Memory(Got, Kept, hs) \/ Memory(heap, cur, hs)
  PROVE  OnlyMap' /\ Current' = Current
<1>1. At \in Ref /\ (cur # 0 => At = cur) /\ cur \in Ref \cup {0}
  BY AtIsARef DEF GraphInv, BaseInv
<1>2. Got[At] = Current /\ Kept \in Ref \cup {0}
  BY GotKeeps DEF GraphInv
<1>3. CASE Memory(Got, Kept, hs)
  <2>1. Kept # 0 => Kept = At /\ disk.state # "absent"
    BY <1>1 DEF Kept, GraphInv, CustodyInv, OnlyMap
  <2>2. Kept = 0 => Current = disk
    BY <1>1 DEF Kept, Current, Ref
  <2>3. /\ cur' = Kept /\ handler' = hs
        /\ \A r \in Ref : r # Kept => heap'[r] = Blank
        /\ Kept # 0 => Current' = Got[Kept]
        /\ Kept = 0 => Current' = disk'
    BY <1>2, <1>3, BaredMemory
  <2>4. Current' = Current
    BY <1>2, <2>1, <2>2, <2>3
  <2>5. OnlyMap'
    BY <2>1, <2>3 DEF OnlyMap, Bared
  <2> QED
    BY <2>4, <2>5
<1>4. CASE Memory(heap, cur, hs)
  BY <1>1, <1>4, BaredMemory DEF OnlyMap, Bared, Current, GraphInv, CustodyInv
<1> QED
  BY <1>3, <1>4

LEMMA EvictShows ==
  ASSUME NEW h, NEW hs, Bared(hs), Memory(h, 0, hs)
  PROVE  OnlyMap' /\ Current' = disk'
<1>1. 0 \in Ref \cup {0}
  OBVIOUS
<1>2. /\ cur' = 0 /\ handler' = hs
      /\ \A r \in Ref : r # 0 => heap'[r] = Blank
      /\ Current' = disk'
  BY <1>1, BaredMemory
<1> QED
  BY <1>2 DEF OnlyMap, Bared

LEMMA SaveShows ==
  ASSUME NEW h \in [Ref -> Object], NEW r \in Ref, NEW o, o.state # "absent", NEW hs, Bared(hs), custody,
         SaveAt(h, r, o, hs) \/ SaveAndEvict(h, r, o, hs), o \in Object
  PROVE  OnlyMap' /\ disk' = Stored(o) /\ Current' = Stored(o)
<1> DEFINE g == [h EXCEPT ![r] = Stored(o)]
<1>1. g[r] = Stored(o) /\ disk' = Stored(o) /\ (Memory(g, r, hs) \/ Memory(g, 0, hs))
  BY DEF SaveAt, SaveAndEvict
<1>2. Stored(o).state # "absent"
  BY DEF Stored, Object
<1>3. r # 0
  BY DEF Ref
<1> HIDE DEF g
<1> QED
  BY <1>1, <1>2, <1>3, BaredMemory DEF OnlyMap, Bared

-----------------------------------------------------------------------------
(* What a step may do to the tokens that are known                         *)

TasksFollow ==
  \A u \in tasks' : \E t \in tasks :
    u.token = t.token /\ u.dev = t.dev /\ (u.phase = "fetch" => t.phase = "fetch")

WireFollows == \A m \in wire' : Known(m.token)

HandlersFollow ==
  \A s \in Slot : handler'[s].op = "verify" =>
    /\ Known(handler'[s].token)
    /\ disk.state \in Active /\ handler'[s].token = disk.token => disk.delivered

Follows == TasksFollow /\ OneTaskPerToken' /\ WireFollows /\ HandlersFollow

LEMMA KnownFollows ==
  ASSUME TasksFollow, WireFollows, HandlersFollow
  PROVE  \A k : Known(k)' => Known(k)
BY DEF TasksFollow, WireFollows, HandlersFollow, Known

(* A step that writes nothing: the object in the map may be gone.          *)
LEMMA QuietKeeps ==
  ASSUME GraphInv, custody, custody' = custody, OnlyMap', disk' = disk, issued' = issued,
         Current'.token \in {Current.token, disk.token}, Follows
  PROVE  CustodyInv'
<1> USE DEF GraphInv, CustodyInv
<1>1. \A k : Known(k)' => Known(k)
  BY KnownFollows DEF Follows
<1>2. TokensOK'
  BY <1>1 DEF TokensOK
<1>3. HolderOK(disk)'
  BY DEF Follows, TasksFollow, HolderOK
<1>4. VerifiersOK(disk)'
  BY DEF Follows, HandlersFollow, VerifiersOK
<1> QED
  BY <1>2, <1>3, <1>4 DEF Follows, Forgets, HasAgent

(* A token is drawn, and then the payload is missing.                      *)
LEMMA RedrawKeeps ==
  ASSUME GraphInv, custody, custody' = custody, OnlyMap', disk' = disk, issued' = issued + 1,
         Current'.token = issued + 1, Follows
  PROVE  CustodyInv'
<1> USE DEF GraphInv, CustodyInv
<1>1. \A k : Known(k)' => Known(k)
  BY KnownFollows DEF Follows
<1>2. TokensOK'
  BY <1>1, CurrentIsStored DEF TokensOK
<1>3. HolderOK(disk)'
  BY DEF Follows, TasksFollow, HolderOK
<1>4. VerifiersOK(disk)'
  BY DEF Follows, HandlersFollow, VerifiersOK
<1> QED
  BY <1>2, <1>3, <1>4 DEF Follows, Forgets, HasAgent

(* A new state is stored, which continues an assignment or has none.       *)
LEMMA WriteKeeps ==
  ASSUME GraphInv, custody, custody' = custody, OnlyMap', issued' = issued, Follows,
         NEW o, disk' = o, Current' = o, Forgets(o), HasAgent(o), o.token <= issued,
         o.state \in Active =>
           /\ disk.state \in Active
           /\ o.token = Current.token /\ o.agent = disk.agent
           /\ disk.delivered => o.delivered
           /\ o.redacted => \/ disk.redacted
                            \/ \A u \in tasks' : u.token = o.token => u.phase # "fetch"
  PROVE  CustodyInv'
<1> USE DEF GraphInv, CustodyInv
<1>1. \A k : Known(k)' => Known(k)
  BY KnownFollows DEF Follows
<1>2. TokensOK'
  BY <1>1 DEF TokensOK
<1>3. o.state \in Active /\ o.token # disk.token => \A k : Known(k)' => k # o.token
  BY <1>1 DEF TokensOK
<1>4. \A u \in tasks' : \A k : u.token = k => Known(k)'
  BY DEF Known
<1>5. \A s \in Slot : \A k : handler'[s].op = "verify" /\ handler'[s].token = k => Known(k)'
  BY DEF Known
<1>6. HolderOK(disk)'
  <2> SUFFICES ASSUME o.state \in Active, NEW u \in tasks', u.token = o.token
               PROVE  u.dev = o.agent /\ (u.phase = "fetch" => ~o.redacted)
    BY DEF HolderOK
  <2>2. o.token = disk.token
    BY <1>3, <1>4
  <2>1. PICK t \in tasks : u.token = t.token /\ u.dev = t.dev
                          /\ (u.phase = "fetch" => t.phase = "fetch")
    BY DEF Follows, TasksFollow
  <2> QED
    BY <2>1, <2>2 DEF HolderOK
<1>7. VerifiersOK(disk)'
  <2> SUFFICES ASSUME o.state \in Active, NEW s \in Slot, handler'[s].op = "verify",
                      handler'[s].token = o.token
               PROVE  o.delivered
    BY DEF VerifiersOK
  <2>1. o.token = disk.token
    BY <1>3, <1>5
  <2> QED
    BY <2>1 DEF Follows, HandlersFollow
<1> QED
  BY <1>2, <1>6, <1>7 DEF Follows, Forgets, HasAgent

(* The job is sent to a device with a token nobody knew.                   *)
LEMMA SendKeeps ==
  ASSUME GraphInv, custody, custody' = custody, OnlyMap', issued' = issued + 1, HandlersFollow,
         wire' = wire, NEW d \in Device, Request(d, issued + 1),
         NEW o, disk' = o, Current' = o, o.token = issued + 1, o.state = "assigned", o.agent = d,
         ~o.redacted, ~o.delivered
  PROVE  CustodyInv'
<1> USE DEF GraphInv, CustodyInv
<1> DEFINE new == [dev |-> d, token |-> issued + 1, up |-> TRUE, phase |-> "fetch"]
<1>1. issued \in Nat
  BY CurrentIsStored
<1>2. \A k : Known(k) => k \in 1 .. issued
  BY DEF TokensOK
<1>3. tasks' = tasks \/ tasks' = tasks \cup {new}
  BY DEF Request
<1>4. new.token = issued + 1 /\ new.dev = d
  OBVIOUS
<1>5. \A t \in tasks : t.token # issued + 1
  BY <1>1, <1>2 DEF Known
<1> HIDE DEF new
<1>6. \A u \in tasks' : u \in tasks \/ u = new
  BY <1>3
<1>7. \A k : Known(k)' => Known(k) \/ k = issued + 1
  <2>1. \A u \in tasks' : Known(u.token) \/ u.token = issued + 1
    BY <1>4, <1>6 DEF Known
  <2>2. \A m \in wire' : Known(m.token)
    BY DEF Known
  <2> QED
    BY <2>1, <2>2 DEF HandlersFollow, Known
<1>8. TokensOK'
  BY <1>1, <1>2, <1>7 DEF TokensOK
<1>9. OneTaskPerToken'
  BY <1>4, <1>5, <1>6 DEF OneTaskPerToken
<1>10. HolderOK(disk)'
  BY <1>4, <1>5, <1>6 DEF HolderOK
<1>11. VerifiersOK(disk)'
  BY <1>1, <1>2 DEF HandlersFollow, VerifiersOK
<1> QED
  BY <1>8, <1>9, <1>10, <1>11, GraphConstants
  DEF GraphConstants, Forgets, HasAgent, Waits, Active, Terminal

-----------------------------------------------------------------------------
(* What the promise sees of a step                                         *)

StageOf(o) ==
  IF o.state \in {"planned", "queued"} THEN "waiting"
  ELSE IF o.state \in Active THEN "placed"
  ELSE o.state

PayloadOf(o) == o.state # "absent" /\ ~o.redacted

HolderOf(o) == IF o.state \in Active THEN o.agent ELSE None

PromiseStep == [Promise!Next]_(Promise!custodyVars)

(* Submissions stay as they are: none starts, and no job comes to be.      *)
Lone ==
  /\ \A s \in Slot : handler'[s].op = "create" => handler[s].op = "create"
  /\ disk.state = "absent" => disk'.state = "absent"

Good == CustodyInv' /\ PromiseStep /\ Lone

LEMMA StoryNow ==
  ASSUME GraphInv, custody
  PROVE  stage = StageOf(disk) /\ payload = PayloadOf(disk) /\ holder = HolderOf(disk)
BY CurrentIsStored DEF stage, payload, holder, StageOf, PayloadOf, HolderOf

LEMMA StoryNext ==
  ASSUME custody', NEW o, Current' = o
  PROVE  stage' = StageOf(o) /\ payload' = PayloadOf(o) /\ holder' = HolderOf(o)
BY DEF stage, payload, holder, StageOf, PayloadOf, HolderOf

LEMMA SameStory ==
  ASSUME GraphInv, custody, custody' = custody,
         Current'.state = disk.state, Current'.agent = disk.agent, Current'.redacted = disk.redacted
  PROVE  PromiseStep
<1>1. stage' = StageOf(Current') /\ payload' = PayloadOf(Current') /\ holder' = HolderOf(Current')
  BY DEF stage, payload, holder, StageOf, PayloadOf, HolderOf
<1>2. stage' = stage /\ payload' = payload /\ holder' = holder
  BY <1>1, StoryNow DEF StageOf, PayloadOf, HolderOf
<1> QED
  BY <1>2 DEF PromiseStep, Promise!custodyVars

(* Handlers that go on or suspend without a result to verify.              *)
Quiets(hs) ==
  /\ Bared(hs)
  /\ \A s \in Slot : hs[s].op \in {"verify", "create"} => hs[s] = handler[s]

LEMMA StayQuiet == ASSUME GraphInv, custody PROVE Quiets(handler)
BY DEF Quiets, Bared, GraphInv, BaseInv, Sound, CustodyInv, OnlyMap

LEMMA DoneQuiet == ASSUME GraphInv, custody, NEW s \in Slot PROVE Quiets(Done(s))
BY StayQuiet, IdleIsBare DEF Quiets, Bared, HandlersOK, Done, Bare

LEMMA SuspendQuiet ==
  ASSUME GraphInv, custody, NEW s \in Slot, NEW op \in {"sweep", "loop"}
  PROVE  Quiets(Suspend(s, Hold(op, 0)))
<1>1. Hold(op, 0) \in Suspended /\ Hold(op, 0).op = op /\ Hold(op, 0).ref = 0
  BY HoldIsSuspended DEF Ops
<1> QED
  BY <1>1, StayQuiet DEF Quiets, Bared, HandlersOK, Suspend, Bare

LEMMA CollectedQuiet ==
  ASSUME NEW hs, Quiets(hs), NEW h, NEW c, NEW gs \in Collected(h, c, hs)
  PROVE  Quiets(gs)
<1>1. Hold("loop", 0) \in Suspended /\ Hold("loop", 0).op = "loop" /\ Hold("loop", 0).ref = 0
  BY HoldIsSuspended DEF Ops
<1>2. gs = hs \/ \E s \in Slot : gs = [hs EXCEPT ![s] = Hold("loop", 0)]
  BY DEF Collected
<1> QED
  BY <1>1, <1>2 DEF Quiets, Bared, HandlersOK, Bare

LEMMA SocketGoneQuiet ==
  ASSUME GraphInv, custody, NEW d \in Device
  PROVE  Quiets(SocketGone(d))
<1>1. \A s \in Slot : handler[s].op # "dispatch"
  BY DEF GraphInv, CustodyInv, OnlyMap, Bare
<1>2. SocketGone(d) = [s \in Slot |-> handler[s]]
  BY <1>1 DEF SocketGone
<1>3. SocketGone(d) = handler
  BY <1>2 DEF GraphInv, BaseInv, Sound
<1> QED
  BY <1>3, StayQuiet

LEMMA QuietsFollow ==
  ASSUME GraphInv, custody, NEW hs, Quiets(hs), handler' = hs
  PROVE  /\ HandlersFollow
         /\ \A s \in Slot : handler'[s].op = "create" => handler[s].op = "create"
BY DEF Quiets, HandlersFollow, Known, GraphInv, CustodyInv, VerifiersOK

LEMMA TasksStay ==
  ASSUME GraphInv, custody, tasks' = tasks
  PROVE  TasksFollow /\ OneTaskPerToken'
BY DEF TasksFollow, OneTaskPerToken, GraphInv, CustodyInv

LEMMA WireStays ==
  ASSUME wire' \subseteq wire
  PROVE  WireFollows
BY DEF WireFollows, Known

(* Looking, with whatever else tasks and messages do.                      *)
LEMMA LookGood ==
  ASSUME GraphInv, custody, custody' = custody, NEW hs, Quiets(hs), disk' = disk, issued' = issued,
         Memory(Got, Kept, hs) \/ Memory(heap, cur, hs),
         TasksFollow, OneTaskPerToken', WireFollows
  PROVE  Good
<1>1. OnlyMap' /\ Current' = Current
  BY LookShows DEF Quiets
<1>2. handler' = hs
  BY DEF Memory
<1>3. Follows
  BY <1>2, QuietsFollow DEF Follows
<1>4. CustodyInv'
  BY <1>1, <1>3, QuietKeeps
<1>5. PromiseStep
  BY <1>1, SameStory, CurrentIsStored
<1>6. Lone
  BY <1>2, QuietsFollow DEF Lone
<1> QED
  BY <1>4, <1>5, <1>6 DEF Good

(* Leaving memory.                                                         *)
LEMMA ForgetGood ==
  ASSUME GraphInv, custody, custody' = custody, NEW hs, Quiets(hs), disk' = disk, issued' = issued,
         Memory(heap, 0, hs), TasksFollow, OneTaskPerToken', WireFollows
  PROVE  Good
<1>1. OnlyMap' /\ Current' = disk
  BY EvictShows DEF Quiets
<1>2. handler' = hs
  BY DEF Memory
<1>3. Follows
  BY <1>2, QuietsFollow DEF Follows
<1>4. CustodyInv'
  BY <1>1, <1>3, QuietKeeps
<1>5. PromiseStep
  BY <1>1, SameStory
<1>6. Lone
  BY <1>2, QuietsFollow DEF Lone
<1> QED
  BY <1>4, <1>5, <1>6 DEF Good

(* Saving o: what is left to show is that o continues the assignment, and  *)
(* what it means to the promise.                                           *)
LEMMA SaveGood ==
  ASSUME GraphInv, custody, custody' = custody, NEW hs, Quiets(hs), issued' = issued,
         NEW h \in [Ref -> Object], NEW r \in Ref, NEW p \in Object,
         SaveAt(h, r, p, hs) \/ SaveAndEvict(h, r, p, hs),
         TasksFollow, OneTaskPerToken', WireFollows,
         disk.state # "absent", p.state # "absent",
         NEW o, o = Stored(p), Forgets(o), HasAgent(o), o.token <= issued,
         o.state \in Active =>
           /\ disk.state \in Active
           /\ o.token = Current.token /\ o.agent = disk.agent
           /\ disk.delivered => o.delivered
           /\ o.redacted => \/ disk.redacted
                            \/ \A u \in tasks' : u.token = o.token => u.phase # "fetch",
         (/\ stage = StageOf(disk) /\ payload = PayloadOf(disk) /\ holder = HolderOf(disk)
          /\ stage' = StageOf(o) /\ payload' = PayloadOf(o) /\ holder' = HolderOf(o)) => PromiseStep
  PROVE  Good
<1>1. OnlyMap' /\ disk' = o /\ Current' = o
  BY SaveShows DEF Quiets
<1>2. handler' = hs
  BY DEF SaveAt, SaveAndEvict, Memory
<1>3. Follows
  BY <1>2, QuietsFollow DEF Follows
<1>4. CustodyInv'
  BY <1>1, <1>3, WriteKeeps
<1>5. PromiseStep
  BY <1>1, StoryNow, StoryNext
<1>6. Lone
  BY <1>2, QuietsFollow DEF Lone
<1> QED
  BY <1>4, <1>5, <1>6 DEF Good

-----------------------------------------------------------------------------
(* Placement under custody                                                 *)

(* Nobody takes the job; a device gets it with a new token; or a token is  *)
(* drawn in vain, as the payload is gone.                                  *)
LEMMA AssignShows ==
  ASSUME GraphInv, custody, NEW h, NEW r \in Ref, NEW hs, Bared(hs), NEW o,
         Sound(h, hs, o, issued), o.state # "absent", h[r].state # "absent", Assign(h, r, hs, r, o)
  PROVE  /\ OnlyMap' /\ handler' = hs
         /\ \/ disk' = o /\ Current' = h[r] /\ issued' = issued /\ tasks' = tasks
            \/ \E d \in Candidates(h[r]) :
                 LET p == Placed([h[r] EXCEPT !.token = issued + 1], d)
                 IN /\ ~h[r].redacted
                    /\ disk' = p /\ Current' = p /\ issued' = issued + 1
                    /\ Request(d, issued + 1)
            \/ /\ Candidates(h[r]) # {} /\ h[r].redacted
               /\ disk' = o /\ Current' = [h[r] EXCEPT !.token = issued + 1]
               /\ issued' = issued + 1 /\ tasks' = tasks
<1>1. r # 0 /\ r \in Ref \cup {0} /\ issued \in Token
  BY DEF Ref, Sound
<1>2. CASE Memory(h, r, hs) /\ disk' = o /\ UNCHANGED <<issued, reserved, tasks>>
  BY <1>1, <1>2, BaredMemory DEF OnlyMap, Bared
<1>3. ASSUME NEW d \in Candidates(h[r]), issued < MaxTokens, issued' = issued + 1,
             LET n == [h EXCEPT ![r].token = NewToken]
             IN \/ ~h[r].redacted /\ Send(n, r, d, hs)
                \/ /\ h[r].redacted
                   /\ Memory(n, r, hs) /\ disk' = o /\ UNCHANGED <<reserved, tasks>>
      PROVE  /\ OnlyMap' /\ handler' = hs
             /\ \/ LET p == Placed([h[r] EXCEPT !.token = issued + 1], d)
                   IN /\ ~h[r].redacted
                      /\ disk' = p /\ Current' = p
                      /\ Request(d, issued + 1)
                \/ /\ h[r].redacted
                   /\ disk' = o /\ Current' = [h[r] EXCEPT !.token = issued + 1]
                   /\ tasks' = tasks
  <2> DEFINE g == [h EXCEPT ![r].token = NewToken]
             q == [h[r] EXCEPT !.token = issued + 1]
             p == Placed(q, d)
  <2>1. d \in Device /\ issued + 1 \in Token
    BY <1>1, <1>3, GraphConstants DEF GraphConstants, Candidates, Token
  <2>2. g[r] = q /\ g \in [Ref -> Object]
    BY <2>1 DEF Sound, NewToken, Object
  <2>3. q.token = issued + 1 /\ q.state = h[r].state /\ q \in Object
    BY <2>1 DEF Sound, Object
  <2>4. p \in Object
    BY <1>1, <1>3, <2>1, PlacedIsAnObject DEF Sound
  <2>5. p.state = "assigned"
    BY <2>3 DEF Placed, Object
  <2>6. Stored(p) = p
    BY <2>5 DEF Stored, Terminal
  <2>7. CASE ~h[r].redacted /\ Send(g, r, d, hs)
    <3>1. SaveAt(g, r, p, hs) /\ Request(d, issued + 1)
      BY <2>2, <2>3, <2>7 DEF Send
    <3>2. handler' = hs
      BY <3>1 DEF SaveAt, Memory
    <3> HIDE DEF g, p
    <3>3. OnlyMap' /\ disk' = p /\ Current' = p
      BY <2>2, <2>4, <2>5, <2>6, <3>1, SaveShows
    <3> QED
      BY <2>7, <3>1, <3>2, <3>3 DEF p
  <2>8. CASE h[r].redacted /\ Memory(g, r, hs) /\ disk' = o /\ UNCHANGED <<reserved, tasks>>
    <3> HIDE DEF g, p
    <3>1. /\ cur' = r /\ handler' = hs /\ Current' = q
          /\ \A c \in Ref : c # r => heap'[c] = Blank
      BY <1>1, <2>2, <2>8, BaredMemory
    <3> QED
      BY <2>8, <3>1 DEF OnlyMap, Bared
  <2> QED
    BY <1>3, <2>7, <2>8
<1> QED
  BY <1>2, <1>3 DEF Assign, NewToken

(* The job is sent: it waited for that, or is moved with its payload.      *)
LEMMA SentGood ==
  ASSUME GraphInv, custody, custody' = custody, wire' = wire, OnlyMap',
         NEW hs, Quiets(hs), handler' = hs,
         NEW q \in Object, ~q.redacted, ~q.delivered, NEW d \in Device,
         NEW p, p = Placed([q EXCEPT !.token = issued + 1], d),
         disk' = p, Current' = p, issued' = issued + 1, Request(d, issued + 1),
         \/ StageOf(disk) \in {"waiting", "placed"} /\ PayloadOf(disk)
         \/ StageOf(disk) = "waiting"
  PROVE  Good
<1>1. /\ p.state = "assigned" /\ p.agent = d /\ p.token = issued + 1
      /\ ~p.redacted /\ ~p.delivered
  BY DEF Placed, Object
<1>2. CustodyInv'
  BY <1>1, QuietsFollow, SendKeeps
<1>3. stage' = "placed" /\ payload' = TRUE /\ holder' = d
  BY <1>1, StoryNext DEF StageOf, PayloadOf, HolderOf, Active
<1>4. PromiseStep
  <2>1. CASE payload
    BY <1>3, <2>1, StoryNow DEF PromiseStep, Promise!Next, Promise!Place
  <2>2. CASE ~payload
    <3>1. stage = "waiting"
      BY <2>2, StoryNow
    <3> QED
      BY <1>3, <2>2, <3>1 DEF PromiseStep, Promise!Next, Promise!ReceiveAndPlace
  <2> QED
    BY <2>1, <2>2
<1>5. Lone
  BY QuietsFollow DEF Lone, StageOf, Active
<1> QED
  BY <1>2, <1>4, <1>5 DEF Good

-----------------------------------------------------------------------------
(* The owner, under custody                                                *)

LEMMA PlacingGood ==
  ASSUME GraphInv, custody, custody' = custody, wire' = wire,
         NEW p \in Object, p.attempt = Current.attempt, p.token = Current.token,
         p.state \in {"planned", "queued"}, p.agent = None, Forgets(p),
         disk.state \in {"planned", "queued"}, p.redacted => disk.redacted,
         SaveAndAssign(p, handler)
  PROVE  Good
<1> DEFINE h == [Got EXCEPT ![At] = p]
<1>1. At \in Ref
  BY AtIsARef DEF GraphInv
<1>2. Stored(p) = p
  BY DEF Stored, Terminal
<1>3. Sound(Got, handler, disk, issued) /\ Counts(Current, handler, issued)
  BY GotKeeps DEF GraphInv
<1>4. Sound(h, handler, p, issued) /\ h[At] = p
  BY <1>1, <1>3 DEF Sound, Counts
<1>5. Assign(h, At, handler, At, p)
  BY <1>2 DEF SaveAndAssign
<1>6. Quiets(handler) /\ Bared(handler)
  BY StayQuiet DEF Quiets
<1> HIDE DEF h
<1>7. /\ OnlyMap' /\ handler' = handler
      /\ \/ disk' = p /\ Current' = p /\ issued' = issued /\ tasks' = tasks
         \/ \E d \in Candidates(p) :
              LET n == Placed([p EXCEPT !.token = issued + 1], d)
              IN /\ ~p.redacted
                 /\ disk' = n /\ Current' = n /\ issued' = issued + 1
                 /\ Request(d, issued + 1)
         \/ Candidates(p) # {} /\ p.redacted
  BY <1>1, <1>4, <1>5, <1>6, AssignShows
<1>8. Candidates(p) = {} \/ ~p.redacted
  BY DEF Candidates
<1>9. CASE disk' = p /\ Current' = p /\ issued' = issued /\ tasks' = tasks
  <2>1. Follows
    BY <1>6, <1>7, <1>9, QuietsFollow, TasksStay, WireStays DEF Follows
  <2>2. CustodyInv'
    BY <1>7, <1>9, <2>1, WriteKeeps DEF HasAgent, Active, GraphInv, CustodyInv, TokensOK
  <2>3. stage = "waiting" /\ stage' = "waiting" /\ holder' = None /\ holder = None
        /\ payload = ~disk.redacted /\ payload' = ~p.redacted
    BY <1>9, StoryNow, StoryNext DEF StageOf, PayloadOf, HolderOf, Active
  <2>4. PromiseStep
    BY <2>3 DEF PromiseStep, Promise!Next, Promise!Receive, Promise!custodyVars, Object
  <2> QED
    BY <1>6, <1>7, <2>2, <2>4, QuietsFollow DEF Good, Lone
<1>10. ASSUME NEW d \in Candidates(p), ~p.redacted,
              LET n == Placed([p EXCEPT !.token = issued + 1], d)
              IN disk' = n /\ Current' = n /\ issued' = issued + 1 /\ Request(d, issued + 1)
       PROVE  Good
  <2>1. StageOf(disk) = "waiting" /\ ~p.delivered /\ d \in Device
    BY <1>10 DEF StageOf, Forgets, Candidates
  <2> QED
    BY <1>6, <1>7, <1>10, <2>1, SentGood
<1> QED
  BY <1>7, <1>8, <1>9, <1>10

LEMMA ReplayGood == ASSUME GraphInv, custody, Replay PROVE Good
<1>1. Restored(Current) \in Object /\ Restored(Current).attempt = Current.attempt
      /\ Restored(Current).token = Current.token /\ Restored(Current).state = Current.state
      /\ Restored(Current).agent = Current.agent
      /\ ~Restored(Current).redacted /\ ~Restored(Current).delivered
  BY CurrentIsStored DEF Restored, Object
<1>2. disk.state \in {"planned", "queued"} /\ disk.agent = None
  BY CurrentIsStored DEF Replay, GraphInv, CustodyInv, HasAgent, Waits
<1>3. Forgets(Restored(Current))
  BY <1>1, <1>2, CurrentIsStored DEF Forgets, Terminal
<1> QED
  BY <1>1, <1>2, <1>3, CurrentIsStored, PlacingGood DEF Replay

LEMMA CommitGood == ASSUME GraphInv, custody, Commit PROVE Good
<1>1. /\ Queued(Current) \in Object /\ Queued(Current).attempt = Current.attempt
      /\ Queued(Current).token = Current.token /\ Queued(Current).state = "queued"
      /\ Queued(Current).agent = Current.agent
      /\ Queued(Current).redacted = Current.redacted
      /\ Queued(Current).delivered = Current.delivered
  BY CurrentIsStored DEF Queued, Object, State
<1>2. disk.state = "planned" /\ disk.agent = None
  BY CurrentIsStored DEF Commit, GraphInv, CustodyInv, HasAgent, Waits
<1>3. Forgets(Queued(Current))
  BY <1>1, <1>2, CurrentIsStored DEF Forgets, Terminal, GraphInv, CustodyInv
<1> QED
  BY <1>1, <1>2, <1>3, CurrentIsStored, PlacingGood DEF Commit

LEMMA PollGood == ASSUME GraphInv, custody, Poll PROVE Good
BY StayQuiet, TasksStay, WireStays, LookGood DEF Poll, Look, nodeVars

(* The job ends.                                                           *)
LEMMA EndGood ==
  ASSUME GraphInv, custody, custody' = custody, NEW hs, Quiets(hs), issued' = issued,
         NEW h \in [Ref -> Object], NEW r \in Ref, NEW p \in Object,
         SaveAt(h, r, p, hs) \/ SaveAndEvict(h, r, p, hs),
         tasks' = tasks, wire' \subseteq wire,
         p.state \in Terminal, p.token = Current.token \/ p.token = disk.token,
         \/ p.state = "cancelled" /\ disk.state \in {"planned", "queued"} \cup Active
         \/ p.state = "failed" /\ disk.state \in Active
         \/ p.state = "finished" /\ disk.state \in Active /\ disk.redacted
  PROVE  Good
<1> DEFINE o == Stored(p)
<1>1. o = [p EXCEPT !.redacted = TRUE]
  BY DEF Stored
<1>2. o.state = p.state /\ o.redacted /\ o.token = p.token
  BY <1>1 DEF Object
<1>3. p.state # "absent" /\ disk.state # "absent" /\ p.state \notin Active /\ p.state \notin Waits
  BY DEF Terminal, Active, Waits
<1>4. o.token <= issued
  BY <1>2, CurrentIsStored DEF GraphInv, CustodyInv, TokensOK
<1> HIDE DEF o
<1>5. ASSUME stage = StageOf(disk), payload = PayloadOf(disk),
             stage' = StageOf(o), payload' = PayloadOf(o), holder' = HolderOf(o)
      PROVE  PromiseStep
  <2>1. stage' = p.state /\ payload' = FALSE /\ holder' = None
    BY <1>2, <1>3, <1>5 DEF StageOf, PayloadOf, HolderOf, Terminal
  <2>2. /\ disk.state \in {"planned", "queued"} => stage = "waiting"
        /\ disk.state \in Active => stage = "placed"
        /\ disk.redacted => ~payload
    BY <1>5 DEF StageOf, PayloadOf, Active
  <2>3. Promise!End(p.state)
    BY <2>1, <2>2 DEF Promise!End
  <2> QED
    BY <2>3 DEF PromiseStep, Promise!Next, Promise!Terminal, Terminal
<1>6. TasksFollow /\ OneTaskPerToken' /\ WireFollows
  BY TasksStay, WireStays
<1>7. Forgets(o) /\ HasAgent(o) /\ o.state \notin Active
  BY <1>2, <1>3 DEF Forgets, HasAgent
<1> QED
  BY <1>3, <1>4, <1>5, <1>6, <1>7, SaveGood DEF o

LEMMA CancelGood == ASSUME GraphInv, custody, Cancel PROVE Good
<1> DEFINE p == Cancelled(Current)
<1>1. p \in Object /\ p.state = "cancelled" /\ p.token = Current.token
  BY CurrentIsStored DEF Cancelled, Object, State, Terminal
<1>2. At \in Ref /\ Got \in [Ref -> Object]
  BY AtIsARef, GotKeeps DEF GraphInv, Sound
<1>3. disk.state \in {"planned", "queued"} \cup Active
  BY CurrentIsStored DEF Cancel, Object, State
<1>4. /\ SaveAndEvict(Got, At, p, handler) /\ tasks' = tasks /\ wire' = wire /\ issued' = issued
      /\ custody' = custody
  BY DEF Cancel, nodeVars
<1> HIDE DEF p
<1> QED
  BY <1>1, <1>2, <1>3, <1>4, StayQuiet, EndGood DEF Terminal

LEMMA OwnerGood == ASSUME GraphInv, custody, OwnerStep PROVE Good
BY ReplayGood, CommitGood, PollGood, CancelGood DEF OwnerStep, Retry

-----------------------------------------------------------------------------
(* Losses, under custody                                                   *)

(* The assignment is recalled, with or without its payload.                *)
LEMMA RecallGood ==
  ASSUME GraphInv, custody, custody' = custody, NEW hs, Quiets(hs), issued' = issued,
         tasks' = tasks, wire' = wire,
         NEW x \in {disk, Current}, disk.state \in Active, NEW r \in Ref,
         SaveAt(heap, r, Requeued(x), hs)
  PROVE  Good
<1> DEFINE p == Requeued(x)
<1>1. /\ p \in Object /\ p.state = "queued" /\ p.agent = None /\ p.token = x.token
      /\ p.redacted = disk.redacted /\ p.delivered = disk.delivered
  BY CurrentIsStored, GraphConstants DEF Requeued, Queued, Object, State
<1>2. p = Stored(p)
  BY <1>1 DEF Stored, Terminal
<1>3. x.token <= issued /\ Forgets(disk)
  BY CurrentIsStored DEF GraphInv, CustodyInv, TokensOK
<1>4. heap \in [Ref -> Object] /\ SaveAt(heap, r, p, hs)
  BY DEF GraphInv, BaseInv, Sound
<1> HIDE DEF p
<1>5. Forgets(p) /\ HasAgent(p) /\ p.state # "absent" /\ p.state \notin Active
      /\ disk.state # "absent"
  BY <1>1, <1>3 DEF Forgets, HasAgent, Terminal, Active
<1>6. ASSUME stage = StageOf(disk), payload = PayloadOf(disk),
             stage' = StageOf(p), payload' = PayloadOf(p), holder' = HolderOf(p)
      PROVE  PromiseStep
  <2>1. stage = "placed" /\ stage' = "waiting" /\ payload' = payload /\ holder' = None
    BY <1>1, <1>6 DEF StageOf, PayloadOf, HolderOf, Active
  <2> QED
    BY <2>1 DEF PromiseStep, Promise!Next, Promise!Recall
<1>7. TasksFollow /\ OneTaskPerToken' /\ WireFollows
  BY TasksStay, WireStays
<1> QED
  BY <1>1, <1>2, <1>3, <1>4, <1>5, <1>6, <1>7, SaveGood

LEMMA FailWorkGood ==
  ASSUME GraphInv, custody, custody' = custody, NEW d \in Device, NEW hs, Quiets(hs),
         FailWork(d, hs), issued' = issued, tasks' = tasks, wire' = wire
  PROVE  Good
<1>1. InProgress(d) => /\ cur \in Ref /\ heap[cur] = Current /\ Current.state \in Active
                       /\ disk.state \in Active
  BY CurrentIsStored DEF InProgress, Current, GraphInv, BaseInv
<1>2. heap \in [Ref -> Object]
  BY DEF GraphInv, BaseInv, Sound
<1>3. CASE ~InProgress(d) /\ disk' = disk /\ \E gs \in Collected(heap, cur, hs) : Memory(heap, cur, gs)
  BY <1>3, CollectedQuiet, TasksStay, WireStays, LookGood
<1>4. ASSUME InProgress(d),
             LET o == Requeued(heap[cur])
                 h == [heap EXCEPT ![cur] = o]
             IN /\ \E gs \in Collected(h, cur, hs) : Memory(h, cur, gs)
                /\ disk' = o
      PROVE  Good
  <2> DEFINE o == Requeued(Current)
             h == [heap EXCEPT ![cur] = o]
  <2>1. PICK gs \in Collected(h, cur, hs) : Memory(h, cur, gs) /\ disk' = o
    BY <1>1, <1>4
  <2>2. Quiets(gs)
    BY <2>1, CollectedQuiet
  <2>3. Stored(o) = o
    BY CurrentIsStored DEF Stored, Requeued, Queued, Object, Terminal
  <2>4. SaveAt(heap, cur, Requeued(Current), gs)
    BY <2>1, <2>3 DEF SaveAt
  <2> HIDE DEF o, h
  <2> QED
    BY <1>1, <1>4, <2>2, <2>4, RecallGood
<1>5. CASE InProgress(d) /\ SaveAndEvict(heap, cur, [heap[cur] EXCEPT !.state = "failed"], hs)
  <2> DEFINE p == [Current EXCEPT !.state = "failed"]
  <2>1. p \in Object /\ p.state = "failed" /\ p.token = Current.token
    BY CurrentIsStored DEF Object, State, Terminal
  <2>2. SaveAndEvict(heap, cur, p, hs)
    BY <1>1, <1>5
  <2> HIDE DEF p
  <2> QED
    BY <1>1, <1>2, <1>5, <2>1, <2>2, EndGood DEF Terminal
<1> QED
  BY <1>3, <1>4, <1>5 DEF FailWork

(* What tasks and messages do while Relay does nothing.                    *)
LEMMA RelayStays ==
  ASSUME GraphInv, custody, custody' = custody, UNCHANGED relayVars, TasksFollow, OneTaskPerToken',
         WireFollows
  PROVE  Good
<1>1. /\ heap' = heap /\ cur' = cur /\ disk' = disk /\ handler' = handler /\ issued' = issued
      /\ Current' = Current
  BY DEF relayVars, Current
<1>2. OnlyMap'
  BY <1>1 DEF OnlyMap, GraphInv, CustodyInv
<1>3. Follows
  BY <1>1, StayQuiet, QuietsFollow DEF Follows
<1>4. CustodyInv'
  BY <1>1, <1>2, <1>3, QuietKeeps
<1>5. PromiseStep
  BY <1>1, SameStory, CurrentIsStored
<1> QED
  BY <1>1, <1>4, <1>5 DEF Good, Lone


LEMMA DevicesGood ==
  ASSUME GraphInv, custody, NEW d \in Device, DeviceStep(d)
  PROVE  Good
<1>1. CASE Connect(d) \/ Close(d)
  BY <1>1, SocketGoneQuiet, FailWorkGood DEF Connect, Close
<1>2. CASE Stale(d)
  BY <1>2, StayQuiet, FailWorkGood DEF Stale, nodeVars
<1>3. CASE Available(d)
  BY <1>3, StayQuiet, CollectedQuiet, TasksStay, WireStays, LookGood DEF Available, nodeVars
<1>4. CASE Drop(d)
  <2>1. TasksFollow /\ OneTaskPerToken'
    BY <1>4 DEF Drop, TasksFollow, OneTaskPerToken, GraphInv, CustodyInv
  <2>2. wire' \subseteq wire
    BY <1>4 DEF Drop
  <2> QED
    BY <1>4, <2>1, <2>2, WireStays, RelayStays DEF Drop
<1> QED
  BY <1>1, <1>2, <1>3, <1>4 DEF DeviceStep

LEMMA ObjectsGood ==
  ASSUME GraphInv, custody, AssignQueuedWork \/ Hibernate \/ Restart
  PROVE  Good
<1>1. CASE AssignQueuedWork
  BY <1>1, StayQuiet, CollectedQuiet, TasksStay, WireStays, LookGood DEF AssignQueuedWork, nodeVars
<1>2. CASE Hibernate
  BY <1>2, StayQuiet, TasksStay, WireStays, ForgetGood DEF Hibernate, nodeVars
<1>3. CASE Restart
  <2> DEFINE hs == [s \in Slot |-> Idle]
  <2>1. Quiets(hs)
    BY IdleIsBare DEF Quiets, Bared, HandlersOK, Bare
  <2>2. TasksFollow /\ OneTaskPerToken'
    <3>1. tasks' = {[dev |-> t.dev, token |-> t.token, phase |-> t.phase, up |-> FALSE] : t \in tasks}
      BY <1>3 DEF Restart
    <3>2. TasksFollow
      BY <3>1 DEF TasksFollow
    <3>3. OneTaskPerToken'
      <4> SUFFICES ASSUME NEW u \in tasks', NEW v \in tasks', u.token = v.token PROVE u = v
        BY DEF OneTaskPerToken
      <4>1. PICK t \in tasks :
              u = [dev |-> t.dev, token |-> t.token, phase |-> t.phase, up |-> FALSE]
        BY <3>1
      <4>2. PICK w \in tasks :
              v = [dev |-> w.dev, token |-> w.token, phase |-> w.phase, up |-> FALSE]
        BY <3>1
      <4>3. t = w
        BY <4>1, <4>2 DEF OneTaskPerToken, GraphInv, CustodyInv
      <4> QED
        BY <4>1, <4>2, <4>3
    <3> QED
      BY <3>2, <3>3
  <2>4. WireFollows
    BY <1>3 DEF Restart, WireFollows
  <2>3. Memory(heap, 0, hs) /\ disk' = disk /\ issued' = issued /\ custody' = custody
    BY <1>3 DEF Restart
  <2> HIDE DEF hs
  <2> QED
    BY <2>1, <2>2, <2>3, <2>4, ForgetGood
<1> QED
  BY <1>1, <1>2, <1>3

-----------------------------------------------------------------------------
(* Handlers that go on, under custody                                      *)

LEMMA LoopGood == ASSUME GraphInv, custody, NEW s \in Slot, LoopPlaces(s) PROVE Good
<1>1. Quiets(Done(s)) /\ Bared(Done(s))
  BY DoneQuiet DEF Quiets
<1>2. custody' = custody /\ wire' = wire
  BY DEF LoopPlaces
<1>3. CASE Memory(heap, cur, Done(s)) /\ UNCHANGED <<disk, issued, reserved, tasks>>
  BY <1>1, <1>2, <1>3, TasksStay, WireStays, LookGood
<1>4. CASE cur # 0 /\ Assign(heap, cur, Done(s), cur, disk)
  <2>1. cur \in Ref /\ heap[cur] = Current
    BY <1>4 DEF GraphInv, BaseInv, Current
  <2>2. Sound(heap, Done(s), disk, issued)
    BY DoneMoved, MovedSound DEF LoopPlaces, GraphInv, BaseInv
  <2>3. disk.state # "absent" /\ Current.state = disk.state
    BY <1>4, CurrentIsStored DEF GraphInv, CustodyInv, OnlyMap
  <2>4. /\ OnlyMap' /\ handler' = Done(s)
        /\ \/ disk' = disk /\ Current' = Current /\ issued' = issued /\ tasks' = tasks
           \/ \E d \in Candidates(Current) :
                LET p == Placed([Current EXCEPT !.token = issued + 1], d)
                IN /\ ~Current.redacted
                   /\ disk' = p /\ Current' = p /\ issued' = issued + 1
                   /\ Request(d, issued + 1)
           \/ /\ disk' = disk /\ Current' = [Current EXCEPT !.token = issued + 1]
              /\ issued' = issued + 1 /\ tasks' = tasks
    BY <1>1, <1>4, <2>1, <2>2, <2>3, AssignShows
  <2>5. CASE disk' = disk /\ Current' = Current /\ issued' = issued /\ tasks' = tasks
    <3>1. Follows
      BY <1>1, <1>2, <2>4, <2>5, QuietsFollow, TasksStay, WireStays DEF Follows
    <3>2. CustodyInv' /\ PromiseStep
      BY <1>2, <2>4, <2>5, <3>1, QuietKeeps, SameStory, CurrentIsStored
    <3> QED
      BY <1>1, <2>4, <2>5, <3>2, QuietsFollow DEF Good, Lone
  <2>6. ASSUME NEW d \in Candidates(Current), ~Current.redacted,
               LET p == Placed([Current EXCEPT !.token = issued + 1], d)
               IN disk' = p /\ Current' = p /\ issued' = issued + 1 /\ Request(d, issued + 1)
        PROVE  Good
    <3>1. d \in Device /\ ~Current.delivered /\ PayloadOf(disk)
      BY <2>3, <2>6, CurrentIsStored DEF Candidates, GraphInv, CustodyInv, Forgets, PayloadOf
    <3>2. StageOf(disk) \in {"waiting", "placed"}
      BY <2>3, <2>6, CurrentIsStored
      DEF StageOf, GraphInv, CustodyInv, Forgets, Object, State
    <3> QED
      BY <1>1, <1>2, <2>4, <2>6, <3>1, <3>2, SentGood, CurrentIsStored
  <2>7. CASE /\ disk' = disk /\ Current' = [Current EXCEPT !.token = issued + 1]
             /\ issued' = issued + 1 /\ tasks' = tasks
    <3>1. Follows
      BY <1>1, <1>2, <2>4, <2>7, QuietsFollow, TasksStay, WireStays DEF Follows
    <3>2. /\ Current'.token = issued + 1
          /\ Current'.state = disk.state /\ Current'.agent = disk.agent
          /\ Current'.redacted = disk.redacted
      BY <2>7, CurrentIsStored DEF Object
    <3>3. CustodyInv' /\ PromiseStep
      BY <1>2, <2>4, <2>7, <3>1, <3>2, RedrawKeeps, SameStory
    <3> QED
      BY <1>1, <2>4, <2>7, <3>3, QuietsFollow DEF Good, Lone
  <2> QED
    BY <2>4, <2>5, <2>6, <2>7
<1> QED
  BY <1>3, <1>4 DEF LoopPlaces

(* Whoever a job names as its agent while it is not over is running it.    *)
LEMMA AgentIsActive ==
  ASSUME GraphInv, custody, Current.agent # None, Current.state \notin Terminal
  PROVE  disk.state \in Active
BY CurrentIsStored DEF GraphInv, CustodyInv, HasAgent, Waits, Object, State

(* A cancelled job's worker has settled.                                   *)
LEMMA SettledGood ==
  ASSUME GraphInv, custody, custody' = custody, NEW hs, Quiets(hs), issued' = issued,
         tasks' = tasks, wire' \subseteq wire, Current.state = "cancelled",
         Save([Current EXCEPT !.agent = None], hs)
  PROVE  Good
<1> DEFINE p == [Current EXCEPT !.agent = None]
<1>1. /\ p \in Object /\ p.state = "cancelled" /\ p.token = Current.token /\ disk.state = "cancelled"
      /\ p.redacted = disk.redacted
  BY CurrentIsStored DEF Object
<1>2. disk.redacted
  BY <1>1 DEF GraphInv, CustodyInv, Forgets, Terminal
<1>3. p = Stored(p)
  BY <1>1, <1>2 DEF Stored, Object
<1>4. At \in Ref /\ Got \in [Ref -> Object] /\ SaveAt(Got, At, p, hs)
  BY AtIsARef, GotKeeps DEF GraphInv, Sound, Save
<1> HIDE DEF p
<1>5. /\ p.state # "absent" /\ disk.state # "absent" /\ p.state \notin Active
      /\ Forgets(p) /\ HasAgent(p)
  BY <1>1, <1>2 DEF Forgets, HasAgent, Active, Waits
<1>6. p.token <= issued
  BY <1>1 DEF GraphInv, CustodyInv, TokensOK
<1>7. ASSUME stage = StageOf(disk), payload = PayloadOf(disk), holder = HolderOf(disk),
             stage' = StageOf(p), payload' = PayloadOf(p), holder' = HolderOf(p)
      PROVE  PromiseStep
  BY <1>1, <1>7 DEF StageOf, PayloadOf, HolderOf, Active, PromiseStep, Promise!custodyVars
<1>8. TasksFollow /\ OneTaskPerToken' /\ WireFollows
  BY TasksStay, WireStays
<1> QED
  BY <1>1, <1>3, <1>4, <1>5, <1>6, <1>7, <1>8, SaveGood

LEMMA SettleGood ==
  ASSUME GraphInv, custody, custody' = custody, NEW m, m.dev # None, NEW hs, Quiets(hs),
         Settle(m, hs), issued' = issued, tasks' = tasks, wire' \subseteq wire
  PROVE  Good
<1>1. CASE Look(hs)
  BY <1>1, TasksStay, WireStays, LookGood DEF Look
<1>2. CASE Current.state = "cancelled" /\ Save([Current EXCEPT !.agent = None], hs)
  BY <1>2, SettledGood
<1>3. CASE /\ Believed(m) /\ Current.state \notin Terminal
           /\ SaveAndEvict(Got, At, [Current EXCEPT !.state = "failed"], hs)
  <2> DEFINE p == [Current EXCEPT !.state = "failed"]
  <2>1. p \in Object /\ p.state = "failed" /\ p.token = Current.token
    BY CurrentIsStored DEF Object, State, Terminal
  <2>2. disk.state \in Active
    BY <1>3, AgentIsActive DEF Believed
  <2>3. At \in Ref /\ Got \in [Ref -> Object] /\ SaveAndEvict(Got, At, p, hs)
    BY <1>3, AtIsARef, GotKeeps DEF GraphInv, Sound
  <2> HIDE DEF p
  <2> QED
    BY <2>1, <2>2, <2>3, EndGood DEF Terminal
<1> QED
  BY <1>1, <1>2, <1>3 DEF Settle

LEMMA VerifiedGood == ASSUME GraphInv, custody, NEW s \in Slot, Verified(s) PROVE Good
<1>1. Quiets(Done(s)) /\ custody' = custody /\ issued' = issued /\ tasks' = tasks /\ wire' = wire
  BY DoneQuiet DEF Verified, nodeVars
<1>2. CASE Look(Done(s))
  BY <1>1, <1>2, TasksStay, WireStays, LookGood DEF Look
<1>3. CASE /\ Target(handler[s])
           /\ SaveAndEvict(Got, At, [Current EXCEPT !.state = "finished"], Done(s))
  <2> DEFINE p == [Current EXCEPT !.state = "finished"]
  <2>1. p \in Object /\ p.state = "finished" /\ p.token = Current.token
    BY CurrentIsStored DEF Object, State, Terminal
  <2>2. disk.state \in Active /\ disk.redacted
    BY <1>3, CurrentIsStored DEF Target, GraphInv, CustodyInv, Forgets
  <2>3. At \in Ref /\ Got \in [Ref -> Object] /\ SaveAndEvict(Got, At, p, Done(s))
    BY <1>3, AtIsARef, GotKeeps DEF GraphInv, Sound
  <2> HIDE DEF p
  <2> QED
    BY <1>1, <2>1, <2>2, <2>3, EndGood DEF Terminal
<1> QED
  BY <1>2, <1>3 DEF Verified

(* All handlers that go on but those that create.                          *)
LEMMA ResumesGood ==
  ASSUME GraphInv, custody, NEW s \in Slot, Resumes(s)
  PROVE  Good \/ Create(s)
<1>1. handler[s].op \in Bare /\ Quiets(Done(s))
  BY DoneQuiet DEF GraphInv, CustodyInv, OnlyMap
<1>2. ~(Upload(s) \/ CommitFindsMissing(s) \/ CommitGoesOn(s) \/ Dispatch(s) \/ Publish(s)
        \/ Manifest(s))
  BY <1>1 DEF Upload, CommitFindsMissing, CommitGoesOn, Dispatch, Publish, Manifest, Bare
<1>3. CASE ArtifactMissing(s)
  <2>1. handler[s].dev # None
    BY <1>3 DEF ArtifactMissing, GraphInv, CustodyInv, OnlyMap
  <2> QED
    BY <1>1, <1>3, <2>1, SettleGood DEF ArtifactMissing, nodeVars
<1>4. CASE SweepEnds(s)
  BY <1>1, <1>4, CollectedQuiet, TasksStay, WireStays, LookGood DEF SweepEnds, nodeVars
<1> QED
  BY <1>2, <1>3, <1>4, LoopGood, VerifiedGood DEF Resumes

LEMMA MaintainGood == ASSUME GraphInv, custody, NEW s \in Free, Maintain(s) PROVE Good
<1> DEFINE r == CHOOSE q \in Ref : q \notin Held(handler)
           hs == Suspend(s, Hold("sweep", 0))
<1>1. r \in Ref /\ heap \in [Ref -> Object] /\ s \in Slot
  BY SpareForLook DEF GraphInv, BaseInv, Sound, Free
<1>2. Quiets(hs)
  BY <1>1, SuspendQuiet
<1>3. disk.state \in Active /\ custody' = custody /\ issued' = issued /\ tasks' = tasks /\ wire' = wire
  BY DEF Maintain, nodeVars
<1>4. CASE SaveAt(heap, r, Requeued(disk), hs)
  <2> HIDE DEF hs, r
  <2> QED
    BY <1>1, <1>2, <1>3, <1>4, RecallGood
<1>5. CASE SaveAt(heap, r, [disk EXCEPT !.state = "failed", !.agent = None], hs)
  <2> DEFINE p == [disk EXCEPT !.state = "failed", !.agent = None]
  <2>1. p \in Object /\ p.state = "failed" /\ p.token = disk.token
    BY CurrentIsStored DEF Object, State, Terminal
  <2>2. SaveAt(heap, r, p, hs)
    BY <1>5
  <2> HIDE DEF hs, r, p
  <2> QED
    BY <1>1, <1>2, <1>3, <2>1, <2>2, EndGood DEF Terminal
<1> QED
  BY <1>4, <1>5 DEF Maintain

-----------------------------------------------------------------------------
(* Nodes, under custody                                                    *)

LEMMA GoesFollows ==
  ASSUME GraphInv, custody, NEW t \in tasks, NEW p, p # "fetch", Goes(t, p)
  PROVE  /\ TasksFollow /\ OneTaskPerToken'
         /\ \A u \in tasks' : u.token = t.token => u.phase # "fetch"
<1> DEFINE new == [dev |-> t.dev, token |-> t.token, up |-> t.up, phase |-> p]
<1>1. tasks' = (tasks \ {t}) \cup {new}
  BY DEF Goes
<1>2. new.token = t.token /\ new.dev = t.dev /\ new.phase = p
  OBVIOUS
<1> HIDE DEF new
<1>3. \A u \in tasks \ {t} : u.token # t.token
  BY DEF GraphInv, CustodyInv, OneTaskPerToken
<1>4. TasksFollow
  BY <1>1, <1>2 DEF TasksFollow
<1>5. OneTaskPerToken'
  BY <1>1, <1>2, <1>3 DEF GraphInv, CustodyInv, OneTaskPerToken
<1> QED
  BY <1>1, <1>2, <1>3, <1>4, <1>5

(* A node reports progress, or stores what it made.                        *)
LEMMA ReportGood ==
  ASSUME GraphInv, custody, custody' = custody, issued' = issued, tasks' = tasks, wire' = wire,
         disk.state \in Active, NEW p \in Object, p.state \in Active,
         p.token = Current.token, p.agent = disk.agent, p.redacted = disk.redacted,
         p.delivered = disk.delivered, Save(p, handler)
  PROVE  Good
<1>1. p = Stored(p)
  BY DEF Stored, Active, Terminal
<1>2. At \in Ref /\ Got \in [Ref -> Object] /\ SaveAt(Got, At, p, handler)
  BY AtIsARef, GotKeeps DEF GraphInv, Sound, Save
<1>3. p.state # "absent" /\ disk.state # "absent"
  BY DEF Active
<1>4. Forgets(p) /\ HasAgent(p) /\ p.token <= issued
  BY DEF GraphInv, CustodyInv, TokensOK, Forgets, HasAgent, Active, Terminal, Waits
<1>5. ASSUME stage = StageOf(disk), payload = PayloadOf(disk), holder = HolderOf(disk),
             stage' = StageOf(p), payload' = PayloadOf(p), holder' = HolderOf(p)
      PROVE  PromiseStep
  BY <1>3, <1>5 DEF StageOf, PayloadOf, HolderOf, Active, PromiseStep, Promise!custodyVars
<1>6. TasksFollow /\ OneTaskPerToken' /\ WireFollows /\ Quiets(handler)
  BY TasksStay, WireStays, StayQuiet
<1> QED
  BY <1>1, <1>2, <1>3, <1>4, <1>5, <1>6, SaveGood

LEMMA AcknowledgeGood ==
  ASSUME GraphInv, custody, NEW t \in tasks, Acknowledge(t)
  PROVE  Good
<1> DEFINE p == Acknowledged(Current)
<1>1. /\ p \in Object /\ p.state = disk.state /\ p.token = Current.token /\ p.agent = disk.agent
      /\ p.redacted /\ p.delivered
  BY CurrentIsStored DEF Acknowledged, Object
<1>2. disk.state \in Active /\ Current.token = t.token
  BY CurrentIsStored DEF Acknowledge, Assigned
<1>3. p = Stored(p)
  BY <1>1, <1>2 DEF Stored, Active, Terminal
<1>4. At \in Ref /\ Got \in [Ref -> Object] /\ SaveAt(Got, At, p, handler)
  BY AtIsARef, GotKeeps DEF GraphInv, Sound, Save, Acknowledge
<1>5. /\ TasksFollow /\ OneTaskPerToken'
      /\ \A u \in tasks' : u.token = t.token => u.phase # "fetch"
  BY GoesFollows DEF Acknowledge
<1>6. custody' = custody /\ issued' = issued /\ WireFollows /\ Quiets(handler)
  BY WireStays, StayQuiet DEF Acknowledge
<1> HIDE DEF p
<1>7. /\ disk.state # "absent" /\ p.state # "absent"
      /\ Forgets(p) /\ HasAgent(p) /\ p.token <= issued
  BY <1>1, <1>2 DEF GraphInv, CustodyInv, TokensOK, Forgets, HasAgent, Active, Waits
<1>8. ASSUME stage = StageOf(disk), payload = PayloadOf(disk), holder = HolderOf(disk),
             stage' = StageOf(p), payload' = PayloadOf(p), holder' = HolderOf(p)
      PROVE  PromiseStep
  <2>1. stage = "placed" /\ stage' = stage /\ holder' = holder /\ payload' = FALSE
    BY <1>1, <1>2, <1>8 DEF StageOf, PayloadOf, HolderOf, Active
  <2> QED
    BY <2>1 DEF PromiseStep, Promise!Next, Promise!Confirm
<1> QED
  BY <1>1, <1>2, <1>3, <1>4, <1>5, <1>6, <1>7, <1>8, SaveGood

LEMMA TasksGood ==
  ASSUME GraphInv, custody, NEW t \in tasks, TaskStep(t)
  PROVE  Good
<1>1. t \in Task
  BY DEF GraphInv, BaseInv, RestTypeOK
<1>2. CASE HandleEvent(t)
  <2> DEFINE p == [Current EXCEPT !.state = "running"]
  <2>1. /\ p \in Object /\ p.state = "running" /\ p.token = Current.token
        /\ p.agent = disk.agent /\ p.redacted = disk.redacted /\ p.delivered = disk.delivered
    BY CurrentIsStored DEF Object, State, Active
  <2>2. Current.agent # None /\ Current.state \notin Terminal
    BY <1>1, <1>2, GraphConstants DEF GraphConstants, HandleEvent, Believed, Task
  <2>3. disk.state \in Active
    BY <2>2, AgentIsActive
  <2>4. /\ Save(p, handler) /\ custody' = custody /\ issued' = issued /\ tasks' = tasks
        /\ wire' = wire
    BY <1>2 DEF HandleEvent, nodeVars
  <2> HIDE DEF p
  <2> QED
    BY <2>1, <2>3, <2>4, ReportGood DEF Active
<1>3. CASE Fetch(t)
  <2>1. TasksFollow /\ OneTaskPerToken'
    BY <1>3, GoesFollows DEF Fetch
  <2> QED
    BY <1>3, <2>1, StayQuiet, WireStays, LookGood DEF Fetch, Look
<1>4. CASE StoreUpload(t)
  <2>1. disk.state \in Active /\ Current.state \in Active
    BY <1>4, CurrentIsStored DEF StoreUpload, Assigned
  <2> QED
    BY <1>4, <2>1, CurrentIsStored, ReportGood DEF StoreUpload, nodeVars
<1>5. CASE TaskEnds(t)
  <2>1. tasks' \subseteq tasks
    BY <1>5 DEF TaskEnds
  <2>2. TasksFollow /\ OneTaskPerToken'
    BY <2>1 DEF TasksFollow, OneTaskPerToken, GraphInv, CustodyInv
  <2>3. \A b \in BOOLEAN : [dev |-> t.dev, token |-> t.token, ok |-> b].token = t.token
    OBVIOUS
  <2>4. \A m \in wire' : m \in wire \/ m.token = t.token
    BY <1>5, <2>3 DEF TaskEnds
  <2>5. WireFollows
    BY <2>4 DEF WireFollows, Known
  <2> QED
    BY <1>5, <2>2, <2>5, RelayStays DEF TaskEnds
<1> QED
  BY <1>2, <1>3, <1>4, <1>5, AcknowledgeGood DEF TaskStep

LEMMA HandleResultGood ==
  ASSUME GraphInv, custody, NEW m \in wire, NEW s \in Free, HandleResult(m, s)
  PROVE  Good
<1> DEFINE x == [op |-> "verify", ref |-> 0, dev |-> m.dev, token |-> m.token]
           hs == Suspend(s, x)
<1>1. /\ x \in Suspended /\ x.op = "verify" /\ x.ref = 0 /\ x.dev # None /\ x.token = m.token
      /\ s \in Slot
  BY GraphConstants DEF GraphConstants, GraphInv, BaseInv, RestTypeOK, Message, Suspended, Ops, Free
<1>2. Bared(hs) /\ hs[s] = x /\ \A q \in Slot \ {s} : hs[q] = handler[q]
  BY <1>1, StayQuiet DEF Quiets, Bared, HandlersOK, Suspend, Bare
<1>3. /\ custody' = custody /\ issued' = issued /\ tasks' = tasks /\ disk' = disk
      /\ wire' \subseteq wire /\ Memory(Got, Kept, hs) /\ Current.delivered
  BY DEF HandleResult, Look
<1>4. handler' = hs
  BY <1>3 DEF Memory
<1> HIDE DEF hs, x
<1>5. OnlyMap' /\ Current' = Current
  BY <1>2, <1>3, LookShows
<1>6. HandlersFollow
  <2> SUFFICES ASSUME NEW q \in Slot, handler'[q].op = "verify"
               PROVE  /\ Known(handler'[q].token)
                      /\ disk.state \in Active /\ handler'[q].token = disk.token => disk.delivered
    BY DEF HandlersFollow
  <2>1. CASE q = s
    BY <1>1, <1>2, <1>3, <1>4, <2>1, CurrentIsStored DEF Known
  <2>2. CASE q # s
    BY <1>2, <1>4, <2>2 DEF Known, GraphInv, CustodyInv, VerifiersOK
  <2> QED
    BY <2>1, <2>2
<1>7. Follows
  BY <1>3, <1>6, TasksStay, WireStays DEF Follows
<1>8. CustodyInv' /\ PromiseStep
  BY <1>3, <1>5, <1>7, QuietKeeps, SameStory, CurrentIsStored
<1>9. Lone
  BY <1>1, <1>2, <1>3, <1>4 DEF Lone
<1> QED
  BY <1>8, <1>9 DEF Good

LEMMA MessagesGood ==
  ASSUME GraphInv, custody,
         \/ \E t \in tasks, s \in Free : ManifestStarts(t, s)
         \/ \E m \in wire : HandleError(m)
         \/ \E m \in wire, s \in Free : HandleResult(m, s)
  PROVE  Good
<1>1. ASSUME NEW m \in wire, HandleError(m) PROVE Good
  <2>1. m.dev # None
    BY GraphConstants DEF GraphConstants, GraphInv, BaseInv, RestTypeOK, Message
  <2> QED
    BY <1>1, <2>1, StayQuiet, SettleGood DEF HandleError
<1> QED
  BY <1>1, HandleResultGood DEF ManifestStarts

-----------------------------------------------------------------------------
(* Submissions, under custody                                              *)

LEMMA CreateStartsKeeps ==
  ASSUME GraphInv, custody, NEW s \in Free, CreateStarts(s)
  PROVE  /\ CustodyInv' /\ PromiseStep
         /\ disk' = disk /\ disk.state = "absent"
         /\ \A q \in Slot \ {s} : handler'[q] = handler[q]
<1> DEFINE hs == Suspend(s, Hold("create", 0))
<1>1. /\ Hold("create", 0) \in Suspended /\ Hold("create", 0).op = "create"
      /\ Hold("create", 0).ref = 0
  BY HoldIsSuspended DEF Ops
<1>2. s \in Slot /\ Bared(hs) /\ hs[s].op = "create" /\ \A q \in Slot \ {s} : hs[q] = handler[q]
  BY <1>1, StayQuiet DEF Quiets, Bared, HandlersOK, Suspend, Bare, Free
<1>3. /\ custody' = custody /\ issued' = issued /\ tasks' = tasks /\ disk' = disk
      /\ wire' = wire /\ Memory(heap, cur, hs) /\ disk.state = "absent"
  BY CurrentIsStored DEF CreateStarts, nodeVars
<1>4. handler' = hs
  BY <1>3 DEF Memory
<1> HIDE DEF hs
<1>5. OnlyMap' /\ Current' = Current
  BY <1>2, <1>3, LookShows
<1>6. HandlersFollow
  <2>1. \A q \in Slot : hs[q].op = "verify" => hs[q] = handler[q]
    BY <1>2
  <2> QED
    BY <1>4, <2>1 DEF HandlersFollow, Known, GraphInv, CustodyInv, VerifiersOK
<1>7. Follows
  BY <1>3, <1>6, TasksStay, WireStays DEF Follows
<1>8. CustodyInv' /\ PromiseStep
  BY <1>3, <1>5, <1>7, QuietKeeps, SameStory, CurrentIsStored
<1> QED
  BY <1>2, <1>3, <1>4, <1>8

(* The second of two submissions that overlap starts the job again.        *)
LEMMA CreateKeepsCustody ==
  ASSUME GraphInv, custody, NEW s \in Slot, Create(s)
  PROVE  /\ CustodyInv'
         /\ disk.state = "absent" => PromiseStep
         /\ handler' = Done(s)
<1> DEFINE r == CHOOSE q \in Ref : q # cur /\ q \notin Held(handler)
           o == [Blank EXCEPT !.state = "planned"]
<1>1. r \in Ref
  BY SpareForCreate DEF Create, GraphInv, BaseInv, Sound, HandlersOK, Bare
<1>2. /\ o \in Object /\ o.state = "planned" /\ o.agent = None /\ o.token = 0
      /\ ~o.redacted /\ ~o.delivered
  BY BlankIsAnObject DEF Blank, Object, State
<1>3. Stored(o) = o
  BY <1>2 DEF Stored, Terminal
<1>4. heap \in [Ref -> Object] /\ SaveAt(heap, r, o, Done(s))
  BY DEF GraphInv, BaseInv, Sound, Create
<1>5. Quiets(Done(s)) /\ Bared(Done(s))
  BY DoneQuiet DEF Quiets
<1>6. custody' = custody /\ issued' = issued /\ tasks' = tasks /\ wire' = wire
  BY DEF Create, nodeVars
<1> HIDE DEF r, o
<1>7. OnlyMap' /\ disk' = o /\ Current' = o
  BY <1>1, <1>2, <1>3, <1>4, <1>5, SaveShows
<1>8. handler' = Done(s)
  BY <1>4 DEF SaveAt, Memory
<1>9. Follows
  BY <1>5, <1>6, <1>8, QuietsFollow, TasksStay, WireStays DEF Follows
<1>10. CustodyInv'
  BY <1>2, <1>6, <1>7, <1>9, CurrentIsStored, WriteKeeps
  DEF Forgets, HasAgent, Terminal, Active
<1>11. disk.state = "absent" => PromiseStep
  <2>1. stage' = "waiting" /\ payload' = TRUE /\ holder' = None
    BY <1>2, <1>6, <1>7, StoryNext DEF StageOf, PayloadOf, HolderOf, Active
  <2>2. disk.state = "absent" => stage = "absent"
    BY StoryNow DEF StageOf, Active
  <2> QED
    BY <2>1, <2>2 DEF PromiseStep, Promise!Next, Promise!Receive
<1> QED
  BY <1>8, <1>10, <1>11

-----------------------------------------------------------------------------
(* Every step, under custody                                               *)

LEMMA CustodyStays == Next => custody' = custody
BY DEF Next, OwnerStep, Replay, Commit, Poll, Cancel, Retry, AssignQueuedWork, Hibernate, Restart,
   Resumes, Create, Upload, CommitFindsMissing, CommitGoesOn, Dispatch, ArtifactMissing, Verified,
   Publish, Manifest, SweepEnds, LoopPlaces,
   Starts, CreateStarts, UploadStarts, CommitStarts, Maintain,
   TaskStep, HandleEvent, Fetch, Acknowledge, StoreUpload, TaskEnds,
   ManifestStarts, HandleError, HandleResult,
   DeviceStep, Connect, Drop, Close, Stale, Available

LEMMA StepGood ==
  ASSUME GraphInv, custody, Next
  PROVE  Good \/ (\E s \in Slot : Create(s)) \/ (\E s \in Free : CreateStarts(s))
<1>1. ASSUME NEW s \in Free, Starts(s) PROVE Good \/ CreateStarts(s)
  BY <1>1, MaintainGood DEF Starts, UploadStarts, CommitStarts
<1> QED
  BY <1>1, OwnerGood, ObjectsGood, ResumesGood, TasksGood, MessagesGood, DevicesGood DEF Next

LEMMA InitCustodyInv == Init => CustodyInv
<1> SUFFICES ASSUME Init, custody PROVE CustodyInv
  BY DEF CustodyInv
<1>1. OnlyMap
  BY IdleIsBare DEF Init, OnlyMap, Bare
<1>2. Current = Blank
  BY DEF Init, Current
<1>3. TokensOK
  <2>1. \A k : ~Known(k)
    BY IdleIsBare DEF Init, Known
  <2> QED
    BY <1>2, <2>1 DEF Init, TokensOK, Blank
<1> QED
  BY <1>1, <1>3
  DEF Init, CustodyInv, Forgets, HasAgent, OneTaskPerToken, HolderOK, VerifiersOK, Blank, Waits,
      Active, Terminal

LEMMA StepCustodyInv == GraphInv /\ [Next]_graphVars => CustodyInv'
<1> SUFFICES ASSUME GraphInv, [Next]_graphVars PROVE CustodyInv'
  OBVIOUS
<1>1. CASE UNCHANGED graphVars
  <2>1. UNCHANGED relayVars /\ custody' = custody /\ tasks' = tasks /\ wire' = wire
    BY <1>1 DEF graphVars, nodeVars
  <2>2. CASE custody
    BY <2>1, <2>2, TasksStay, WireStays, RelayStays DEF Good
  <2> QED
    BY <2>1, <2>2 DEF CustodyInv
<1>2. CASE Next /\ ~custody
  BY <1>2, CustodyStays DEF CustodyInv
<1>3. CASE Next /\ custody
  BY <1>3, StepGood, CreateKeepsCustody, CreateStartsKeeps DEF Good
<1> QED
  BY <1>1, <1>2, <1>3

LEMMA AlwaysGraphInv == Spec => []GraphInv
BY InitBaseInv, StepBaseInv, InitCustodyInv, StepCustodyInv, PTL DEF Spec, GraphInv

(* A job under custody, whatever submissions, retries, losses and late     *)
(* messages overlap: only its agent knows the token of an assignment under *)
(* way, and finds the bundle until it has confirmed it; and no object keeps *)
(* the payload of a job that was confirmed or is over.                     *)
THEOREM CustodyKept == Spec => [](TokenNamesHolder /\ PayloadForgotten /\ Deliverable)
<1>1. GraphInv => TokenNamesHolder /\ PayloadForgotten /\ Deliverable
  <2> SUFFICES ASSUME GraphInv, custody PROVE TokenNamesHolder /\ PayloadForgotten /\ Deliverable
    BY DEF TokenNamesHolder, PayloadForgotten, Deliverable
  <2>1. ASSUME Current.state \in Active, NEW t \in tasks, t.token = Current.token
        PROVE  t.dev = Current.agent /\ (t.phase = "fetch" => ~Current.redacted)
    <3>1. Known(t.token)
      BY DEF Known
    <3>2. Current.token = disk.token
      BY <2>1, <3>1 DEF GraphInv, CustodyInv, TokensOK
    <3> QED
      BY <2>1, <3>2, CurrentIsStored DEF GraphInv, CustodyInv, HolderOK
  <2>2. \A r \in Ref : heap[r] = Blank \/ heap[r] = Current
    <3>1. \A r \in Ref : r = cur => cur # 0
      BY DEF Ref
    <3> QED
      BY <3>1 DEF GraphInv, CustodyInv, OnlyMap, Current
  <2>3. Forgets(Blank) /\ Forgets(Current) /\ Forgets(disk)
    BY CurrentIsStored DEF Forgets, Blank, Terminal, GraphInv, CustodyInv
  <2>4. PayloadForgotten
    BY <2>2, <2>3 DEF PayloadForgotten, Forgets
  <2> QED
    BY <2>1, <2>4 DEF TokenNamesHolder, Deliverable
<1> QED
  BY <1>1, AlwaysGraphInv, PTL

-----------------------------------------------------------------------------
(***************************************************************************)
(* The promise.  Two submissions of one job that overlap both find none,   *)
(* and the later one starts a job again that the first may have got         *)
(* placed: the promise is kept when they do not overlap.                   *)
(***************************************************************************)

LoneCreate ==
  custody =>
    \A s \in Slot : handler[s].op = "create" =>
      disk.state = "absent" /\ \A u \in Slot : handler[u].op = "create" => u = s

LEMMA StepKeepsPromise ==
  ASSUME MaxCreates = 1
  PROVE  GraphInv /\ LoneCreate /\ [Next]_graphVars => LoneCreate' /\ PromiseStep
<1> SUFFICES ASSUME GraphInv, LoneCreate, [Next]_graphVars PROVE LoneCreate' /\ PromiseStep
  OBVIOUS
<1>1. CASE Good /\ custody /\ custody' = custody
  BY <1>1 DEF Good, Lone, LoneCreate
<1>2. CASE ~custody /\ ~custody'
  BY <1>2 DEF LoneCreate, PromiseStep, Promise!custodyVars, stage, payload, holder
<1>3. CASE UNCHANGED graphVars
  <2>1. UNCHANGED relayVars /\ custody' = custody /\ tasks' = tasks /\ wire' = wire
    BY <1>3 DEF graphVars, nodeVars
  <2> QED
    BY <1>1, <1>2, <2>1, TasksStay, WireStays, RelayStays DEF GraphInv, BaseInv, RestTypeOK
<1>4. ASSUME custody, custody' = custody, NEW s \in Slot, Create(s)
      PROVE  LoneCreate' /\ PromiseStep
  <2>1. disk.state = "absent" /\ \A u \in Slot : handler[u].op = "create" => u = s
    BY <1>4 DEF LoneCreate, Create
  <2>2. PromiseStep /\ handler' = Done(s)
    BY <1>4, <2>1, CreateKeepsCustody
  <2>3. \A u \in Slot : handler'[u].op # "create"
    BY <2>1, <2>2, IdleIsBare DEF Done, GraphInv, BaseInv, Sound
  <2> QED
    BY <2>2, <2>3 DEF LoneCreate
<1>5. ASSUME custody, custody' = custody, NEW s \in Free, CreateStarts(s)
      PROVE  LoneCreate' /\ PromiseStep
  <2> DEFINE Creating == {t \in Slot : handler[t].op = "create"}
  <2>1. Cardinality(Creating) < 1
    BY <1>5 DEF CreateStarts
  <2>2. IsFiniteSet(Creating)
    BY GraphConstants, FS_Subset DEF GraphConstants
  <2> HIDE DEF Creating
  <2>3. Creating = {}
    BY <2>1, <2>2, FS_CardinalityType, FS_EmptySet
  <2>4. /\ PromiseStep /\ disk' = disk /\ disk.state = "absent"
        /\ \A q \in Slot \ {s} : handler'[q] = handler[q]
    BY <1>5, CreateStartsKeeps
  <2>5. \A u \in Slot : handler[u].op # "create"
    BY <2>3 DEF Creating
  <2> QED
    BY <2>4, <2>5 DEF LoneCreate
<1> QED
  BY <1>1, <1>2, <1>3, <1>4, <1>5, StepGood, CustodyStays DEF GraphInv, BaseInv, RestTypeOK

(* docs/local-custody.md: whatever is lost, delayed or forgotten, terminal *)
(* jobs stay terminal, work is placed only with its payload and finishes   *)
(* only after a confirmed delivery, and a payload that is gone comes back  *)
(* only with a resubmission; if first submissions of one job do not        *)
(* overlap.                                                                *)
THEOREM CustodyImplementsPromise ==
  ASSUME MaxCreates = 1
  PROVE  Spec => ImplementsCustodiedWork
<1>1. Init => LoneCreate
  BY IdleIsBare DEF Init, LoneCreate
<1>2. Init => Promise!Init
  BY DEF Init, Promise!Init, stage, payload, holder, Current, Blank, Active
<1>3. GraphInv /\ LoneCreate /\ [Next]_graphVars => LoneCreate' /\ PromiseStep
  BY StepKeepsPromise
<1> QED
  BY <1>1, <1>2, <1>3, AlwaysGraphInv, PTL
  DEF Spec, ImplementsCustodiedWork, Promise!Spec, PromiseStep
=============================================================================
