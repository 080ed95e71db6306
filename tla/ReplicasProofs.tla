--------------------------- MODULE ReplicasProofs --------------------------
(***************************************************************************)
(* Theorems about a group of engines, for any number of them, any hosts    *)
(* and any wall clocks: the replication layer inside is that of OpLog, the *)
(* views keep their shape, engines that know the same operations show the  *)
(* same nodes and weights, and all together implement Knowledge.           *)
(***************************************************************************)
EXTENDS Replicas, ForestProofs

LP == INSTANCE OpLogProofs

-----------------------------------------------------------------------------
\* The replication layer inside Replicas and the one OpLogProofs is about are
\* one and the same.

\* Timestamps.
LEMMA SameClocks ==
  /\ L!HlcZero = LP!HlcZero /\ L!HlcZero = HlcZero
  /\ L!Hlc = Hlc /\ LP!Hlc = Hlc
  /\ \A x, y : L!Larger(x, y) = LP!Larger(x, y)
  /\ \A x, y : L!HlcLT(x, y) = LP!HlcLT(x, y)
  /\ \A x, y : L!Tick(x, y) = LP!Tick(x, y)
  /\ \A x, y, z : L!Observe(x, y, z) = LP!Observe(x, y, z)
BY DEF L!HlcZero, LP!HlcZero, HlcZero, L!Hlc, LP!Hlc, Hlc, L!Larger, LP!Larger,
       L!HlcLT, LP!HlcLT, L!Tick, LP!Tick, L!Observe, LP!Observe

\* Types and the initial state.
LEMMA SameState ==
  /\ LP!Tag = Tag /\ LP!StampedOp = StampedOp
  /\ L!TypeOK <=> LP!TypeOK
  /\ L!Init <=> LP!Init
  /\ \A n : L!Room(n) <=> LP!Room(n)
BY SameClocks DEF L!Tag, LP!Tag, Tag, L!StampedOp, LP!StampedOp, StampedOp, L!Batch, LP!Batch,
   L!TypeOK, LP!TypeOK, L!Init, LP!Init, L!Room, LP!Room, L!Cardinality, LP!Cardinality,
   L!IsFiniteSet, LP!IsFiniteSet

\* Forest::apply and a local mutation.
LEMMA SameMint ==
  ASSUME NEW r, NEW op
  PROVE  L!Mint(r, op) <=> LP!Mint(r, op)
<1>1. \A x, y, z, w : L!Apply(x, y, z, w) <=> LP!Apply(x, y, z, w)
  BY SameClocks DEF L!Apply, LP!Apply
<1>2. L!Room(1) <=> LP!Room(1)
  BY SameState
<1>3. \A x, y : L!Tick(x, y) = LP!Tick(x, y)
  BY SameClocks
<1> QED
  BY <1>1, <1>2, <1>3, Zenon DEF L!Mint, LP!Mint, L!Idle, LP!Idle

\* The calls that ship logs.
LEMMA SameCalls ==
  ASSUME NEW a, NEW b
  PROVE  /\ L!SyncSince(a, b, HlcZero) <=> LP!SyncSince(a, b, LP!HlcZero)
         /\ L!Merge(a, b) <=> LP!Merge(a, b)
         /\ \A i : L!ApplyOne(a, b, i) <=> LP!ApplyOne(a, b, i)
<1>1. /\ L!HlcZero = LP!HlcZero /\ L!HlcZero = HlcZero
      /\ \A x, y : L!HlcLT(x, y) = LP!HlcLT(x, y)
  BY SameClocks
<1>2. \A l, h : L!Since(l, h) = LP!Since(l, h)
  BY <1>1 DEF L!Since, LP!Since
<1>3. \A x, y, h, n : L!Export(x, y, h, n) = LP!Export(x, y, h, n)
  BY <1>2 DEF L!Export, LP!Export
<1>4. \A batches : L!Start(batches) <=> LP!Start(batches)
  BY DEF L!Start, LP!Start, L!Idle, LP!Idle
<1> QED
  BY <1>1, <1>3, <1>4 DEF L!SyncSince, LP!SyncSince, L!Merge, LP!Merge, L!ApplyOne, LP!ApplyOne

\* The steps of an import.
LEMMA SameImport == L!Import <=> LP!Import
<1>1. \A x, y, z, w : L!Apply(x, y, z, w) <=> LP!Apply(x, y, z, w)
  BY SameClocks DEF L!Apply, LP!Apply
<1>2. \A b : L!NextPending(b) = LP!NextPending(b)
  BY DEF L!NextPending, LP!NextPending
<1> QED
  BY <1>1, <1>2 DEF L!Import, LP!Import, L!ImportNext, LP!ImportNext, L!ImportReturns, LP!ImportReturns

-----------------------------------------------------------------------------
\* What a step does to logs and views.

\* A running decay_all belongs to a replica.
DecayShape ==
  /\ decaying \in [at : Replica \cup {None}, amount : Nat, keys : SUBSET EdgeKey]
  /\ decaying # NoDecay => decaying.at \in Replica

\* The variables that are not OpLog's keep their shape.
Shape ==
  /\ view \in [Replica -> View]
  /\ next_local_id \in [Replica -> Nat]
  /\ DecayShape

\* Nothing is applied.
Quiet == UNCHANGED <<applied_tags, log, view, next_local_id>>

\* Replica r applies s, which is new to it.
Applied(r, s) ==
  /\ s \in StampedOp /\ s.tag \notin applied_tags[r]
  /\ applied_tags' = [applied_tags EXCEPT ![r] = @ \cup {s.tag}]
  /\ log' = [log EXCEPT ![r] = Append(@, s)]
  /\ view' = [view EXCEPT ![r] = Materialize(@, s)]

\* It made s itself, as the mutation API does.
Local(r, s) ==
  /\ s.tag.replica = r
  /\ \/ /\ s.op.type = "AddNode" /\ s.op.id = <<r, next_local_id[r]>>
        /\ next_local_id' = [next_local_id EXCEPT ![r] = @ + 1]
     \/ /\ s.op.type \in {"RemoveNode", "SetEmbedding"}
        /\ view[r].nodes.adds[s.op.id] # {}
        /\ UNCHANGED next_local_id
     \/ /\ s.op.type \in {"AddEdge", "RemoveEdge", "Reinforce", "Decay"}
        /\ s.op.type \in {"Reinforce", "Decay"} => s.op.replica = r
        /\ UNCHANGED next_local_id

\* It took s from a log; as long as whole logs are shipped, it has what is
\* before s there.
Remote(r, s) ==
  /\ UNCHANGED next_local_id
  /\ \E q \in Replica : \E i \in 1..Len(log[q]) :
       /\ s = log[q][i]
       /\ LP!PrefixInv => \A h \in 1..(i - 1) : log[q][h].tag \in applied_tags[r]

\* Forest::apply with the match it runs.
LEMMA ApplyIs ==
  ASSUME LP!TypeOK, view \in [Replica -> View], NEW r \in Replica, NEW s \in StampedOp,
         NEW last, NEW now, LP!Apply(r, last, s, now), Materialized
  PROVE  \/ Applied(r, s)
         \/ UNCHANGED <<applied_tags, log, view>>
<1>1. /\ applied_tags \in [Replica -> SUBSET Tag]
      /\ log \in [Replica -> Seq(StampedOp)]
  BY SameState DEF LP!TypeOK
<1>2. CASE s.tag \in applied_tags[r]
  <2>1. applied_tags' = applied_tags /\ log' = log
    BY <1>2 DEF LP!Apply
  <2>2. \A q \in Replica : ~ (Len(log[q]) > Len(log[q]))
    BY <1>1
  <2>3. view' = view
    BY <2>1, <2>2 DEF Materialized
  <2> QED
    BY <2>1, <2>3
<1>3. CASE s.tag \notin applied_tags[r]
  <2>1. /\ applied_tags' = [applied_tags EXCEPT ![r] = @ \cup {s.tag}]
        /\ log' = [log EXCEPT ![r] = Append(@, s)]
    BY <1>3 DEF LP!Apply
  <2>2. log[r] \in Seq(StampedOp) /\ Len(log[r]) \in Nat
    BY <1>1
  <2>3. /\ log'[r] = Append(log[r], s)
        /\ Len(log'[r]) = Len(log[r]) + 1
        /\ log'[r][Len(log'[r])] = s
    BY <1>1, <2>1, <2>2
  <2>4. \A q \in Replica \ {r} : log'[q] = log[q] /\ Len(log[q]) \in Nat
    BY <1>1, <2>1
  <2>5. \A q \in Replica : view'[q] = IF q = r THEN Materialize(view[q], s) ELSE view[q]
    BY <2>2, <2>3, <2>4 DEF Materialized
  <2>6. view' = [view EXCEPT ![r] = Materialize(@, s)]
    BY <2>5 DEF Materialized
  <2> QED
    BY <1>3, <2>1, <2>6 DEF Applied
<1> QED
  BY <1>2, <1>3

\* A local mutation is applied under a tag of its own.
LEMMA DoApplies ==
  ASSUME LP!IInv, view \in [Replica -> View], NEW r \in Replica, NEW op \in Operation, Do(r, op)
  PROVE  \E s : Applied(r, s) /\ s.tag.replica = r /\ s.op = op
<1>1. LP!Mint(r, op) /\ Materialized
  BY SameMint DEF Do
<1>2. LP!TypeOK
  BY DEF LP!IInv
<1>3. PICK ticked \in WallClock, observed \in WallClock :
        LP!Apply(r, LP!Tick(clock[r], ticked),
                 [tag |-> [replica |-> r, hlc |-> LP!Tick(clock[r], ticked)], op |-> op], observed)
  BY <1>1 DEF LP!Mint
<1> DEFINE t == LP!Tick(clock[r], ticked)
           s == [tag |-> [replica |-> r, hlc |-> t], op |-> op]
<1>4. t \in Hlc
  <2>1. clock[r] \in LP!Hlc /\ ticked \in Nat
    BY <1>2, WallClockAssumption DEF LP!TypeOK
  <2> QED
    BY <2>1, LP!TickAdvances, ReplicaAssumption, WallClockAssumption, SameClocks
<1>5. LP!Apply(r, t, s, observed)
  BY <1>3
<1> HIDE DEF t
<1>6. s \in StampedOp /\ s.tag.replica = r /\ s.op = op
  BY <1>4 DEF StampedOp, Tag
<1>7. Len(log'[r]) = Len(log[r]) + 1
  BY <1>1, LP!MintAppends, ReplicaAssumption, WallClockAssumption
<1>8. Len(log[r]) \in Nat
  <2>1. log[r] \in Seq(StampedOp)
    BY <1>2, SameState DEF LP!TypeOK
  <2> QED
    BY <2>1
<1> HIDE DEF s
<1>9. log' # log
  BY <1>7, <1>8
<1> QED
  BY <1>1, <1>2, <1>5, <1>6, <1>9, ApplyIs

\* An import applies operations of other logs.
LEMMA ImportApplies ==
  ASSUME LP!IInv, view \in [Replica -> View], Import
  PROVE  \/ UNCHANGED <<applied_tags, log, view>>
         \/ \E r \in Replica : \E s : Applied(r, s) /\ Remote(r, s)
<1>1. LP!TypeOK /\ Materialized /\ UNCHANGED next_local_id
  BY DEF LP!IInv, Import
<1>2. applied_tags \in [Replica -> SUBSET Tag] /\ log \in [Replica -> Seq(StampedOp)]
  BY <1>1, SameState DEF LP!TypeOK
<1>3. LP!ImportNext \/ LP!ImportReturns
  BY SameImport DEF Import, LP!Import
<1>4. CASE LP!ImportReturns
  <2>1. applied_tags' = applied_tags /\ log' = log
    BY <1>4 DEF LP!ImportReturns
  <2>2. \A q \in Replica : ~ (Len(log[q]) > Len(log[q]))
    BY <1>2
  <2>3. view' = view
    BY <1>1, <2>1, <2>2 DEF Materialized
  <2> QED
    BY <2>1, <2>3
<1>5. CASE LP!ImportNext
  <2> DEFINE b == todo[1]
             i == LP!NextPending(b)
             s == log[b.from][i]
  <2>1. /\ 1 \in 1..Len(todo) /\ b \in LP!Batch
        /\ b.pending \subseteq 1..Len(log[b.from])
        /\ i \in b.pending /\ \A j \in b.pending : i <= j
        /\ s \in LP!StampedOp
        /\ \E now \in WallClock : LP!Apply(b.to, clock[b.to], s, now)
    BY <1>5, LP!ImportNextEffect, ReplicaAssumption, WallClockAssumption
  <2>2. b.to \in Replica /\ b.from \in Replica /\ b.upto \in Nat /\ s \in StampedOp
    BY <2>1, SameState DEF LP!Batch
  <2>3. i \in 1..Len(log[b.from]) /\ Len(log[b.from]) \in Nat
    BY <1>2, <2>1, <2>2
  <2>4. ASSUME LP!PrefixInv, NEW h \in 1..(i - 1)
        PROVE  log[b.from][h].tag \in applied_tags[b.to]
    <3>1. b.pending \subseteq 1..b.upto
      BY <2>1, <2>4 DEF LP!PrefixInv, LP!WholePrefixes
    <3>2. h \in 1..b.upto /\ h \notin b.pending
      BY <2>1, <2>2, <2>3, <3>1
    <3> QED
      BY <2>1, <2>4, <3>2 DEF LP!PrefixInv, LP!ImportCovers
  <2>5. s = log[b.from][i]
    OBVIOUS
  <2> HIDE DEF i, s
  <2>6. Remote(b.to, s)
    BY <1>1, <2>2, <2>3, <2>4, <2>5 DEF Remote
  <2> HIDE DEF b
  <2>7. Applied(b.to, s) \/ UNCHANGED <<applied_tags, log, view>>
    BY <1>1, <2>1, <2>2, ApplyIs
  <2> QED
    BY <2>2, <2>6, <2>7
<1> QED
  BY <1>3, <1>4, <1>5

\* The mutation API mints operations of the right kind.
LEMMA MutateApplies ==
  ASSUME LP!IInv, Shape, NEW r \in Replica, Mutate(r)
  PROVE  \/ Quiet /\ UNCHANGED <<clock, todo>>
         \/ \E q \in Replica : \E op \in Operation : \E s :
              /\ LP!Mint(q, op) /\ Applied(q, s) /\ Local(q, s)
<1> USE DEF Shape, DecayShape
<1>1. ASSUME NEW q \in Replica, NEW op \in Operation, Do(q, op),
             \A s : s.tag.replica = q /\ s.op = op => Local(q, s)
      PROVE  \E p \in Replica : \E o \in Operation : \E s :
               LP!Mint(p, o) /\ Applied(p, s) /\ Local(p, s)
  BY <1>1, DoApplies, SameMint DEF Do
<1>2. CASE AddNode(r)
  <2>1. PICK label \in Label :
          Do(r, [type |-> "AddNode", id |-> <<r, next_local_id[r]>>,
                 payload |-> [label |-> label, embedding |-> None]])
    BY <1>2 DEF AddNode
  <2> DEFINE op == [type |-> "AddNode", id |-> <<r, next_local_id[r]>>,
                    payload |-> [label |-> label, embedding |-> None]]
  <2>2. op \in Operation
    BY <1>2 DEF AddNode, Operation, NodeId, Payload
  <2>3. \A s : s.tag.replica = r /\ s.op = op => Local(r, s)
    BY <1>2 DEF AddNode, Local
  <2>4. Do(r, op)
    BY <2>1
  <2> HIDE DEF op
  <2> QED
    BY <1>1, <2>2, <2>3, <2>4
<1>3. CASE RemoveNode(r)
  <2>1. PICK id \in IdsAt(r) : Do(r, [type |-> "RemoveNode", id |-> id])
    BY <1>3 DEF RemoveNode
  <2> DEFINE op == [type |-> "RemoveNode", id |-> id]
  <2>2. op \in Operation
    BY DEF IdsAt, Operation
  <2>3. \A s : s.tag.replica = r /\ s.op = op => Local(r, s)
    BY <1>3 DEF RemoveNode, IdsAt, Local
  <2>4. Do(r, op)
    BY <2>1
  <2> HIDE DEF op
  <2> QED
    BY <1>1, <2>2, <2>3, <2>4
<1>4. CASE SetEmbedding(r)
  <2>1. PICK id \in IdsAt(r), e \in Embedding :
          Do(r, [type |-> "SetEmbedding", id |-> id, embedding |-> e])
    BY <1>4 DEF SetEmbedding
  <2> DEFINE op == [type |-> "SetEmbedding", id |-> id, embedding |-> e]
  <2>2. op \in Operation
    BY DEF IdsAt, Operation
  <2>3. \A s : s.tag.replica = r /\ s.op = op => Local(r, s)
    BY <1>4 DEF SetEmbedding, IdsAt, Local
  <2>4. Do(r, op)
    BY <2>1
  <2> HIDE DEF op
  <2> QED
    BY <1>1, <2>2, <2>3, <2>4
<1>5. CASE AddEdge(r)
  <2>1. PICK k \in EdgeKey, w \in Weight :
          Do(r, [type |-> "AddEdge", key |-> k, initial_weight |-> w])
    BY <1>5 DEF AddEdge
  <2> DEFINE op == [type |-> "AddEdge", key |-> k, initial_weight |-> w]
  <2>2. op \in Operation
    BY DEF Operation
  <2>3. \A s : s.tag.replica = r /\ s.op = op => Local(r, s)
    BY <1>5 DEF AddEdge, Local
  <2>4. Do(r, op)
    BY <2>1
  <2> HIDE DEF op
  <2> QED
    BY <1>1, <2>2, <2>3, <2>4
<1>6. CASE RemoveEdge(r)
  <2>1. PICK k \in KeysAt(r) : Do(r, [type |-> "RemoveEdge", key |-> k])
    BY <1>6 DEF RemoveEdge
  <2> DEFINE op == [type |-> "RemoveEdge", key |-> k]
  <2>2. op \in Operation
    BY DEF KeysAt, Operation
  <2>3. \A s : s.tag.replica = r /\ s.op = op => Local(r, s)
    BY <1>6 DEF RemoveEdge, Local
  <2>4. Do(r, op)
    BY <2>1
  <2> HIDE DEF op
  <2> QED
    BY <1>1, <2>2, <2>3, <2>4
<1>7. ASSUME NEW q \in Replica, NEW k \in EdgeKey, NEW n \in Nat, UNCHANGED next_local_id,
             Reinforce(q, k, n) \/ Decay(q, k, n)
      PROVE  \E p \in Replica : \E o \in Operation : \E s :
               LP!Mint(p, o) /\ Applied(p, s) /\ Local(p, s)
  <2>1. PICK type \in {"Reinforce", "Decay"} :
          Do(q, [type |-> type, key |-> k, replica |-> q, amount |-> n])
    BY <1>7 DEF Reinforce, Decay
  <2> DEFINE op == [type |-> type, key |-> k, replica |-> q, amount |-> n]
  <2>2. op \in Operation
    BY DEF Operation
  <2>3. \A s : s.tag.replica = q /\ s.op = op => Local(q, s)
    BY <1>7 DEF Local
  <2>4. Do(q, op)
    BY <2>1
  <2> HIDE DEF op
  <2> QED
    BY <1>1, <2>2, <2>3, <2>4
<1>8. CASE ReportEvent(r)
  <2>1. PICK k \in EdgeKey, event \in Event :
          IF Magnitude[event] > 0 THEN Reinforce(r, k, Magnitude[event])
          ELSE Decay(r, k, -Magnitude[event])
    BY <1>8 DEF ReportEvent
  <2>2. Magnitude[event] \in Int
    BY EventAssumption DEF Magnitude
  <2>3. UNCHANGED next_local_id
    BY <1>8 DEF ReportEvent
  <2> QED
    BY <1>7, <2>1, <2>2, <2>3
<1>9. CASE DecayAll(r)
  BY <1>9 DEF DecayAll, Quiet
<1>10. CASE DecayNext
  <2>1. decaying # NoDecay /\ UNCHANGED next_local_id
    BY <1>10 DEF DecayNext, Free
  <2>2. PICK k \in decaying.keys : Decay(decaying.at, k, decaying.amount)
    BY <1>10 DEF DecayNext
  <2> QED
    BY <1>7, <2>1, <2>2
<1> QED
  BY <1>2, <1>3, <1>4, <1>5, <1>6, <1>8, <1>9, <1>10 DEF Mutate

\* Every step applies at most one operation, made here or taken from a log.
LEMMA StepApplies ==
  ASSUME LP!IInv, Shape, [Next \/ ApplyOne]_vars
  PROVE  \/ Quiet
         \/ \E r \in Replica : \E s : Applied(r, s) /\ (Local(r, s) \/ Remote(r, s))
<1>1. CASE \E r \in Replica : Mutate(r)
  BY <1>1, MutateApplies
<1>2. CASE Sync
  BY <1>2 DEF Sync, L!SyncSince, L!Merge, L!Start, Quiet
<1>3. CASE ApplyOne
  BY <1>3 DEF ApplyOne, L!ApplyOne, L!Start, Quiet
<1>4. CASE Import
  <2>1. UNCHANGED next_local_id
    BY <1>4 DEF Import
  <2> QED
    BY <1>4, <2>1, ImportApplies DEF Shape, Quiet
<1>5. CASE UNCHANGED vars
  BY <1>5 DEF vars, Quiet
<1> QED
  BY <1>1, <1>2, <1>3, <1>4, <1>5 DEF Next

\* Every step of the engines is a step of the replication layer.
LEMMA StepRefines ==
  ASSUME LP!IInv, Shape
  PROVE  /\ [Next]_vars => [LP!Next]_LP!vars
         /\ ApplyOne => LP!AnyOrderNext
<1>1. ASSUME NEW r \in Replica, Mutate(r)
      PROVE  [LP!Next]_LP!vars
  <2>1. CASE Quiet /\ UNCHANGED <<clock, todo>>
    BY <2>1 DEF Quiet, LP!vars
  <2>2. CASE \E q \in Replica : \E op \in Operation : LP!Mint(q, op)
    BY <2>2 DEF LP!Next
  <2> QED
    BY <1>1, <2>1, <2>2, MutateApplies
<1>2. ASSUME Sync
      PROVE  LP!Next
  BY <1>2, SameCalls DEF Sync, LP!Next
<1>3. ASSUME Import
      PROVE  LP!Next
  BY <1>3, SameImport DEF Import, LP!Next
<1>4. ASSUME ApplyOne
      PROVE  LP!AnyOrderNext
  BY <1>4, SameCalls DEF ApplyOne, LP!AnyOrderNext
<1>5. ASSUME UNCHANGED vars
      PROVE  UNCHANGED LP!vars
  BY <1>5 DEF vars, LP!vars
<1> QED
  BY <1>1, <1>2, <1>3, <1>4, <1>5 DEF Next

\* The variables keep their shape.
LEMMA ShapeKept ==
  ASSUME LP!IInv, Shape, [Next \/ ApplyOne]_vars
  PROVE  Shape'
<1>1. view' \in [Replica -> View] /\ next_local_id' \in [Replica -> Nat]
  <2>1. CASE Quiet
    BY <2>1 DEF Quiet, Shape
  <2>2. ASSUME NEW r \in Replica, NEW s, Applied(r, s), Local(r, s) \/ Remote(r, s)
        PROVE  view' \in [Replica -> View] /\ next_local_id' \in [Replica -> Nat]
    <3>1. Materialize(view[r], s) \in View
      BY <2>2, MaterializeType DEF Applied, Shape
    <3>2. view' \in [Replica -> View]
      BY <2>2, <3>1 DEF Applied, Shape
    <3>3. next_local_id' \in [Replica -> Nat]
      BY <2>2 DEF Local, Remote, Shape
    <3> QED
      BY <3>2, <3>3
  <2> QED
    BY <2>1, <2>2, StepApplies
<1>2. DecayShape'
  <2>1. CASE UNCHANGED decaying
    BY <2>1 DEF Shape, DecayShape, NoDecay
  <2>2. ASSUME NEW r \in Replica, DecayAll(r)
        PROVE  DecayShape'
    <3>1. PICK amount \in DecayAmount :
            decaying' = [at |-> r, amount |-> amount, keys |-> Present(view[r].edges)]
      BY <2>2 DEF DecayAll
    <3>2. Present(view[r].edges) \subseteq EdgeKey
      BY DEF Shape, View, TaggedSet, Present
    <3> QED
      BY <3>1, <3>2, DecayAssumption DEF DecayShape
  <2>3. CASE DecayNext
    <3>1. PICK k : decaying' = IF decaying.keys = {k} THEN NoDecay
                               ELSE [decaying EXCEPT !.keys = @ \ {k}]
      BY <2>3 DEF DecayNext
    <3>2. decaying # NoDecay
      BY <2>3 DEF DecayNext, Free
    <3>3. CASE decaying.keys = {k}
      BY <3>1, <3>3 DEF NoDecay, DecayShape
    <3>4. CASE decaying.keys # {k}
      BY <3>1, <3>2, <3>4 DEF Shape, DecayShape
    <3> QED
      BY <3>3, <3>4
  <2> QED
    BY <2>1, <2>2, <2>3 DEF Next, Mutate, AddNode, RemoveNode, SetEmbedding, AddEdge, RemoveEdge,
         ReportEvent, Sync, Import, ApplyOne, vars
<1> QED
  BY <1>1, <1>2 DEF Shape

-----------------------------------------------------------------------------
\* Type correctness, and the replication layer inside the engines.

\* For a view of the right shape that is all there is to ViewOK.
LEMMA ViewOKIs ==
  ASSUME Shape, NEW r \in Replica
  PROVE  ViewOK(r) <=> MapsOK(view[r], applied_tags[r])
<1>1. \A k \in EdgeKey : view[r].edge_weight[k] \in [pos : [Replica -> 0..(2^Width - 1)],
                                                     neg : [Replica -> 0..(2^Width - 1)]]
  BY DEF Shape, View, Counter, Bucket
<1> QED
  BY <1>1, Zenon DEF ViewOK, MapsOK, NodeOK, EdgeOK

\* New engines.
LEMMA InitShape == Init => LP!IInv /\ LP!PrefixInv /\ Shape
<1> SUFFICES ASSUME Init PROVE LP!IInv /\ LP!PrefixInv /\ Shape
  OBVIOUS
<1>1. LP!Init
  BY SameState DEF Init
<1>2. LP!IInv /\ LP!PrefixInv
  BY <1>1, LP!InitIInv, LP!InitPrefixInv, ReplicaAssumption, WallClockAssumption
<1>3. view = [r \in Replica |-> NewView] /\ next_local_id = [r \in Replica |-> 0] /\ decaying = NoDecay
  BY DEF Init
<1>4. view \in [Replica -> View]
  BY <1>3, NewViewType
<1>5. DecayShape
  BY <1>3 DEF DecayShape, NoDecay
<1> QED
  BY <1>2, <1>3, <1>4, <1>5 DEF Shape

\* The views of replicas keep their maps together in every step.
LEMMA ViewsKept ==
  ASSUME LP!IInv, Shape, \A r \in Replica : ViewOK(r), [Next \/ ApplyOne]_vars
  PROVE  \A r \in Replica : ViewOK(r)'
<1>1. Shape'
  BY ShapeKept
<1>2. applied_tags \in [Replica -> SUBSET Tag]
  BY SameState DEF LP!IInv, LP!TypeOK
<1>3. \A r \in Replica : MapsOK(view[r], applied_tags[r])
  BY ViewOKIs
<1>4. \A r \in Replica : MapsOK(view'[r], applied_tags'[r])
  <2>1. CASE Quiet
    BY <1>3, <2>1 DEF Quiet
  <2>2. ASSUME NEW q \in Replica, NEW s, Applied(q, s)
        PROVE  \A r \in Replica : MapsOK(view'[r], applied_tags'[r])
    <3>1. view[q] \in View /\ s \in StampedOp
      BY <2>2 DEF Applied, Shape
    <3>2. MapsOK(Materialize(view[q], s), applied_tags[q] \cup {s.tag})
      BY <1>3, <3>1, MaterializeOK
    <3>3. /\ view'[q] = Materialize(view[q], s)
          /\ applied_tags'[q] = applied_tags[q] \cup {s.tag}
          /\ \A r \in Replica : r # q => view'[r] = view[r] /\ applied_tags'[r] = applied_tags[r]
      BY <1>2, <2>2 DEF Applied, Shape
    <3> QED
      BY <1>3, <3>2, <3>3
  <2> QED
    BY <2>1, <2>2, StepApplies
<1> SUFFICES ASSUME NEW r \in Replica
             PROVE  ViewOK(r)'
  OBVIOUS
<1>5. MapsOK(view[r], applied_tags[r])' => ViewOK(r)'
  <2>1. \A k \in EdgeKey : view'[r].edge_weight[k] \in [pos : [Replica -> 0..(2^Width - 1)],
                                                        neg : [Replica -> 0..(2^Width - 1)]]
    BY <1>1 DEF Shape, View, Counter, Bucket
  <2> QED
    BY <2>1, Zenon DEF ViewOK, MapsOK, NodeOK, EdgeOK
<1> QED
  BY <1>4, <1>5

\* Whatever the engines do, the replication layer in them behaves as OpLog says
\* (Forest::apply, sle-sync).
THEOREM ImplementsOpLog == AnyOrderSpec => LP!AnyOrderSpec
<1>1. Init => LP!Init /\ LP!IInv /\ Shape
  BY InitShape, SameState DEF Init
<1>2. LP!IInv /\ Shape /\ [Next \/ ApplyOne]_vars
        => [LP!AnyOrderNext]_LP!vars /\ LP!IInv' /\ Shape'
  <2> SUFFICES ASSUME LP!IInv, Shape, [Next \/ ApplyOne]_vars
               PROVE  [LP!AnyOrderNext]_LP!vars /\ LP!IInv' /\ Shape'
    OBVIOUS
  <2>1. [LP!AnyOrderNext]_LP!vars
    BY StepRefines DEF LP!AnyOrderNext
  <2> QED
    BY <2>1, ShapeKept, LP!NextIInv, ReplicaAssumption, WallClockAssumption
<1> QED
  BY <1>1, <1>2, PTL DEF AnyOrderSpec, LP!AnyOrderSpec

\* ... and as long as whole logs are shipped, as OpLog says of that.
THEOREM ImplementsWholeLogs == Spec => LP!Spec
<1>1. Init => LP!Init /\ LP!IInv /\ Shape
  BY InitShape, SameState DEF Init
<1>2. LP!IInv /\ Shape /\ [Next]_vars => [LP!Next]_LP!vars /\ LP!IInv' /\ Shape'
  <2> SUFFICES ASSUME LP!IInv, Shape, [Next]_vars
               PROVE  [LP!Next]_LP!vars /\ LP!IInv' /\ Shape'
    OBVIOUS
  <2>1. [LP!Next]_LP!vars
    BY StepRefines
  <2>2. [LP!AnyOrderNext]_LP!vars
    BY <2>1 DEF LP!AnyOrderNext
  <2> QED
    BY <2>1, <2>2, ShapeKept, LP!NextIInv, ReplicaAssumption, WallClockAssumption
<1> QED
  BY <1>1, <1>2, PTL DEF Spec, LP!Spec

\* Clocks, logs, tags and views have their types, and the maps of a view hang
\* together, in whatever order operations are applied (Forest::apply).
THEOREM TypeCorrect == AnyOrderSpec => []TypeOK
<1> DEFINE Inv == LP!IInv /\ Shape /\ \A r \in Replica : ViewOK(r)
<1>1. Init => Inv
  <2> SUFFICES ASSUME Init PROVE \A r \in Replica : ViewOK(r)
    BY InitShape
  <2>1. \A r \in Replica : view[r] = NewView
    BY DEF Init
  <2>2. \A T : MapsOK(NewView, T)
    BY DEF MapsOK, NodeOK, EdgeOK, NewView, NewSet
  <2> QED
    BY <2>1, <2>2, ViewOKIs, InitShape
<1>2. Inv /\ [Next \/ ApplyOne]_vars => Inv'
  <2> SUFFICES ASSUME LP!IInv, Shape, \A r \in Replica : ViewOK(r), [Next \/ ApplyOne]_vars
               PROVE  Inv'
    OBVIOUS
  <2>1. [LP!AnyOrderNext]_LP!vars
    BY StepRefines DEF LP!AnyOrderNext
  <2>2. LP!IInv'
    BY <2>1, LP!NextIInv, ReplicaAssumption, WallClockAssumption
  <2> QED
    BY <2>2, ShapeKept, ViewsKept
<1>3. Inv => TypeOK
  <2> SUFFICES ASSUME Inv PROVE TypeOK
    OBVIOUS
  <2>1. L!TypeOK
    BY SameState DEF LP!IInv
  <2> QED
    BY <2>1 DEF TypeOK, Shape, DecayShape
<1> HIDE DEF Inv
<1> QED
  BY <1>1, <1>2, <1>3, PTL DEF AnyOrderSpec

\* Shipping whole logs is a special case.
THEOREM SpecIsAnyOrder == Spec => AnyOrderSpec
<1>1. [Next]_vars => [Next \/ ApplyOne]_vars
  OBVIOUS
<1> QED
  BY <1>1, PTL DEF Spec, AnyOrderSpec

-----------------------------------------------------------------------------
\* What a view holds about nodes follows from the operations known.

\* Stamped operations are known.
LEMMA KnownType ==
  ASSUME LP!IInv, NEW r \in Replica
  PROVE  Known(r) \in SUBSET StampedOp
<1>1. log \in [Replica -> Seq(StampedOp)]
  BY SameState DEF LP!IInv, LP!TypeOK
<1> SUFFICES ASSUME NEW i \in 1..Len(log[r])
             PROVE  log[r][i] \in StampedOp
  BY DEF Known
<1> QED
  BY <1>1

\* An operation adds itself to what its replica knows, and nothing else to
\* what any replica knows.
LEMMA KnownGrows ==
  ASSUME LP!IInv, NEW r \in Replica, NEW s, Applied(r, s)
  PROVE  /\ Known(r)' = Known(r) \cup {s} /\ s \notin Known(r)
         /\ \A q \in Replica : q # r => Known(q)' = Known(q)
         /\ \A q \in Replica : Known(q) \subseteq StampedOp
<1>1. /\ log \in [Replica -> Seq(StampedOp)]
      /\ \A q \in Replica : applied_tags[q] = {log[q][i].tag : i \in 1..Len(log[q])}
  BY SameState DEF LP!IInv, LP!TypeOK, LP!LogMatchesTags
<1>2. s \in StampedOp /\ log' = [log EXCEPT ![r] = Append(@, s)] /\ s.tag \notin applied_tags[r]
  BY DEF Applied
<1>3. Known(r)' = Known(r) \cup {s}
  <2>1. /\ Len(log[r]) \in Nat /\ Len(log'[r]) = Len(log[r]) + 1
        /\ \A i \in 1..Len(log[r]) : log'[r][i] = log[r][i]
        /\ log'[r][Len(log[r]) + 1] = s
    BY <1>1, <1>2
  <2>2. 1..Len(log'[r]) = 1..Len(log[r]) \cup {Len(log[r]) + 1}
    BY <2>1
  <2> QED
    BY SMTT(60), <2>1, <2>2 DEF Known
<1>4. s \notin Known(r)
  BY <1>1, <1>2 DEF Known
<1>5. \A q \in Replica : q # r => Known(q)' = Known(q)
  BY <1>1, <1>2 DEF Known
<1>6. \A q \in Replica : Known(q) \subseteq StampedOp
  BY KnownType
<1> QED
  BY <1>3, <1>4, <1>5, <1>6

\* A replica that has applied the tag of an operation knows that operation.
LEMMA KnownByTag ==
  ASSUME LP!IInv, NEW q \in Replica, NEW r \in Replica, NEW t \in Known(q), t.tag \in applied_tags[r]
  PROVE  t \in Known(r)
<1>1. PICK i \in 1..Len(log[q]) : t = log[q][i]
  BY DEF Known
<1>2. PICK j \in 1..Len(log[r]) : t.tag = log[r][j].tag
  BY DEF LP!IInv, LP!LogMatchesTags
<1>3. LP!TagsIdentifyOps
  BY LP!TagsIdentify, ReplicaAssumption, WallClockAssumption
<1>4. log[q][i] = log[r][j]
  BY <1>1, <1>2, <1>3 DEF LP!TagsIdentifyOps
<1> QED
  BY <1>1, <1>4 DEF Known

\* An operation that removes or embeds a node is applied where the node is
\* known.
LEMMA NodeIsKnown ==
  ASSUME LP!PrefixInv, NodeInv, NEW r \in Replica, NEW s, Applied(r, s), Local(r, s) \/ Remote(r, s),
         s.op.type \in {"RemoveNode", "SetEmbedding"}
  PROVE  \E a \in Known(r) : a.op.type = "AddNode" /\ a.op.id = s.op.id
<1>1. LP!IInv
  BY DEF LP!PrefixInv
<1>2. CASE Local(r, s)
  <2>1. view[r].nodes.adds[s.op.id] # {} /\ s.op.id \in NodeId
    BY <1>2 DEF Local, Applied, StampedOp, Operation
  <2>2. NodeFollows(view[r], Known(r), s.op.id)
    BY <2>1 DEF NodeInv, ViewsFollowOps
  <2> QED
    BY SMTT(60), <2>1, <2>2 DEF NodeFollows
<1>3. CASE Remote(r, s)
  <2> PICK q \in Replica : \E i \in 1..Len(log[q]) :
         s = log[q][i] /\ \A h \in 1..(i - 1) : log[q][h].tag \in applied_tags[r]
    BY <1>3 DEF Remote
  <2>1. PICK i \in 1..Len(log[q]) :
          s = log[q][i] /\ \A h \in 1..(i - 1) : log[q][h].tag \in applied_tags[r]
    OBVIOUS
  <2>2. PICK j \in 1..(i - 1) : log[q][j].op.type = "AddNode" /\ log[q][j].op.id = s.op.id
    BY <2>1 DEF NodeInv, NodesFirst
  <2>3. Len(log[q]) \in Nat
    BY <1>1 DEF LP!IInv, LP!TypeOK
  <2>4. log[q][j] \in Known(q) /\ log[q][j].tag \in applied_tags[r]
    BY <2>1, <2>2, <2>3 DEF Known
  <2>5. log[q][j] \in Known(r)
    BY <1>1, <2>4, KnownByTag
  <2> QED
    BY <2>2, <2>5
<1> QED
  BY <1>2, <1>3

\* Nothing is known of a node where its addition arrives.
LEMMA AdditionIsFirst ==
  ASSUME LP!PrefixInv, Shape, NodeInv, NEW r \in Replica, NEW s, Applied(r, s),
         Local(r, s) \/ Remote(r, s), s.op.type = "AddNode"
  PROVE  \A type \in {"AddNode", "RemoveNode", "SetEmbedding"} : OpsOn(Known(r), type, s.op.id) = {}
<1>1. LP!IInv
  BY DEF LP!PrefixInv
<1>2. s \notin Known(r) /\ Known(r) \subseteq StampedOp
  BY <1>1, KnownGrows
<1>3. ASSUME NEW t \in Known(r), t.op.type = "AddNode", t.op.id = s.op.id
      PROVE  FALSE
  <2>1. CASE Local(r, s)
    <3>1. s.op.id = <<r, next_local_id[r]>>
      BY <2>1 DEF Local
    <3>2. t.op.id[1] = t.tag.replica /\ t.op.id[2] < next_local_id[t.tag.replica]
      BY <1>3 DEF NodeInv, IdsNameAdditions
    <3>3. next_local_id[r] < next_local_id[r] /\ next_local_id[r] \in Nat
      BY <1>3, <3>1, <3>2 DEF Shape
    <3> QED
      BY <3>3
  <2>2. CASE Remote(r, s)
    <3>1. \E q \in Replica : s \in Known(q)
      BY <2>2 DEF Remote, Known
    <3>2. s = t
      BY <1>3, <3>1 DEF NodeInv, IdsNameAdditions
    <3> QED
      BY <1>2, <3>2
  <2> QED
    BY <2>1, <2>2
<1>4. ASSUME NEW t \in Known(r), t.op.type \in {"RemoveNode", "SetEmbedding"}, t.op.id = s.op.id
      PROVE  FALSE
  <2>1. PICK i \in 1..Len(log[r]) : t = log[r][i]
    BY DEF Known
  <2>2. PICK j \in 1..(i - 1) : log[r][j].op.type = "AddNode" /\ log[r][j].op.id = s.op.id
    BY <1>4, <2>1 DEF NodeInv, NodesFirst
  <2>3. Len(log[r]) \in Nat
    BY <1>1 DEF LP!IInv, LP!TypeOK
  <2>4. log[r][j] \in Known(r)
    BY <2>2, <2>3 DEF Known
  <2> QED
    BY <1>3, <2>2, <2>4
<1> QED
  BY <1>3, <1>4 DEF OpsOn

\* Where an operation is applied, the view follows from what is known again.
LEMMA ViewFollows ==
  ASSUME LP!PrefixInv, Shape, NodeInv, NEW r \in Replica, NEW s, Applied(r, s),
         Local(r, s) \/ Remote(r, s), ViewOK(r), NEW id \in NodeId
  PROVE  NodeFollows(Materialize(view[r], s), Known(r) \cup {s}, id)
<1> DEFINE v == view[r]
           ops == Known(r)
<1>1. LP!IInv
  BY DEF LP!PrefixInv
<1>2. v \in View /\ s \in StampedOp /\ ops \in SUBSET StampedOp
  BY <1>1, KnownGrows DEF Shape, Applied
<1>3. NodeFollows(v, ops, id)
  BY DEF NodeInv, ViewsFollowOps
<1>4. NodeOK(v, applied_tags[r], id)
  BY ViewOKIs DEF MapsOK
<1>5. \A t \in ops : t.tag # s.tag
  <2>1. \A t \in ops : t.tag \in applied_tags[r]
    BY <1>1 DEF Known, LP!IInv, LP!LogMatchesTags
  <2> QED
    BY <2>1 DEF Applied
<1>6. CASE s.op.type \notin {"AddNode", "RemoveNode", "SetEmbedding"} \/ s.op.id # id
  BY <1>2, <1>3, <1>6, OtherFollows
<1>7. CASE s.op.type = "AddNode" /\ s.op.id = id
  <2>1. \A type \in {"AddNode", "RemoveNode", "SetEmbedding"} : OpsOn(ops, type, s.op.id) = {}
    BY <1>7, AdditionIsFirst
  <2> HIDE DEF v, ops
  <2> QED
    BY <1>2, <1>3, <1>4, <1>7, <2>1, AdditionFollows DEF v, ops
<1>8. CASE s.op.type = "RemoveNode" /\ s.op.id = id
  BY <1>2, <1>3, <1>8, RemovalFollows
<1>9. CASE s.op.type = "SetEmbedding" /\ s.op.id = id
  <2>1. OpsOn(ops, "AddNode", s.op.id) # {}
    BY <1>9, NodeIsKnown DEF OpsOn
  <2> HIDE DEF v, ops
  <2> QED
    BY <1>2, <1>3, <1>4, <1>5, <1>9, <2>1, EmbeddingFollows DEF v, ops
<1> QED
  BY <1>6, <1>7, <1>8, <1>9

\* Every step keeps the inductive invariant, as long as whole logs are shipped.
LEMMA NodeInvKept ==
  ASSUME LP!PrefixInv, Shape, \A r \in Replica : ViewOK(r), NodeInv, [Next]_vars
  PROVE  NodeInv'
<1>1. LP!IInv
  BY DEF LP!PrefixInv
<1>2. log \in [Replica -> Seq(StampedOp)]
  BY <1>1, SameState DEF LP!IInv, LP!TypeOK
<1>3. CASE Quiet
  <2>1. log' = log /\ view' = view /\ next_local_id' = next_local_id
    BY <1>3 DEF Quiet
  <2>2. \A r \in Replica : Known(r)' = Known(r)
    BY <2>1 DEF Known
  <2>3. NodesFirst'
    BY <2>1 DEF NodeInv, NodesFirst
  <2> HIDE DEF Known
  <2>4. IdsNameAdditions'
    BY <2>1, <2>2 DEF NodeInv, IdsNameAdditions
  <2>5. ASSUME NEW r \in Replica, NEW id \in NodeId
        PROVE  NodeFollows(view'[r], Known(r)', id)
    <3>1. NodeFollows(view[r], Known(r), id)
      BY DEF NodeInv, ViewsFollowOps
    <3> QED
      BY <2>1, <2>2, <3>1
  <2>6. ViewsFollowOps'
    BY <2>5 DEF ViewsFollowOps, NodeFollows
  <2> QED
    BY <2>3, <2>4, <2>6 DEF NodeInv
<1>4. ASSUME NEW r \in Replica, NEW s, Applied(r, s), Local(r, s) \/ Remote(r, s)
      PROVE  NodeInv'
  <2>1. /\ Known(r)' = Known(r) \cup {s} /\ s \notin Known(r)
        /\ \A q \in Replica : q # r => Known(q)' = Known(q)
        /\ \A q \in Replica : Known(q) \subseteq StampedOp
    BY <1>1, <1>4, KnownGrows
  <2>2. s \in StampedOp /\ log' = [log EXCEPT ![r] = Append(@, s)]
        /\ view' = [view EXCEPT ![r] = Materialize(@, s)]
    BY <1>4 DEF Applied
  <2>3. NodesFirst'
    <3> SUFFICES ASSUME NEW q \in Replica, NEW i \in 1..Len(log'[q]),
                        log'[q][i].op.type \in {"RemoveNode", "SetEmbedding"}
                 PROVE  \E j \in 1..(i - 1) : /\ log'[q][j].op.type = "AddNode"
                                               /\ log'[q][j].op.id = log'[q][i].op.id
      BY DEF NodesFirst
    <3>1. log[q] \in Seq(StampedOp) /\ Len(log[q]) \in Nat
      BY <1>2
    <3>2. /\ q # r => log'[q] = log[q]
          /\ q = r => /\ Len(log'[q]) = Len(log[q]) + 1
                      /\ log'[q][Len(log[q]) + 1] = s
          /\ \A j \in 1..Len(log[q]) : log'[q][j] = log[q][j]
      BY <1>2, <2>2, <3>1
    <3>3. CASE i \in 1..Len(log[q])
      <4>1. PICK j \in 1..(i - 1) : log[q][j].op.type = "AddNode" /\ log[q][j].op.id = log[q][i].op.id
        BY <3>2, <3>3 DEF NodeInv, NodesFirst
      <4> QED
        BY SMTT(60), <3>1, <3>2, <3>3, <4>1
    <3>4. CASE q = r /\ i = Len(log[q]) + 1
      <4>1. PICK a \in Known(r) : a.op.type = "AddNode" /\ a.op.id = s.op.id
        BY <1>4, <3>2, <3>4, NodeIsKnown
      <4>2. PICK j \in 1..Len(log[r]) : a = log[r][j]
        BY DEF Known
      <4> QED
        BY <3>1, <3>2, <3>4, <4>1, <4>2
    <3> QED
      BY <3>1, <3>2, <3>3, <3>4
  <2>4. IdsNameAdditions'
    <3>1. \A q \in Replica : Known(q)' \subseteq Known(q) \cup {s}
      BY <2>1
    <3>2. /\ next_local_id \in [Replica -> Nat]
          /\ \A q \in Replica : next_local_id'[q] \in Nat /\ next_local_id[q] <= next_local_id'[q]
      BY <1>4 DEF Local, Remote, Shape
    <3>3. CASE Remote(r, s)
      <4>1. PICK p \in Replica : s \in Known(p)
        BY <3>3 DEF Remote, Known
      <4>2. \A q \in Replica : \A t \in Known(q)' : \E o \in Replica : t \in Known(o)
        BY <3>1, <4>1
      <4>3. next_local_id' = next_local_id
        BY <3>3 DEF Remote
      <4> HIDE DEF Known
      <4> QED
        BY <4>2, <4>3 DEF NodeInv, IdsNameAdditions
    <3>4. CASE Local(r, s)
      <4>1. s.op.type = "AddNode" =>
              /\ s.op.id = <<r, next_local_id[r]>> /\ s.tag.replica = r
              /\ next_local_id'[r] = next_local_id[r] + 1
        BY <3>2, <3>4 DEF Local
      <4>2. \A q \in Replica : \A t \in Known(q) :
              t.op.type = "AddNode" =>
                /\ t.tag.replica \in Replica
                /\ t.op.id[1] = t.tag.replica
                /\ t.op.id[2] \in Nat
                /\ t.op.id[2] < next_local_id[t.tag.replica]
        <5> SUFFICES ASSUME NEW q \in Replica, NEW t \in Known(q), t.op.type = "AddNode"
                     PROVE  t.tag.replica \in Replica /\ t.op.id[2] \in Nat
          BY DEF NodeInv, IdsNameAdditions
        <5>1. t \in StampedOp
          BY <2>1
        <5> QED
          BY <5>1, LocalIdAssumption DEF StampedOp, Tag, Operation, NodeId
      <4>3. \A q \in Replica : \A t \in Known(q)' : t = s \/ \E o \in Replica : t \in Known(o)
        BY <3>1
      <4>4. ASSUME NEW q \in Replica, NEW t \in Known(q), t.op.type = "AddNode", s.op.type = "AddNode"
            PROVE  t.op.id # s.op.id
        <5>1. t.op.id[1] = t.tag.replica /\ t.op.id[2] < next_local_id[t.tag.replica]
          BY <4>2, <4>4
        <5> QED
          BY <3>2, <4>1, <4>4, <5>1
      <4>5. ASSUME NEW q \in Replica, NEW t \in Known(q)', t.op.type = "AddNode"
            PROVE  t.op.id[1] = t.tag.replica /\ t.op.id[2] < next_local_id'[t.tag.replica]
        <5>1. CASE t = s
          BY <3>2, <4>1, <4>5, <5>1
        <5>2. CASE \E o \in Replica : t \in Known(o)
          <6>1. /\ t.tag.replica \in Replica /\ t.op.id[1] = t.tag.replica
                /\ t.op.id[2] \in Nat /\ t.op.id[2] < next_local_id[t.tag.replica]
            BY <4>2, <4>5, <5>2
          <6>2. next_local_id[t.tag.replica] \in Nat /\ next_local_id'[t.tag.replica] \in Nat
                /\ next_local_id[t.tag.replica] <= next_local_id'[t.tag.replica]
            BY <3>2, <6>1
          <6> QED
            BY <6>1, <6>2
        <5> QED
          BY <4>3, <5>1, <5>2
      <4>6. ASSUME NEW q \in Replica, NEW p \in Replica, NEW t \in Known(q)', NEW u \in Known(p)',
                   t.op.type = "AddNode", u.op.type = "AddNode", t.op.id = u.op.id
            PROVE  t = u
        <5>1. CASE t = s \/ u = s
          BY <4>3, <4>4, <4>6, <5>1
        <5>2. CASE (\E o \in Replica : t \in Known(o)) /\ (\E o \in Replica : u \in Known(o))
          BY <4>6, <5>2 DEF NodeInv, IdsNameAdditions
        <5> QED
          BY <4>3, <5>1, <5>2
      <4> QED
        BY <4>5, <4>6 DEF IdsNameAdditions
    <3> QED
      BY <1>4, <3>3, <3>4
  <2>5. ViewsFollowOps'
    <3> SUFFICES ASSUME NEW q \in Replica, NEW id \in NodeId
                 PROVE  NodeFollows(view'[q], Known(q)', id)
      BY DEF ViewsFollowOps, NodeFollows
    <3>1. CASE q = r
      <4>1. view'[q] = Materialize(view[r], s)
        BY <2>2, <3>1 DEF Shape
      <4>2. NodeFollows(Materialize(view[r], s), Known(r) \cup {s}, id)
        BY <1>4, ViewFollows
      <4> QED
        BY <2>1, <3>1, <4>1, <4>2
    <3>2. CASE q # r
      <4>1. view'[q] = view[q]
        BY <2>2, <3>2 DEF Shape
      <4>2. NodeFollows(view[q], Known(q), id)
        BY DEF NodeInv, ViewsFollowOps
      <4> QED
        BY <2>1, <3>2, <4>1, <4>2
    <3> QED
      BY <3>1, <3>2
  <2> QED
    BY <2>3, <2>4, <2>5 DEF NodeInv
<1> QED
  BY <1>1, <1>3, <1>4, StepApplies

-----------------------------------------------------------------------------
\* What follows from it.

\* Everything proved of the logs and views together, as long as whole logs are
\* shipped.
WholeInv == LP!PrefixInv /\ Shape /\ (\A r \in Replica : ViewOK(r)) /\ NodeInv

\* It is inductive.
LEMMA WholeInvInductive ==
  /\ Init => WholeInv
  /\ WholeInv /\ [Next]_vars => WholeInv'
<1>1. ASSUME Init
      PROVE  WholeInv
  <2>1. LP!PrefixInv /\ Shape
    BY <1>1, InitShape
  <2>2. /\ view = [r \in Replica |-> NewView]
        /\ \A r \in Replica : log[r] = <<>>
    BY <1>1 DEF Init, L!Init
  <2>3. \A r \in Replica : ViewOK(r)
    <3>1. \A r \in Replica : view[r] = NewView
      BY <2>2
    <3>2. \A T : MapsOK(NewView, T)
      BY DEF MapsOK, NodeOK, EdgeOK, NewView, NewSet
    <3> QED
      BY <2>1, <3>1, <3>2, ViewOKIs
  <2>4. \A r \in Replica : Known(r) = {}
    BY <2>2 DEF Known
  <2>5. NodesFirst /\ IdsNameAdditions
    BY <2>2, <2>4 DEF NodesFirst, IdsNameAdditions
  <2>6. ASSUME NEW id \in NodeId
        PROVE  NodeFollows(NewView, {}, id)
    <3>1. \A type : OpsOn({}, type, id) = {}
      BY DEF OpsOn
    <3>2. /\ NewView.nodes.adds[id] = {} /\ NewView.nodes.removes[id] = {}
          /\ NewView.node_embedding_tag[id] = None
      BY DEF NewView, NewSet
    <3> QED
      BY <3>1, <3>2, FollowsIs
  <2>7. ViewsFollowOps
    BY <2>2, <2>4, <2>6 DEF ViewsFollowOps
  <2> QED
    BY <2>1, <2>3, <2>5, <2>7 DEF WholeInv, NodeInv
<1>2. ASSUME WholeInv, [Next]_vars
      PROVE  WholeInv'
  <2>1. LP!IInv /\ LP!PrefixInv /\ Shape /\ NodeInv /\ \A r \in Replica : ViewOK(r)
    BY <1>2 DEF WholeInv, LP!PrefixInv
  <2>2. [LP!Next]_LP!vars
    BY <1>2, <2>1, StepRefines
  <2>3. LP!PrefixInv'
    BY <2>1, <2>2, LP!NextPrefixInv, ReplicaAssumption, WallClockAssumption
  <2>4. Shape' /\ \A r \in Replica : ViewOK(r)'
    BY <1>2, <2>1, ShapeKept, ViewsKept
  <2>5. NodeInv'
    BY <1>2, <2>1, NodeInvKept
  <2> QED
    BY <2>3, <2>4, <2>5 DEF WholeInv
<1> QED
  BY <1>1, <1>2

\* Whatever hosts and networks do, as long as whole logs are shipped, nothing is
\* done to a node before it is added, node ids are not used twice, and what a
\* view holds of a node follows from the set of operations known (Forest::apply).
THEOREM NodeInvariant == Spec => []NodeInv
<1>1. WholeInv => NodeInv
  BY DEF WholeInv
<1> QED
  BY <1>1, WholeInvInductive, PTL DEF Spec

\* Replicas that have applied the same operations know the same operations.
LEMMA SameKnowledge ==
  ASSUME LP!IInv, NEW a \in Replica, NEW b \in Replica, applied_tags[a] = applied_tags[b]
  PROVE  Known(a) = Known(b)
<1>1. \A r \in Replica : \A t \in Known(r) : t.tag \in applied_tags[r]
  BY DEF Known, LP!IInv, LP!LogMatchesTags
<1> QED
  BY <1>1, KnownByTag

\* Engines that know the same operations show the same nodes, with the same
\* contents and embeddings, in whatever order the operations came to them.
THEOREM NodesAlwaysConverge == Spec => []NodesConverge
<1>1. ASSUME WholeInv
      PROVE  NodesConverge
  <2> SUFFICES ASSUME NEW a \in Replica, NEW b \in Replica, applied_tags[a] = applied_tags[b]
               PROVE  NodesOf(view[a]) = NodesOf(view[b])
    BY DEF NodesConverge
  <2> DEFINE v == view[a]
             w == view[b]
  <2>1. LP!IInv
    BY <1>1 DEF WholeInv, LP!PrefixInv
  <2>2. Known(a) = Known(b) /\ Known(a) \in SUBSET StampedOp
    BY <2>1, SameKnowledge, KnownType
  <2>3. \A id \in NodeId :
          /\ v.nodes.adds[id] = w.nodes.adds[id] /\ v.nodes.removes[id] = w.nodes.removes[id]
          /\ v.nodes.adds[id] # {} => v.node_payload[id] = w.node_payload[id]
    <3> SUFFICES ASSUME NEW id \in NodeId
                 PROVE  /\ v.nodes.adds[id] = w.nodes.adds[id] /\ v.nodes.removes[id] = w.nodes.removes[id]
                        /\ v.nodes.adds[id] # {} => v.node_payload[id] = w.node_payload[id]
      OBVIOUS
    <3>1. NodeFollows(v, Known(a), id) /\ NodeFollows(w, Known(a), id)
      BY <1>1, <2>2 DEF WholeInv, NodeInv, ViewsFollowOps
    <3> HIDE DEF v, w
    <3> QED
      BY <2>2, <3>1, FollowersAgree
  <2>4. DOMAIN v.nodes.adds = NodeId /\ DOMAIN w.nodes.adds = NodeId
    BY <1>1 DEF WholeInv, Shape, View, TaggedSet
  <2> HIDE DEF v, w
  <2>5. {i \in Present(v.nodes) : v.node_payload[i] # None} = {i \in Present(w.nodes) : w.node_payload[i] # None}
    BY <2>3, <2>4 DEF Present, Contains
  <2>6. \A id \in Present(v.nodes) : v.node_payload[id] = w.node_payload[id]
    BY <2>3, <2>4 DEF Present, Contains
  <2>7. NodesOf(v) = NodesOf(w)
    BY <2>5, <2>6 DEF NodesOf
  <2> QED
    BY <2>7 DEF v, w
<1> QED
  BY <1>1, WholeInvInductive, PTL DEF Spec

-----------------------------------------------------------------------------
\* Weights follow from the operations known.

WeightInv ==
  \A r \in Replica : BucketsFollow(view[r], Known(r)) /\ \A s \in Known(r) : OwnBucket(s)

\* A replica knows finitely many operations.
LEMMA KnownFinite ==
  ASSUME LP!IInv, NEW r \in Replica
  PROVE  IsFiniteSet(Known(r))
<1>1. log[r] \in Seq(StampedOp) /\ Len(log[r]) \in Nat
  BY SameState DEF LP!IInv, LP!TypeOK
<1>2. log[r] \in Surjection(1..Len(log[r]), Known(r))
  BY <1>1 DEF Surjection, Known
<1>3. IsFiniteSet(1..Len(log[r]))
  BY <1>1, FS_Interval
<1> QED
  BY <1>2, <1>3, FS_Surjection

LEMMA WeightInvInductive ==
  /\ Init => WeightInv
  /\ LP!IInv /\ Shape /\ WeightInv /\ [Next \/ ApplyOne]_vars => WeightInv'
<1>1. ASSUME Init
      PROVE  WeightInv
  <2>1. \A r \in Replica : log[r] = <<>> /\ view[r] = NewView
    BY <1>1 DEF Init, L!Init
  <2>2. \A r \in Replica : Known(r) = {}
    BY <2>1 DEF Known
  <2>3. \A f, p : Bucketed(f, {}, p) = 0
    BY SumEmpty, RemainderOf, WidthAssumption DEF Bucketed, Wrap
  <2>4. BucketsFollow(NewView, {})
    BY <2>3 DEF BucketsFollow, NewView, NewCounter
  <2> QED
    BY <2>1, <2>2, <2>4 DEF WeightInv
<1>2. ASSUME LP!IInv, Shape, WeightInv, [Next \/ ApplyOne]_vars
      PROVE  WeightInv'
  <2>1. CASE Quiet
    <3>1. log' = log /\ view' = view
      BY <2>1 DEF Quiet
    <3>2. \A q \in Replica : Known(q)' = Known(q)
      BY <3>1 DEF Known
    <3>3. \A q \in Replica : BucketsFollow(view'[q], Known(q)') /\ \A s \in Known(q)' : OwnBucket(s)
      BY <1>2, <3>1, <3>2, Zenon DEF WeightInv
    <3> QED
      BY <3>3 DEF WeightInv, BucketsFollow, OwnBucket
  <2>2. ASSUME NEW r \in Replica, NEW s, Applied(r, s), Local(r, s) \/ Remote(r, s)
        PROVE  WeightInv'
    <3>1. /\ Known(r)' = Known(r) \cup {s} /\ s \notin Known(r)
          /\ \A q \in Replica : q # r => Known(q)' = Known(q)
          /\ Known(r) \in SUBSET StampedOp /\ IsFiniteSet(Known(r))
      BY <1>2, <2>2, KnownGrows, KnownFinite
    <3>2. /\ s \in StampedOp /\ view[r] \in View
          /\ \A q \in Replica : view'[q] = IF q = r THEN Materialize(view[r], s) ELSE view[q]
      BY <1>2, <2>2 DEF Applied, Shape
    <3>3. OwnBucket(s)
      <4>1. CASE Local(r, s)
        BY <4>1 DEF Local, OwnBucket
      <4>2. CASE Remote(r, s)
        <5>1. \E q \in Replica : s \in Known(q)
          BY <4>2 DEF Remote, Known
        <5> QED
          BY <1>2, <5>1 DEF WeightInv
      <4> QED
        BY <2>2, <4>1, <4>2
    <3>4. \A q \in Replica : BucketsFollow(view[q], Known(q)) /\ \A t \in Known(q) : OwnBucket(t)
      BY <1>2, Zenon DEF WeightInv
    <3>5. BucketsFollow(Materialize(view[r], s), Known(r) \cup {s})
      BY <3>1, <3>2, <3>3, <3>4, BucketsStep
    <3>6. ASSUME NEW q \in Replica
          PROVE  BucketsFollow(view'[q], Known(q)') /\ \A t \in Known(q)' : OwnBucket(t)
      <4>1. CASE q = r
        BY <3>1, <3>2, <3>3, <3>4, <3>5, <4>1
      <4>2. CASE q # r
        BY <3>1, <3>2, <3>4, <4>2
      <4> QED
        BY <4>1, <4>2
    <3> QED
      BY <3>6 DEF WeightInv, BucketsFollow, OwnBucket
  <2> QED
    BY <1>2, <2>1, <2>2, StepApplies
<1> QED
  BY <1>1, <1>2

\* The operations of p are all that counts for its buckets.
LEMMA OwnOnly ==
  ASSUME NEW ops \in SUBSET StampedOp, IsFiniteSet(ops), NEW k, NEW p
  PROVE  LET own == {s \in ops : s.tag.replica = p}
         IN  /\ Bucketed(Rise(k), ops, p) = Bucketed(Rise(k), own, p)
             /\ Bucketed(Fall(k), ops, p) = Bucketed(Fall(k), own, p)
<1> DEFINE own == {s \in ops : s.tag.replica = p}
           f == Owned(Rise(k), p)
           g == Owned(Fall(k), p)
<1>1. /\ \A s \in ops : f[s] \in Int /\ g[s] \in Int
      /\ \A s \in ops : s \notin own => f[s] = 0 /\ g[s] = 0
      /\ own \in SUBSET ops
  BY TermTypes
<1> HIDE DEF f, g, own
<1>2. SumFunctionOnSet(f, ops) = SumFunctionOnSet(f, own) /\ SumFunctionOnSet(g, ops) = SumFunctionOnSet(g, own)
  BY <1>1, SumZeros
<1>3. /\ Bucketed(Rise(k), ops, p) = Bucketed(Rise(k), own, p)
      /\ Bucketed(Fall(k), ops, p) = Bucketed(Fall(k), own, p)
  BY <1>2 DEF Bucketed, f, g
<1> QED
  BY <1>3 DEF own

\* What the known operations amount to.
LEMMA DeltasSum ==
  ASSUME NEW ops \in SUBSET StampedOp, IsFiniteSet(ops), NEW k \in EdgeKey
  PROVE  LET T == K!WeightOps(ops, k)
         IN  /\ T \in SUBSET ops
             /\ \A s \in ops : s \notin T => Rise(k)[s] = 0 /\ Fall(k)[s] = 0
             /\ \A s \in T : K!Delta(s) \in Int /\ K!Delta(s) = Rise(k)[s] - Fall(k)[s]
                            /\ (Rise(k)[s] = 0 \/ Fall(k)[s] = 0)
             /\ SumFunctionOnSet([s \in T |-> K!Delta(s)], T)
                  = SumFunctionOnSet(Rise(k), ops) - SumFunctionOnSet(Fall(k), ops)
<1> DEFINE T == K!WeightOps(ops, k)
           d == [s \in T |-> K!Delta(s)]
<1>1. T = {s \in ops : s.op.type \in {"AddEdge", "Reinforce", "Decay"} /\ s.op.key = k}
  BY DEF K!WeightOps, K!About
<1>2. T \in SUBSET ops /\ IsFiniteSet(T)
  BY <1>1, FS_Subset
<1>3. \A s \in ops : s \notin T => Rise(k)[s] = 0 /\ Fall(k)[s] = 0
  BY <1>1 DEF Rise, Fall, Raises, Lowers
<1>4. ASSUME NEW s \in T
      PROVE  /\ K!Delta(s) \in Int /\ K!Delta(s) = Rise(k)[s] - Fall(k)[s]
             /\ Rise(k)[s] = 0 \/ Fall(k)[s] = 0
  <2>1. s \in StampedOp /\ s.op \in Operation /\ s.op.key = k
    BY <1>1 DEF StampedOp
  <2>2. /\ Rise(k)[s] = IF Raises(s, k) THEN Amount(s) ELSE 0
        /\ Fall(k)[s] = IF Lowers(s, k) THEN Amount(s) ELSE 0
    BY <2>1 DEF Rise, Fall
  <2>3. CASE s.op.type = "AddEdge"
    <3>1. s.op.initial_weight \in Int
      BY <2>1, <2>3, WeightAssumption DEF Operation
    <3>2. K!Delta(s) = s.op.initial_weight
      BY <2>3 DEF K!Delta
    <3> QED
      BY <2>1, <2>2, <2>3, <3>1, <3>2 DEF Raises, Lowers, Amount
  <2>4. CASE s.op.type = "Reinforce"
    <3>1. s.op.amount \in Nat
      BY <2>1, <2>4 DEF Operation
    <3>2. K!Delta(s) = s.op.amount
      BY <2>4 DEF K!Delta
    <3> QED
      BY <2>1, <2>2, <2>4, <3>1, <3>2 DEF Raises, Lowers, Amount
  <2>5. CASE s.op.type = "Decay"
    <3>1. s.op.amount \in Nat
      BY <2>1, <2>5 DEF Operation
    <3>2. K!Delta(s) = -s.op.amount
      BY <2>5 DEF K!Delta
    <3> QED
      BY <2>1, <2>2, <2>5, <3>1, <3>2 DEF Raises, Lowers, Amount
  <2> QED
    BY <1>1, <2>3, <2>4, <2>5
<1>5. \A s \in T : /\ Rise(k)[s] \in Int /\ Fall(k)[s] \in Int
                   /\ d[s] = Rise(k)[s] - Fall(k)[s]
  BY <1>2, <1>4, AmountType
<1>6. SumFunctionOnSet(d, T) = SumFunctionOnSet(Rise(k), T) - SumFunctionOnSet(Fall(k), T)
  <2> HIDE DEF d, T
  <2> QED
    BY <1>2, <1>5, SumDifference
<1>7. \A s \in ops : Rise(k)[s] \in Int /\ Fall(k)[s] \in Int
  BY AmountType
<1>8. /\ SumFunctionOnSet(Rise(k), ops) = SumFunctionOnSet(Rise(k), T)
      /\ SumFunctionOnSet(Fall(k), ops) = SumFunctionOnSet(Fall(k), T)
  <2> HIDE DEF T
  <2> QED
    BY <1>2, <1>3, <1>7, SumZeros
<1> QED
  BY <1>2, <1>3, <1>4, <1>6, <1>8

\* Sums in Knowledge are sums.
LEMMA SameSums ==
  /\ \A f : SumFunction(f) = SumFunctionOnSet(f, DOMAIN f)
  /\ \A f : K!SumFunction(f) = SumFunctionOnSet(f, DOMAIN f)
  /\ \A n : K!Signed(n) = Signed(n)
<1>1. \A f, S : K!SumFunctionOnSet(f, S) = SumFunctionOnSet(f, S)
  BY DEF K!SumFunctionOnSet, SumFunctionOnSet, K!FoldFunctionOnSet, FoldFunctionOnSet,
         K!MapThenFoldSet, MapThenFoldSet
<1>2. \A n : K!Signed(n) = Signed(n)
  BY DEF K!Signed, Signed, K!Wrap, Wrap
<1> QED
  BY <1>1, <1>2, Zenon DEF K!SumFunction, SumFunction

\* A weight is what the known operations stand for.
LEMMA WeightAsKnown ==
  ASSUME NEW v \in View, NEW ops \in SUBSET StampedOp, IsFiniteSet(ops), BucketsFollow(v, ops),
         NEW k \in EdgeKey
  PROVE  Value(v.edge_weight[k]) = K!WeightIn(ops, k)
<1> DEFINE c == v.edge_weight[k]
           T == K!WeightOps(ops, k)
           d == [s \in T |-> K!Delta(s)]
           x == SumFunctionOnSet(c.pos, Replica) - SumFunctionOnSet(c.neg, Replica)
           y == SumFunctionOnSet(Rise(k), ops) - SumFunctionOnSet(Fall(k), ops)
<1>1. Congruent(x, y, 2^Width)
  BY BucketsSum
<1>2. SumFunctionOnSet(d, T) = y
  BY DeltasSum
<1>3. DOMAIN c.pos = Replica /\ DOMAIN c.neg = Replica
  BY DEF View, Counter
<1>4. Value(c) = Signed(x)
  BY <1>3, SameSums DEF Value
<1>5. K!WeightIn(ops, k) = Signed(SumFunctionOnSet(d, T))
  <2>1. K!SumFunction(d) = SumFunctionOnSet(d, DOMAIN d)
    BY SameSums
  <2>2. DOMAIN d = T
    OBVIOUS
  <2> HIDE DEF d
  <2> QED
    BY <2>1, <2>2, SameSums DEF K!WeightIn, d
<1> HIDE DEF c, T, d, x, y
<1>6. Signed(x) = Signed(y)
  BY <1>1 DEF Congruent, Signed, Wrap
<1> QED
  BY <1>2, <1>4, <1>5, <1>6 DEF c

\* The weights of a replica, of edges shown or not, are what it knows of them.
WeightsAsKnown ==
  \A r \in Replica, k \in EdgeKey : Value(view[r].edge_weight[k]) = K!WeightIn(Known(r), k)

LEMMA WeightsInductive ==
  /\ Init => LP!IInv /\ Shape /\ WeightInv
  /\ LP!IInv /\ Shape /\ WeightInv /\ [Next \/ ApplyOne]_vars => LP!IInv' /\ Shape' /\ WeightInv'
<1>1. LP!IInv /\ Shape /\ [Next \/ ApplyOne]_vars => LP!IInv' /\ Shape'
  <2> SUFFICES ASSUME LP!IInv, Shape, [Next \/ ApplyOne]_vars
               PROVE  LP!IInv' /\ Shape'
    OBVIOUS
  <2>1. [LP!AnyOrderNext]_LP!vars
    BY StepRefines DEF LP!AnyOrderNext
  <2> QED
    BY <2>1, ShapeKept, LP!NextIInv, ReplicaAssumption, WallClockAssumption
<1> QED
  BY <1>1, InitShape, WeightInvInductive

\* Whatever hosts and networks do, in whatever order operations are applied, every
\* weight is the sum of what the known operations add to it, exactly if the sum
\* fits, whatever may have run over on the way (PnCounter::value, incr and decr;
\* Forest::apply).
THEOREM WeightsMeanKnown == AnyOrderSpec => []WeightsAsKnown
<1>1. LP!IInv /\ Shape /\ WeightInv => WeightsAsKnown
  <2> SUFFICES ASSUME LP!IInv, Shape, WeightInv, NEW r \in Replica, NEW k \in EdgeKey
               PROVE  Value(view[r].edge_weight[k]) = K!WeightIn(Known(r), k)
    BY DEF WeightsAsKnown
  <2>1. view[r] \in View /\ BucketsFollow(view[r], Known(r))
    BY DEF Shape, WeightInv
  <2> QED
    BY <2>1, KnownType, KnownFinite, WeightAsKnown
<1> QED
  BY <1>1, WeightsInductive, PTL DEF AnyOrderSpec

\* Whatever hosts and networks do, replicas that have applied the same operations
\* of p agree on p's bucket of every weight, wrapped or not (PnCounter::incr and
\* decr, Forest::apply).
THEOREM BucketsAlwaysAgree == AnyOrderSpec => []BucketsAgree
<1>1. ASSUME LP!IInv, WeightInv
      PROVE  BucketsAgree
  <2> DEFINE own(r, p) == {s \in Known(r) : s.tag.replica = p}
             tags(r, p) == {t \in applied_tags[r] : t.replica = p}
  <2> SUFFICES ASSUME NEW a \in Replica, NEW b \in Replica, NEW p \in Replica,
                      tags(a, p) = tags(b, p), NEW k \in EdgeKey
               PROVE  /\ view[a].edge_weight[k].pos[p] = view[b].edge_weight[k].pos[p]
                      /\ view[a].edge_weight[k].neg[p] = view[b].edge_weight[k].neg[p]
    BY DEF BucketsAgree
  <2>1. ASSUME NEW q \in Replica, NEW r \in Replica, tags(q, p) = tags(r, p)
        PROVE  own(q, p) \subseteq own(r, p)
    <3>1. \A t \in Known(q) : t.tag \in applied_tags[q]
      BY <1>1 DEF Known, LP!IInv, LP!LogMatchesTags
    <3> QED
      BY <1>1, <2>1, <3>1, KnownByTag
  <2>2. own(a, p) = own(b, p)
    BY <2>1
  <2>3. ASSUME NEW r \in Replica
        PROVE  /\ view[r].edge_weight[k].pos[p] = Bucketed(Rise(k), own(r, p), p)
               /\ view[r].edge_weight[k].neg[p] = Bucketed(Fall(k), own(r, p), p)
    <3>1. /\ view[r].edge_weight[k].pos[p] = Bucketed(Rise(k), Known(r), p)
          /\ view[r].edge_weight[k].neg[p] = Bucketed(Fall(k), Known(r), p)
      BY <1>1 DEF WeightInv, BucketsFollow
    <3>2. Known(r) \in SUBSET StampedOp /\ IsFiniteSet(Known(r))
      BY <1>1, KnownType, KnownFinite
    <3> QED
      BY <3>1, <3>2, OwnOnly
  <2> HIDE DEF own
  <2> QED
    BY <2>2, <2>3
<1> QED
  BY <1>1, WeightsInductive, PTL DEF AnyOrderSpec

-----------------------------------------------------------------------------
\* The graph apart from its weights is what the known operations stand for.

\* What was known where an operation was made.
LEMMA PastIs ==
  ASSUME LP!IInv, NEW p \in Replica, NEW n \in 1..Len(log[p]), log[p][n].tag.replica = p
  PROVE  Pasts[log[p][n].tag] = {log[p][i].tag : i \in 1..(n - 1)}
<1> DEFINE t == log[p][n].tag
<1>1. LP!LogMatchesTags
  BY DEF LP!IInv
<1>2. t \in applied_tags[p]
  BY <1>1 DEF LP!LogMatchesTags
<1>3. Pasts[t] = Past(t)
  BY <1>2 DEF Pasts
<1>4. (CHOOSE i \in 1..Len(log[p]) : log[p][i].tag = t) = n
  BY <1>1 DEF LP!LogMatchesTags
<1>5. t.replica = p
  OBVIOUS
<1> HIDE DEF t
<1>6. Past(t) = {log[p][i].tag : i \in 1..(n - 1)}
  BY <1>4, <1>5, ZenonT(60) DEF Past
<1>7. Pasts[t] = {log[p][i].tag : i \in 1..(n - 1)}
  BY <1>3, <1>6
<1> QED
  BY <1>7 DEF t

\* In every log, what was known where an operation was made is before it.
LEMMA PastIsBefore ==
  ASSUME LP!PrefixInv, NEW r \in Replica, NEW j \in 1..Len(log[r]), NEW t \in Pasts[log[r][j].tag]
  PROVE  \E i \in 1..(j - 1) : log[r][i].tag = t
<1> DEFINE s == log[r][j]
           p == s.tag.replica
<1>1. LP!IInv /\ LP!CausalLogs
  BY DEF LP!PrefixInv
<1>2. p \in Replica /\ \E n \in 1..Len(log[p]) : log[p][n] = s
  BY <1>1, LP!OriginHasIt, ReplicaAssumption, WallClockAssumption
<1>3. PICK n \in 1..Len(log[p]) : log[p][n] = s
  BY SMTT(60), <1>2
<1>4. Pasts[s.tag] = {log[p][i].tag : i \in 1..(n - 1)}
  <2>1. Pasts[log[p][n].tag] = {log[p][i].tag : i \in 1..(n - 1)}
    BY <1>1, <1>2, <1>3, PastIs
  <2> QED
    BY SMTT(60), <1>3, <2>1
<1>5. PICK h \in 1..(n - 1) : t = log[p][h].tag
  BY <1>4
<1> QED
  BY <1>1, <1>2, <1>3, <1>5 DEF LP!CausalLogs

\* A node that was removed was removed knowingly.
LEMMA RemovalKnowsAddition ==
  ASSUME LP!PrefixInv, NodeInv, NEW r \in Replica, NEW d \in Known(r), d.op.type = "RemoveNode",
         NEW a \in Known(r), a.op.type = "AddNode", a.op.id = d.op.id
  PROVE  a.tag \in Pasts[d.tag]
<1>1. LP!IInv
  BY DEF LP!PrefixInv
<1>2. PICK j \in 1..Len(log[r]) : d = log[r][j]
  BY DEF Known
<1> DEFINE p == d.tag.replica
<1>3. p \in Replica /\ \E n \in 1..Len(log[p]) : log[p][n] = d
  BY <1>1, <1>2, LP!OriginHasIt, ReplicaAssumption, WallClockAssumption
<1>4. PICK n \in 1..Len(log[p]) : log[p][n] = d
  BY <1>3
<1>5. PICK h \in 1..(n - 1) : log[p][h].op.type = "AddNode" /\ log[p][h].op.id = d.op.id
  BY ZenonT(60), <1>3, <1>4 DEF NodeInv, NodesFirst
<1>6. log[p][h] \in Known(p)
  <2>1. Len(log[p]) \in Nat
    BY <1>1, <1>3 DEF LP!IInv, LP!TypeOK
  <2>2. h \in 1..Len(log[p])
    BY <1>4, <1>5, <2>1
  <2> QED
    BY <2>2 DEF Known
<1>7. log[p][h] = a
  BY SMTT(60), <1>3, <1>5, <1>6 DEF NodeInv, IdsNameAdditions
<1>8. Pasts[log[p][n].tag] = {log[p][i].tag : i \in 1..(n - 1)}
  BY <1>1, <1>3, <1>4, PastIs
<1> QED
  BY <1>4, <1>7, <1>8

\* What a view shows of a node is what the known operations stand for.
LEMMA NodeAsKnown ==
  ASSUME WholeInv, NEW r \in Replica, NEW id \in NodeId
  PROVE  LET v == view[r]
             survives == K!Survives(Known(r), Pasts, "AddNode", "RemoveNode", "id", id)
         IN  /\ Contains(v.nodes, id) /\ v.node_payload[id] # None <=> survives
             /\ survives => v.node_payload[id] = K!PayloadIn(Known(r), id)
<1> DEFINE v == view[r]
           ops == Known(r)
           added == OpsOn(ops, "AddNode", id)
           removed == OpsOn(ops, "RemoveNode", id)
           embeddings == OpsOn(ops, "SetEmbedding", id)
<1>1. LP!PrefixInv /\ LP!IInv /\ Shape /\ NodeInv /\ ViewOK(r)
  BY DEF WholeInv, LP!PrefixInv
<1>2. /\ K!About(ops, "AddNode", "id", id) = added
      /\ K!About(ops, "RemoveNode", "id", id) = removed
      /\ K!About(ops, "SetEmbedding", "id", id) = embeddings
  BY DEF K!About, OpsOn
<1>3. NodeFollows(v, ops, id)
  BY <1>1 DEF NodeInv, ViewsFollowOps
<1>4. /\ v.nodes.adds[id] = {s.tag : s \in added}
      /\ v.nodes.removes[id] = IF removed = {} THEN {} ELSE v.nodes.adds[id]
  BY <1>3, FollowsIs
<1>5. \A a \in added, d \in removed : a.tag \in Pasts[d.tag]
  BY <1>1, RemovalKnowsAddition DEF OpsOn
<1>6. \A a, b \in added : a = b
  BY <1>1 DEF OpsOn, NodeInv, IdsNameAdditions
<1>7. v.nodes.adds[id] # {} => v.node_payload[id] # None
  BY <1>1, NoneAssumption DEF ViewOK
<1> DEFINE survives == K!Survives(ops, Pasts, "AddNode", "RemoveNode", "id", id)
<1>8. survives <=> added # {} /\ removed = {}
  BY <1>2, <1>5 DEF K!Survives
<1>9. Contains(v.nodes, id) <=> added # {} /\ removed = {}
  <2> HIDE DEF added, removed, v
  <2> QED
    BY <1>4 DEF Contains
<1>10. Contains(v.nodes, id) => v.node_payload[id] # None
  BY <1>7 DEF Contains
<1>11. ASSUME added # {}
       PROVE  v.node_payload[id] = K!PayloadIn(ops, id)
  <2>1. PICK a \in added : TRUE
    BY <1>11
  <2>2. K!Latest(added) = a
    BY <1>6, <2>1 DEF K!Latest
  <2>3. CASE embeddings = {}
    <3>1. v.node_payload[id] = a.op.payload
      BY <1>3, <2>1, <2>3, FollowsIs
    <3> QED
      BY <1>2, <2>2, <2>3, <3>1 DEF K!PayloadIn
  <2>4. CASE embeddings # {}
    <3>1. PICK e \in embeddings :
            /\ \A d \in embeddings : d = e \/ TagLT(d.tag, e.tag)
            /\ v.node_payload[id] = [a.op.payload EXCEPT !.embedding = e.op.embedding]
      BY <1>3, <2>1, <2>4, FollowsIs
    <3>2. \A d \in embeddings : d.tag \in Tag
      <4>1. ops \in SUBSET StampedOp
        BY <1>1, KnownType
      <4> HIDE DEF ops
      <4> QED
        BY <4>1 DEF OpsOn, StampedOp
    <3>3. K!Latest(embeddings) = e
      <4>1. \A d \in embeddings : (\A t \in embeddings : t = d \/ K!TagLT(t.tag, d.tag)) => d = e
        BY <3>1, <3>2, TagOrder DEF K!TagLT, TagLT, K!HlcLT, HlcLT
      <4>2. \A d \in embeddings : d = e \/ K!TagLT(d.tag, e.tag)
        BY <3>1 DEF K!TagLT, TagLT, K!HlcLT, HlcLT
      <4> HIDE DEF embeddings
      <4> QED
        BY <4>1, <4>2 DEF K!Latest
    <3> QED
      BY <1>2, <2>2, <2>4, <3>1, <3>3 DEF K!PayloadIn
  <2> QED
    BY <2>3, <2>4
<1> HIDE DEF v, added, removed, ops
<1>12. /\ Contains(v.nodes, id) /\ v.node_payload[id] # None <=> survives
       /\ survives => v.node_payload[id] = K!PayloadIn(ops, id)
  BY <1>8, <1>9, <1>10, <1>11
<1> QED
  BY <1>12 DEF v, ops

\* The additions of an edge in a log, and those that a removal comes after.
IsRemoval(s, k) == s.op.type = "RemoveEdge" /\ s.op.key = k
Additions(l, k) == {i \in 1..Len(l) : l[i].op.type = "AddEdge" /\ l[i].op.key = k}
Removed(l, k) == {i \in Additions(l, k) : \E j \in (i + 1)..Len(l) : IsRemoval(l[j], k)}

\* What a view holds of an edge follows from the log it was built from.
EdgeFollows(v, l, k) ==
  /\ v.edges.adds[k] = {l[i].tag : i \in Additions(l, k)}
  /\ v.edges.removes[k] = {l[i].tag : i \in Removed(l, k)}

\* Applying an operation carries that on.
LEMMA EdgeStep ==
  ASSUME NEW v \in View, NEW l \in Seq(StampedOp), NEW s \in StampedOp, NEW k \in EdgeKey,
         EdgeFollows(v, l, k)
  PROVE  EdgeFollows(Materialize(v, s), Append(l, s), k)
<1> DEFINE w == Materialize(v, s)
           m == Append(l, s)
           n == Len(l) + 1
           adds == s.op.type = "AddEdge" /\ s.op.key = k
<1>1. /\ Len(l) \in Nat /\ Len(m) = n /\ m[n] = s
      /\ \A i \in 1..Len(l) : m[i] = l[i]
  OBVIOUS
<1>2. Additions(m, k) = IF adds THEN Additions(l, k) \cup {n} ELSE Additions(l, k)
  <2> HIDE DEF m
  <2>1. 1..n = 1..Len(l) \cup {n}
    BY <1>1
  <2> QED
    BY <1>1, <2>1 DEF Additions
<1>3. Removed(m, k) = IF IsRemoval(s, k) THEN Additions(l, k) ELSE Removed(l, k)
  <2>1. ~ (adds /\ IsRemoval(s, k))
    BY DEF IsRemoval
  <2>2. \A i \in Additions(l, k) : i \in Nat /\ i < n
    BY <1>1 DEF Additions
  <2>3. \A j : j \in (n + 1)..n => FALSE
    BY <1>1
  <2>4. \A i \in Additions(l, k) : (\E j \in (i + 1)..n : IsRemoval(m[j], k))
                                   <=> IsRemoval(s, k) \/ \E j \in (i + 1)..Len(l) : IsRemoval(l[j], k)
    <3> SUFFICES ASSUME NEW i \in Additions(l, k)
                 PROVE  (\E j \in (i + 1)..n : IsRemoval(m[j], k))
                          <=> IsRemoval(s, k) \/ \E j \in (i + 1)..Len(l) : IsRemoval(l[j], k)
      OBVIOUS
    <3>1. (i + 1)..n = (i + 1)..Len(l) \cup {n} /\ (i + 1)..Len(l) \subseteq 1..Len(l)
      BY <1>1, <2>2 DEF Additions
    <3> HIDE DEF m, IsRemoval, n
    <3> QED
      BY <1>1, <3>1
  <2> HIDE DEF m, IsRemoval, n, adds
  <2>5. CASE adds
    <3>1. n \notin Removed(m, k)
      BY <1>1, <2>3 DEF Removed
    <3> QED
      BY <1>1, <1>2, <2>1, <2>4, <2>5, <3>1 DEF Removed
  <2>6. CASE ~ adds
    BY <1>1, <1>2, <2>4, <2>6 DEF Removed
  <2> QED
    BY <2>5, <2>6
<1>4. /\ w.edges.adds[k] = IF adds THEN v.edges.adds[k] \cup {s.tag} ELSE v.edges.adds[k]
      /\ w.edges.removes[k] = IF IsRemoval(s, k) THEN v.edges.removes[k] \cup v.edges.adds[k]
                              ELSE v.edges.removes[k]
  <2>1. v.edges \in TaggedSet(EdgeKey)
    BY DEF View
  <2>2. CASE s.op.type = "AddEdge"
    <3>1. w.edges = Add(v.edges, s.op.key, s.tag) /\ s.op.key \in EdgeKey
      BY <2>2, EdgeEffect DEF StampedOp, Operation
    <3> HIDE DEF w
    <3>2. /\ w.edges.adds = [v.edges.adds EXCEPT ![s.op.key] = @ \cup {s.tag}]
          /\ w.edges.removes = v.edges.removes
      BY <2>1, <3>1 DEF Add, TaggedSet
    <3>3. v.edges.adds \in [EdgeKey -> SUBSET Tag] /\ v.edges.removes \in [EdgeKey -> SUBSET Tag]
      BY <2>1 DEF TaggedSet
    <3>4. CASE s.op.key = k
      BY <2>2, <3>1, <3>2, <3>3, <3>4 DEF IsRemoval
    <3>5. CASE s.op.key # k
      BY <2>2, <3>1, <3>2, <3>3, <3>5 DEF IsRemoval
    <3> QED
      BY <3>4, <3>5
  <2>3. CASE s.op.type = "RemoveEdge"
    <3>1. w.edges = Remove(v.edges, s.op.key) /\ s.op.key \in EdgeKey
      BY <2>3, EdgeEffect DEF StampedOp, Operation
    <3> HIDE DEF w
    <3>2. /\ w.edges.adds = v.edges.adds
          /\ w.edges.removes = [v.edges.removes EXCEPT ![s.op.key] = @ \cup v.edges.adds[s.op.key]]
      BY <2>1, <3>1 DEF Remove, TaggedSet
    <3>3. v.edges.adds \in [EdgeKey -> SUBSET Tag] /\ v.edges.removes \in [EdgeKey -> SUBSET Tag]
      BY <2>1 DEF TaggedSet
    <3>4. CASE s.op.key = k
      BY <2>3, <3>1, <3>2, <3>3, <3>4 DEF IsRemoval
    <3>5. CASE s.op.key # k
      BY <2>3, <3>1, <3>2, <3>3, <3>5 DEF IsRemoval
    <3> QED
      BY <3>4, <3>5
  <2>4. CASE s.op.type \in {"AddNode", "RemoveNode", "SetEmbedding", "Reinforce", "Decay"}
    <3>1. w.edges = v.edges
      <4>1. CASE s.op.type = "AddNode"
        BY <4>1, AddNodeEffect
      <4>2. CASE s.op.type = "RemoveNode"
        BY <4>2, RemoveNodeEffect DEF View
      <4>3. CASE s.op.type = "SetEmbedding"
        BY <4>3, SetEmbeddingEffect
      <4>4. CASE s.op.type \in {"Reinforce", "Decay"}
        BY <4>4, EdgeEffect
      <4> QED
        BY <2>4, <4>1, <4>2, <4>3, <4>4
    <3> QED
      BY <2>4, <3>1 DEF IsRemoval
  <2> QED
    BY <2>2, <2>3, <2>4, MaterializeType
<1>5. /\ {m[i].tag : i \in Additions(l, k)} = {l[i].tag : i \in Additions(l, k)}
      /\ {m[i].tag : i \in Removed(l, k)} = {l[i].tag : i \in Removed(l, k)}
      /\ Removed(l, k) \subseteq Additions(l, k)
  <2>1. Additions(l, k) \subseteq 1..Len(l) /\ Removed(l, k) \subseteq 1..Len(l)
    BY DEF Additions, Removed
  <2> HIDE DEF m
  <2> QED
    BY <1>1, <2>1 DEF Removed
<1> HIDE DEF w, m, n, adds
<1>6. w.edges.adds[k] = {m[i].tag : i \in Additions(m, k)}
  BY ZenonT(60), <1>1, <1>2, <1>4, <1>5 DEF EdgeFollows
<1>7. w.edges.removes[k] = {m[i].tag : i \in Removed(m, k)}
  BY <1>3, <1>4, <1>5 DEF EdgeFollows
<1> QED
  BY <1>6, <1>7 DEF EdgeFollows, w, m

\* The views of all replicas follow from their logs.
EdgesFollow == \A r \in Replica, k \in EdgeKey : EdgeFollows(view[r], log[r], k)

LEMMA EdgesFollowInductive ==
  /\ Init => EdgesFollow
  /\ LP!IInv /\ Shape /\ EdgesFollow /\ [Next \/ ApplyOne]_vars => EdgesFollow'
<1>1. ASSUME Init
      PROVE  EdgesFollow
  <2>1. \A r \in Replica : view[r] = NewView /\ log[r] = <<>>
    BY <1>1 DEF Init, L!Init
  <2>2. \A k \in EdgeKey : EdgeFollows(NewView, <<>>, k)
    BY DEF EdgeFollows, NewView, NewSet, Additions, Removed
  <2> QED
    BY <2>1, <2>2 DEF EdgesFollow
<1>2. ASSUME LP!IInv, Shape, EdgesFollow, [Next \/ ApplyOne]_vars
      PROVE  EdgesFollow'
  <2> SUFFICES ASSUME NEW r \in Replica, NEW k \in EdgeKey
               PROVE  EdgeFollows(view'[r], log'[r], k)
    BY DEF EdgesFollow, EdgeFollows, Additions, Removed, IsRemoval
  <2>1. EdgeFollows(view[r], log[r], k)
    BY <1>2 DEF EdgesFollow
  <2>2. CASE Quiet
    <3>1. view' = view /\ log' = log
      BY <2>2 DEF Quiet
    <3> QED
      BY <2>1, <3>1
  <2>3. ASSUME NEW q \in Replica, NEW s, Applied(q, s)
        PROVE  EdgeFollows(view'[r], log'[r], k)
    <3>1. log \in [Replica -> Seq(StampedOp)]
      BY <1>2, SameState DEF LP!IInv, LP!TypeOK
    <3>2. CASE r = q
      <4>1. view'[r] = Materialize(view[r], s) /\ log'[r] = Append(log[r], s) /\ s \in StampedOp
        BY <1>2, <2>3, <3>1, <3>2 DEF Applied, Shape
      <4>2. view[r] \in View /\ log[r] \in Seq(StampedOp)
        BY <1>2, <3>1 DEF Shape
      <4>3. EdgeFollows(Materialize(view[r], s), Append(log[r], s), k)
        BY <2>1, <4>1, <4>2, EdgeStep
      <4> QED
        BY <4>1, <4>3
    <3>3. CASE r # q
      <4>1. view'[r] = view[r] /\ log'[r] = log[r]
        BY <1>2, <2>3, <3>1, <3>3 DEF Applied, Shape
      <4> QED
        BY <2>1, <4>1
    <3> QED
      BY <3>2, <3>3
  <2> QED
    BY <1>2, <2>2, <2>3, StepApplies
<1> QED
  BY <1>1, <1>2

\* An edge is shown exactly if the log has an addition with no removal after it.
LEMMA EdgeShown ==
  ASSUME LP!IInv, Shape, EdgesFollow, NEW r \in Replica, NEW k \in EdgeKey
  PROVE  k \in Present(view[r].edges) <=> \E i \in Additions(log[r], k) : i \notin Removed(log[r], k)
<1> DEFINE l == log[r]
           e == view[r].edges
<1>1. DOMAIN e.adds = EdgeKey
  BY DEF Shape, View, TaggedSet
<1>2. e.adds[k] = {l[i].tag : i \in Additions(l, k)} /\ e.removes[k] = {l[i].tag : i \in Removed(l, k)}
  BY DEF EdgesFollow, EdgeFollows
<1>3. \A i, j \in 1..Len(l) : l[i].tag = l[j].tag => i = j
  BY DEF LP!IInv, LP!LogMatchesTags
<1>4. Additions(l, k) \subseteq 1..Len(l) /\ Removed(l, k) \subseteq 1..Len(l)
  BY DEF Additions, Removed
<1>5. \A i \in Additions(l, k) : l[i].tag \in e.removes[k] <=> i \in Removed(l, k)
  BY <1>2, <1>3, <1>4
<1>6. k \in Present(e) <=> e.adds[k] \ e.removes[k] # {}
  BY <1>1 DEF Present, Contains
<1> HIDE DEF e, l
<1>7. k \in Present(e) <=> \E i \in Additions(l, k) : i \notin Removed(l, k)
  BY <1>2, <1>5, <1>6
<1> QED
  BY <1>7 DEF e, l

\* Which edges a replica shows fits what it knows.
LEMMA EdgesAsKnown ==
  ASSUME LP!PrefixInv, Shape, EdgesFollow, NEW r \in Replica
  PROVE  K!PresenceFits(Present(view[r].edges), Known(r), Pasts)
<1> DEFINE l == log[r]
<1>1. LP!IInv /\ Len(l) \in Nat
  BY DEF LP!PrefixInv, LP!IInv, LP!TypeOK
<1>2. \A i, j \in 1..Len(l) : l[i].tag = l[j].tag => i = j
  BY <1>1 DEF LP!IInv, LP!LogMatchesTags
<1>3. \A j \in 1..Len(l) : \A t \in Pasts[l[j].tag] : \E i \in 1..(j - 1) : l[i].tag = t
  BY PastIsBefore
<1>4. Known(r) = {l[i] : i \in 1..Len(l)}
  BY DEF Known
<1> HIDE DEF l
<1>5. ASSUME NEW i \in 1..Len(l), NEW j \in 1..Len(l), l[i].tag \in Pasts[l[j].tag]
      PROVE  i < j
  <2>1. PICK h \in 1..(j - 1) : l[h].tag = l[i].tag
    BY <1>3, <1>5
  <2>2. h = i
    BY <1>1, <1>2, <2>1
  <2> QED
    BY <1>1, <2>1, <2>2
<1> SUFFICES ASSUME NEW k \in EdgeKey
             PROVE  /\ k \in Present(view[r].edges)
                         => K!Survives(Known(r), Pasts, "AddEdge", "RemoveEdge", "key", k)
                    /\ K!Prevails(Known(r), Pasts, "AddEdge", "RemoveEdge", "key", k)
                         => k \in Present(view[r].edges)
  BY DEF K!PresenceFits
<1> DEFINE added   == {s \in Known(r) : s.op.type = "AddEdge" /\ s.op.key = k}
           removed == {s \in Known(r) : s.op.type = "RemoveEdge" /\ s.op.key = k}
<1>6. /\ K!About(Known(r), "AddEdge", "key", k) = added
      /\ K!About(Known(r), "RemoveEdge", "key", k) = removed
  BY DEF K!About
<1>7. k \in Present(view[r].edges) <=> \E i \in Additions(l, k) : i \notin Removed(l, k)
  BY <1>1, EdgeShown DEF l
<1>8. ASSUME NEW i \in Additions(l, k), i \notin Removed(l, k)
      PROVE  K!Survives(Known(r), Pasts, "AddEdge", "RemoveEdge", "key", k)
  <2>1. i \in 1..Len(l) /\ l[i] \in added
    BY <1>4 DEF Additions
  <2>2. ASSUME NEW d \in removed, l[i].tag \in Pasts[d.tag]
        PROVE  FALSE
    <3>1. PICK j \in 1..Len(l) : d = l[j]
      BY <1>4
    <3>2. i < j
      BY <1>5, <2>1, <2>2, <3>1
    <3>3. j \in (i + 1)..Len(l) /\ IsRemoval(l[j], k)
      BY <1>1, <2>1, <3>1, <3>2 DEF IsRemoval
    <3> QED
      BY <1>8, <3>3 DEF Removed
  <2> QED
    BY <1>6, <2>1, <2>2 DEF K!Survives
<1>9. ASSUME K!Prevails(Known(r), Pasts, "AddEdge", "RemoveEdge", "key", k)
      PROVE  \E i \in Additions(l, k) : i \notin Removed(l, k)
  <2>1. PICK a \in added : \A d \in removed : d.tag \in Pasts[a.tag]
    BY <1>6, <1>9 DEF K!Prevails
  <2>2. PICK i \in 1..Len(l) : a = l[i]
    BY <1>4
  <2>3. i \in Additions(l, k)
    BY <2>2 DEF Additions
  <2>4. ASSUME NEW j \in (i + 1)..Len(l), IsRemoval(l[j], k)
        PROVE  FALSE
    <3>1. j \in 1..Len(l) /\ i < j
      BY <1>1, <2>2, <2>4
    <3>2. l[j] \in removed
      BY <1>4, <2>4, <3>1 DEF IsRemoval
    <3>3. l[j].tag \in Pasts[l[i].tag]
      BY <2>1, <2>2, <3>2
    <3>4. j < i
      BY <1>5, <2>2, <3>1, <3>3
    <3> QED
      BY <1>1, <2>2, <3>1, <3>4
  <2> QED
    BY <2>3, <2>4 DEF Removed
<1> QED
  BY <1>7, <1>8, <1>9

\* The whole inductive invariant.
MeantInv == WholeInv /\ EdgesFollow /\ WeightInv

LEMMA MeantInvInductive ==
  /\ Init => MeantInv
  /\ MeantInv /\ [Next]_vars => MeantInv'
<1>1. WholeInv => LP!IInv /\ Shape
  BY DEF WholeInv, LP!PrefixInv
<1> QED
  BY <1>1, WholeInvInductive, EdgesFollowInductive, WeightInvInductive DEF MeantInv

\* A replica shows a graph that its knowledge can mean: the nodes, with their
\* contents, are those added and not removed by anybody, since to remove a node
\* one must know it; an edge shown has an addition that no removal was made in
\* knowledge of, and an edge added in knowledge of all its removals is shown.
LEMMA GraphShown ==
  ASSUME MeantInv, NEW r \in Replica
  PROVE  /\ NodesOf(view[r]) = K!NodesIn(Known(r), Pasts)
         /\ K!PresenceFits(Present(view[r].edges), Known(r), Pasts)
         /\ K!EdgesFit(EdgesOf(view[r]), Known(r), Pasts)
<1>1. WholeInv /\ EdgesFollow /\ WeightInv /\ LP!PrefixInv /\ LP!IInv /\ Shape
  BY DEF MeantInv, WholeInv, LP!PrefixInv
<1>2. K!PresenceFits(Present(view[r].edges), Known(r), Pasts)
  BY <1>1, EdgesAsKnown
<1> DEFINE v == view[r]
           S(id) == K!Survives(Known(r), Pasts, "AddNode", "RemoveNode", "id", id)
           P(id) == K!PayloadIn(Known(r), id)
<1>3. \A id \in NodeId : /\ Contains(v.nodes, id) /\ v.node_payload[id] # None <=> S(id)
                         /\ S(id) => v.node_payload[id] = P(id)
  BY <1>1, NodeAsKnown
<1>4. DOMAIN v.nodes.adds = NodeId /\ DOMAIN v.edges.adds = EdgeKey
  BY <1>1 DEF Shape, View, TaggedSet
<1>5. K!NodesIn(Known(r), Pasts) = [id \in {i \in NodeId : S(i)} |-> P(id)]
  BY DEF K!NodesIn, K!NodeId, NodeId
<1>6. \A k \in EdgeKey : Value(v.edge_weight[k]) = K!WeightIn(Known(r), k)
  BY <1>1, KnownType, KnownFinite, WeightAsKnown DEF Shape, WeightInv
<1> HIDE DEF v, S, P
<1>7. {i \in Present(v.nodes) : v.node_payload[i] # None} = {i \in NodeId : S(i)}
  BY <1>3, <1>4 DEF Present
<1>8. NodesOf(v) = [id \in {i \in NodeId : S(i)} |-> P(id)]
  BY <1>3, <1>7 DEF NodesOf
<1>9. /\ DOMAIN EdgesOf(v) = Present(v.edges)
      /\ \A k \in Present(v.edges) : EdgesOf(v)[k] = K!WeightIn(Known(r), k)
  BY <1>4, <1>6 DEF EdgesOf, Present
<1>10. K!EdgesFit(EdgesOf(v), Known(r), Pasts)
  BY <1>2, <1>9 DEF K!EdgesFit, v
<1> QED
  BY <1>2, <1>5, <1>8, <1>10 DEF v

-----------------------------------------------------------------------------
\* The engines implement the abstract promise, step by step.

\* The operations before the one of a tag in a log.
PastIn(l, t) ==
  LET n == CHOOSE i \in 1..Len(l) : l[i].tag = t
  IN  {l[i].tag : i \in 1..(n - 1)}

\* A log that goes on keeps the pasts of the operations in it ...
LEMMA PastKept ==
  ASSUME NEW l \in Seq(StampedOp), NEW s \in StampedOp,
         \A i, j \in 1..Len(l) : l[i].tag = l[j].tag => i = j,
         \A i \in 1..Len(l) : l[i].tag # s.tag
  PROVE  /\ \A n \in 1..Len(l) : PastIn(Append(l, s), l[n].tag) = PastIn(l, l[n].tag)
         /\ PastIn(Append(l, s), s.tag) = {l[i].tag : i \in 1..Len(l)}
<1> DEFINE m == Append(l, s)
<1>1. /\ Len(l) \in Nat /\ Len(m) = Len(l) + 1 /\ m[Len(l) + 1] = s
      /\ \A i \in 1..Len(l) : m[i] = l[i]
  OBVIOUS
<1> HIDE DEF m
<1>2. ASSUME NEW n \in 1..Len(l)
      PROVE  PastIn(m, l[n].tag) = PastIn(l, l[n].tag)
  <2>1. (CHOOSE i \in 1..Len(l) : l[i].tag = l[n].tag) = n
    OBVIOUS
  <2>2. (CHOOSE i \in 1..Len(m) : m[i].tag = l[n].tag) = n
    <3>1. \A i \in 1..Len(m) : m[i].tag = l[n].tag <=> i = n
      BY <1>1, <1>2
    <3>2. n \in 1..Len(m)
      BY <1>1, <1>2
    <3> QED
      BY <3>1, <3>2
  <2>3. {m[i].tag : i \in 1..(n - 1)} = {l[i].tag : i \in 1..(n - 1)}
    <3>1. \A i \in 1..(n - 1) : m[i] = l[i]
      BY <1>1, <1>2
    <3> QED
      BY <3>1
  <2> QED
    BY <2>1, <2>2, <2>3 DEF PastIn
<1>3. PastIn(m, s.tag) = {l[i].tag : i \in 1..Len(l)}
  <2>1. (CHOOSE i \in 1..Len(m) : m[i].tag = s.tag) = Len(l) + 1
    <3>1. \A i \in 1..Len(m) : m[i].tag = s.tag <=> i = Len(l) + 1
      BY <1>1
    <3>2. Len(l) + 1 \in 1..Len(m)
      BY <1>1
    <3> QED
      BY <3>1, <3>2
  <2>2. {m[i].tag : i \in 1..((Len(l) + 1) - 1)} = {l[i].tag : i \in 1..Len(l)}
    <3>1. (Len(l) + 1) - 1 = Len(l)
      BY <1>1
    <3> QED
      BY <1>1, <3>1
  <2> QED
    BY <2>1, <2>2 DEF PastIn
<1> QED
  BY <1>2, <1>3 DEF m

\* ... so that an operation is new or has the past it always had.
LEMMA PastsGrow ==
  ASSUME LP!IInv, NEW r \in Replica, NEW s, Applied(r, s), Local(r, s) \/ Remote(r, s)
  PROVE  /\ Local(r, s) =>
              /\ s.tag \notin DOMAIN Pasts
              /\ Pasts' = [t \in DOMAIN Pasts \cup {s.tag} |->
                             IF t = s.tag THEN {u.tag : u \in Known(r)} ELSE Pasts[t]]
         /\ Remote(r, s) => Pasts' = Pasts
<1> DEFINE D == UNION {applied_tags[q] : q \in Replica}
<1>1. /\ log \in [Replica -> Seq(StampedOp)] /\ applied_tags \in [Replica -> SUBSET Tag]
      /\ \A q \in Replica : \A i, j \in 1..Len(log[q]) : log[q][i].tag = log[q][j].tag => i = j
      /\ \A q \in Replica : applied_tags[q] = {log[q][i].tag : i \in 1..Len(log[q])}
  BY SameState DEF LP!IInv, LP!TypeOK, LP!LogMatchesTags
<1>2. \A t \in D : t.replica \in Replica /\ \E n \in 1..Len(log[t.replica]) : log[t.replica][n].tag = t
  <2> SUFFICES ASSUME NEW q \in Replica, NEW t \in applied_tags[q]
               PROVE  t.replica \in Replica /\ \E n \in 1..Len(log[t.replica]) : log[t.replica][n].tag = t
    OBVIOUS
  <2>1. PICK i \in 1..Len(log[q]) : log[q][i].tag = t
    BY <1>1
  <2>2. t.replica \in Replica /\ \E n \in 1..Len(log[t.replica]) : log[t.replica][n] = log[q][i]
    BY <2>1, LP!OriginHasIt, ReplicaAssumption, WallClockAssumption
  <2> QED
    BY <2>1, <2>2
<1>3. DOMAIN Pasts = D /\ \A t \in D : Pasts[t] = PastIn(log[t.replica], t)
  BY DEF Pasts, Past, PastIn
<1>4. /\ s \in StampedOp /\ s.tag \notin applied_tags[r]
      /\ \A q \in Replica : applied_tags'[q] = IF q = r THEN applied_tags[r] \cup {s.tag} ELSE applied_tags[q]
      /\ \A q \in Replica : log'[q] = IF q = r THEN Append(log[r], s) ELSE log[q]
  BY <1>1 DEF Applied
<1>5. D' = D \cup {s.tag}
  BY <1>4
<1>6. Pasts' = [t \in D' |-> PastIn(log'[t.replica], t)]
  BY DEF Pasts, Past, PastIn
<1>7. /\ \A n \in 1..Len(log[r]) : PastIn(Append(log[r], s), log[r][n].tag) = PastIn(log[r], log[r][n].tag)
      /\ PastIn(Append(log[r], s), s.tag) = {log[r][i].tag : i \in 1..Len(log[r])}
  <2>1. /\ log[r] \in Seq(StampedOp)
        /\ \A i, j \in 1..Len(log[r]) : log[r][i].tag = log[r][j].tag => i = j
        /\ \A i \in 1..Len(log[r]) : log[r][i].tag # s.tag
    BY <1>1, <1>4
  <2> HIDE DEF D
  <2> QED
    BY <1>4, <2>1, PastKept
<1> HIDE DEF D
<1>8. \A t \in D : PastIn(log'[t.replica], t) = Pasts[t]
  <2> SUFFICES ASSUME NEW t \in D
               PROVE  PastIn(log'[t.replica], t) = PastIn(log[t.replica], t)
    BY <1>3
  <2>1. PICK n \in 1..Len(log[t.replica]) : log[t.replica][n].tag = t
    BY <1>2
  <2>2. CASE t.replica = r
    BY <1>4, <1>7, <2>1, <2>2
  <2>3. CASE t.replica # r
    BY <1>2, <1>4, <2>3
  <2> QED
    BY <2>2, <2>3
<1>9. ASSUME Local(r, s)
      PROVE  /\ s.tag \notin DOMAIN Pasts
             /\ Pasts' = [t \in DOMAIN Pasts \cup {s.tag} |->
                            IF t = s.tag THEN {u.tag : u \in Known(r)} ELSE Pasts[t]]
  <2>1. s.tag.replica = r
    BY <1>9 DEF Local
  <2>2. s.tag \notin D
    <3>1. \A n \in 1..Len(log[r]) : log[r][n].tag # s.tag
      <4>1. s.tag \notin {log[r][n].tag : n \in 1..Len(log[r])}
        BY <1>1, <1>4
      <4> QED
        BY <4>1
    <3> SUFFICES ASSUME s.tag \in D PROVE FALSE
      OBVIOUS
    <3>2. PICK n \in 1..Len(log[s.tag.replica]) : log[s.tag.replica][n].tag = s.tag
      BY <1>2
    <3> QED
      BY <2>1, <3>1, <3>2
  <2>3. {u.tag : u \in Known(r)} = {log[r][i].tag : i \in 1..Len(log[r])}
    BY DEF Known
  <2>4. PastIn(log'[s.tag.replica], s.tag) = {u.tag : u \in Known(r)}
    BY <1>4, <1>7, <2>1, <2>3
  <2> QED
    BY <1>3, <1>5, <1>6, <1>8, <2>2, <2>4
<1>10. ASSUME Remote(r, s)
       PROVE  Pasts' = Pasts
  <2>1. s.tag \in D
    <3>1. \E q \in Replica : \E i \in 1..Len(log[q]) : s = log[q][i]
      BY <1>10 DEF Remote
    <3> QED
      BY <1>1, <3>1 DEF D
  <2>2. Pasts' = [t \in D |-> Pasts[t]]
    BY <1>5, <1>6, <1>8, <2>1
  <2>3. Pasts = [t \in D |-> Pasts[t]]
    BY <1>3 DEF Pasts
  <2> QED
    BY <2>2, <2>3
<1> QED
  BY <1>9, <1>10

\* What every replica shows is what its knowledge means.
AllShown ==
  \A r \in Replica : /\ NodesOf(view[r]) = K!NodesIn(Known(r), Pasts)
                      /\ K!EdgesFit(EdgesOf(view[r]), Known(r), Pasts)

\* A step of the engines is a step of the promise, or changes nothing it is about.
LEMMA StepMeant ==
  ASSUME MeantInv, AllShown', [Next]_vars
  PROVE  [K!Next]_K!vars
<1> DEFINE known == [q \in Replica |-> Known(q)]
           shown == [q \in Replica |-> Shown(q)]
<1>1. LP!PrefixInv /\ LP!IInv /\ Shape
  BY DEF MeantInv, WholeInv, LP!PrefixInv
<1>2. CASE Quiet
  <2>1. applied_tags' = applied_tags /\ log' = log /\ view' = view
    BY <1>2 DEF Quiet
  <2>2. known' = known /\ shown' = shown /\ Pasts' = Pasts
    BY <2>1 DEF Known, Shown, Pasts, Past
  <2> QED
    BY <2>2 DEF K!vars
<1>3. ASSUME NEW r \in Replica, NEW s, Applied(r, s), Local(r, s) \/ Remote(r, s)
      PROVE  K!Next
  <2>1. /\ Known(r)' = Known(r) \cup {s} /\ s \notin Known(r)
        /\ \A q \in Replica : q # r => Known(q)' = Known(q)
    BY <1>1, <1>3, KnownGrows
  <2>2. \A q \in Replica : q # r => view'[q] = view[q]
    BY <1>1, <1>3 DEF Applied, Shape
  <2>3. /\ NodesOf(view'[r]) = K!NodesIn(Known(r)', Pasts')
        /\ K!EdgesFit(EdgesOf(view'[r]), Known(r)', Pasts')
    BY DEF AllShown
  <2>4. known'[r] = Known(r)' /\ known' = [known EXCEPT ![r] = @ \cup {s}]
    BY <2>1
  <2>5. /\ shown'[r].nodes = NodesOf(view'[r]) /\ shown'[r].edges = EdgesOf(view'[r])
        /\ \A q \in Replica \ {r} : shown'[q] = shown[q]
    BY <2>2 DEF Shown
  <2>6. K!Shows(r)
    BY <2>3, <2>4, <2>5 DEF K!Shows
  <2>7. CASE Local(r, s)
    <3>1. s.tag.replica = r /\ s \in known'[r]
      BY <2>1, <2>4, <2>7 DEF Local
    <3>2. /\ s.tag \notin DOMAIN Pasts
          /\ Pasts' = [t \in DOMAIN Pasts \cup {s.tag} |->
                         IF t = s.tag THEN K!TagsOf(known[r]) ELSE Pasts[t]]
      BY <1>1, <1>3, <2>7, PastsGrow DEF K!TagsOf
    <3>3. K!Make(r)
      BY <2>4, <2>6, <3>1, <3>2 DEF K!Make
    <3> QED
      BY <3>3 DEF K!Next
  <2>8. CASE Remote(r, s)
    <3>1. \E q \in Replica : s \in known[q]
      BY <2>8 DEF Remote, Known
    <3>2. Pasts' = Pasts
      BY <1>1, <1>3, <2>8, PastsGrow
    <3>3. K!Learn(r)
      BY <2>4, <2>6, <3>1, <3>2 DEF K!Learn
    <3> QED
      BY <3>3 DEF K!Next
  <2> QED
    BY <1>3, <2>7, <2>8
<1> QED
  BY <1>1, <1>2, <1>3, StepApplies

\* Whatever hosts and networks do, as long as whole logs are shipped, a group of
\* engines behaves as Knowledge promises: what an engine shows changes only when it
\* makes or learns an operation, and then to a graph its knowledge can mean, the
\* contents of the nodes and every weight included (Forest::apply, sle-sync).
THEOREM ImplementsKnowledge == Spec => ShowsWhatIsKnown
<1>1. Init => K!Init
  <2> SUFFICES ASSUME Init PROVE K!Init
    OBVIOUS
  <2>1. \A r \in Replica : log[r] = <<>> /\ applied_tags[r] = {} /\ view[r] = NewView
    BY DEF Init, L!Init
  <2>2. \A r \in Replica : Known(r) = {}
    BY <2>1 DEF Known
  <2>3. Pasts = <<>>
    <3>1. DOMAIN Pasts = {}
      BY <2>1 DEF Pasts
    <3>2. Pasts = [t \in {} |-> Pasts[t]]
      BY <3>1 DEF Pasts
    <3> QED
      BY <3>2
  <2>4. EdgesOf(NewView) = <<>>
    <3>1. Present(NewView.edges) = {}
      BY DEF Present, Contains, NewView, NewSet
    <3> QED
      BY <3>1 DEF EdgesOf
  <2>5. \A r \in Replica : NodesOf(view[r]) = K!NodesIn({}, <<>>)
    BY <2>2, <2>3, MeantInvInductive, GraphShown
  <2> QED
    BY <2>1, <2>2, <2>3, <2>4, <2>5 DEF K!Init, Shown
<1>2. MeantInv => AllShown
  BY GraphShown DEF AllShown
<1>3. MeantInv /\ AllShown' /\ [Next]_vars => [K!Next]_K!vars
  BY StepMeant
<1> QED
  BY <1>1, <1>2, <1>3, MeantInvInductive, PTL DEF Spec, ShowsWhatIsKnown, K!Spec

-----------------------------------------------------------------------------
\* Merging the states of two replicas is as good as exchanging operations.

\* An operation has a place in its maker's log, and who knows it knows what its
\* maker had before it.
LEMMA KnownBefore ==
  ASSUME LP!PrefixInv, NEW q \in Replica, NEW y \in Known(q)
  PROVE  LET p == y.tag.replica
         IN  /\ p \in Replica
             /\ \E m \in 1..Len(log[p]) :
                  /\ log[p][m] = y
                  /\ \A n \in 1..(m - 1) : log[p][n].tag \in applied_tags[q]
<1> DEFINE p == y.tag.replica
<1>1. LP!IInv /\ LP!CausalLogs /\ LP!LogMatchesTags
  BY DEF LP!PrefixInv, LP!IInv
<1>2. Len(log[q]) \in Nat
  BY <1>1 DEF LP!IInv, LP!TypeOK
<1>3. PICK j \in 1..Len(log[q]) : y = log[q][j]
  BY DEF Known
<1>4. p \in Replica /\ \E m \in 1..Len(log[p]) : log[p][m] = y
  BY <1>1, <1>3, LP!OriginHasIt, ReplicaAssumption, WallClockAssumption
<1>5. PICK m \in 1..Len(log[p]) : log[p][m] = y
  BY SMTT(60), <1>4
<1>6. \A n \in 1..(m - 1) : \E h \in 1..(j - 1) : log[q][h].tag = log[p][n].tag
  BY ZenonT(60), <1>1, <1>3, <1>4, <1>5 DEF LP!CausalLogs
<1> HIDE DEF p
<1>7. \A h \in 1..(j - 1) : log[q][h].tag \in applied_tags[q]
  <2> TAKE h \in 1..(j - 1)
  <2>1. h \in 1..Len(log[q])
    BY <1>2
  <2> QED
    BY <1>1, <2>1 DEF LP!LogMatchesTags
<1>8. \A n \in 1..(m - 1) : log[p][n].tag \in applied_tags[q]
  BY <1>6, <1>7
<1> QED
  BY <1>4, <1>5, <1>8 DEF p

\* Of two replicas, one knows all the operations of p that the other one knows.
LEMMA OwnNested ==
  ASSUME LP!PrefixInv, NEW a \in Replica, NEW b \in Replica,
         NEW x \in Known(a), x \notin Known(b),
         NEW y \in Known(b), y.tag.replica = x.tag.replica
  PROVE  y \in Known(a)
<1> DEFINE p == x.tag.replica
<1>1. LP!IInv
  BY DEF LP!PrefixInv
<1>2. p \in Replica /\ Len(log[p]) \in Nat
  BY <1>1, KnownBefore DEF LP!IInv, LP!TypeOK
<1>3. PICK n \in 1..Len(log[p]) :
        /\ log[p][n] = x
        /\ \A h \in 1..(n - 1) : log[p][h].tag \in applied_tags[a]
  BY KnownBefore
<1>4. PICK m \in 1..Len(log[p]) :
        /\ log[p][m] = y
        /\ \A h \in 1..(m - 1) : log[p][h].tag \in applied_tags[b]
  <2>1. \E m \in 1..Len(log[y.tag.replica]) :
          /\ log[y.tag.replica][m] = y
          /\ \A h \in 1..(m - 1) : log[y.tag.replica][h].tag \in applied_tags[b]
    BY KnownBefore
  <2>2. y.tag.replica = p
    OBVIOUS
  <2> HIDE DEF p
  <2> QED
    BY <2>1, <2>2
<1>5. x.tag \notin applied_tags[b]
  BY <1>1, KnownByTag
<1> HIDE DEF p
<1>6. ~ (n \in 1..(m - 1))
  BY <1>3, <1>4, <1>5
<1>7. n # m
  BY <1>3, <1>4
<1>8. m \in 1..(n - 1)
  BY <1>2, <1>6, <1>7
<1>9. y.tag \in applied_tags[a]
  BY <1>3, <1>4, <1>8
<1> QED
  BY <1>1, <1>9, KnownByTag

\* Nodes: an addition that either one knows counts unless either one knows of
\* its removal.
LEMMA NodesMerged ==
  ASSUME WholeInv, NEW a \in Replica, NEW b \in Replica
  PROVE  Present(MergeSets(view[a].nodes, view[b].nodes))
           = DOMAIN K!NodesIn(Known(a) \cup Known(b), Pasts)
<1> DEFINE both == Known(a) \cup Known(b)
           m == MergeSets(view[a].nodes, view[b].nodes)
           S(id) == K!Survives(both, Pasts, "AddNode", "RemoveNode", "id", id)
<1>1. LP!PrefixInv /\ LP!IInv /\ Shape /\ NodeInv
  BY DEF WholeInv, LP!PrefixInv
<1>2. /\ DOMAIN view[a].nodes.adds = NodeId
      /\ DOMAIN m.adds = NodeId
      /\ \A id \in NodeId : /\ m.adds[id] = view[a].nodes.adds[id] \cup view[b].nodes.adds[id]
                            /\ m.removes[id] = view[a].nodes.removes[id] \cup view[b].nodes.removes[id]
  BY <1>1 DEF Shape, View, TaggedSet, MergeSets
<1>3. DOMAIN K!NodesIn(both, Pasts) = {id \in NodeId : S(id)}
  BY DEF K!NodesIn, K!NodeId, NodeId
<1> HIDE DEF m
<1>4. ASSUME NEW id \in NodeId
      PROVE  Contains(m, id) <=> S(id)
  <2> DEFINE added(q) == OpsOn(Known(q), "AddNode", id)
             removed(q) == OpsOn(Known(q), "RemoveNode", id)
  <2>1. ASSUME NEW q \in {a, b}
        PROVE  /\ view[q].nodes.adds[id] = {s.tag : s \in added(q)}
               /\ view[q].nodes.removes[id] = IF removed(q) = {} THEN {} ELSE view[q].nodes.adds[id]
    <3>1. NodeFollows(view[q], Known(q), id)
      BY <1>1, <1>4, <2>1 DEF NodeInv, ViewsFollowOps
    <3> QED
      BY <3>1, FollowsIs
  <2>2. ASSUME NEW q \in {a, b}, NEW r \in {a, b}, NEW x \in added(q), NEW y \in added(r)
        PROVE  x = y
    BY <1>1, <2>2 DEF OpsOn, NodeInv, IdsNameAdditions
  <2>3. ASSUME NEW q \in {a, b}, NEW d \in removed(q)
        PROVE  /\ added(q) # {}
               /\ \A x \in added(q) : x.tag \in Pasts[d.tag]
    <3>1. d \in Known(q) /\ d.op.type = "RemoveNode" /\ d.op.id = id
      BY <2>3 DEF OpsOn
    <3>2. PICK i \in 1..Len(log[q]) : d = log[q][i]
      BY <3>1 DEF Known
    <3>3. PICK j \in 1..(i - 1) : log[q][j].op.type = "AddNode" /\ log[q][j].op.id = id
      BY <1>1, <2>3, <3>1, <3>2 DEF NodeInv, NodesFirst
    <3>4. j \in 1..Len(log[q])
      BY <1>1, <2>3 DEF LP!IInv, LP!TypeOK
    <3>5. log[q][j] \in added(q)
      BY <3>3, <3>4 DEF OpsOn, Known
    <3>6. \A x \in added(q) : x.tag \in Pasts[d.tag]
      BY <1>1, <2>3, <3>1, RemovalKnowsAddition DEF OpsOn
    <3> QED
      BY <3>5, <3>6
  <2>4. /\ K!About(both, "AddNode", "id", id) = added(a) \cup added(b)
        /\ K!About(both, "RemoveNode", "id", id) = removed(a) \cup removed(b)
    BY DEF K!About, OpsOn
  <2> HIDE DEF added, removed, both
  <2>5. \A x \in added(a) \cup added(b), d \in removed(a) \cup removed(b) : x.tag \in Pasts[d.tag]
    <3> SUFFICES ASSUME NEW x \in added(a) \cup added(b), NEW q \in {a, b}, NEW d \in removed(q)
                 PROVE  x.tag \in Pasts[d.tag]
      OBVIOUS
    <3>1. PICK y \in added(q) : y.tag \in Pasts[d.tag]
      BY <2>3
    <3>2. x = y
      BY <2>2, <3>1
    <3> QED
      BY <3>1, <3>2
  <2>6. S(id) <=> added(a) \cup added(b) # {} /\ removed(a) = {} /\ removed(b) = {}
    BY <2>4, <2>5 DEF K!Survives
  <2>7. Contains(m, id) <=> (view[a].nodes.adds[id] \cup view[b].nodes.adds[id])
                              \ (view[a].nodes.removes[id] \cup view[b].nodes.removes[id]) # {}
    BY <1>2, <1>4 DEF Contains
  <2>8. CASE removed(a) = {} /\ removed(b) = {}
    BY <2>1, <2>6, <2>7, <2>8
  <2>9. ASSUME NEW q \in {a, b}, removed(q) # {}
        PROVE  ~ Contains(m, id)
    <3>1. view[q].nodes.removes[id] = view[q].nodes.adds[id] /\ added(q) # {}
      BY <2>1, <2>3, <2>9
    <3>2. \A t \in view[a].nodes.adds[id] \cup view[b].nodes.adds[id] : t \in view[q].nodes.adds[id]
      BY <2>1, <2>2, <3>1
    <3> QED
      BY <2>7, <3>1, <3>2
  <2> QED
    BY <2>6, <2>8, <2>9
<1>5. Present(m) = {id \in NodeId : S(id)}
  BY <1>2, <1>4 DEF Present
<1> QED
  BY <1>3, <1>5 DEF m

\* An operation with the tag of a known one is that one.
LEMMA SameTagSameOp ==
  ASSUME LP!IInv, NEW q \in Replica, NEW r \in Replica, NEW x \in Known(q),
         NEW i \in 1..Len(log[r]), log[r][i].tag = x.tag
  PROVE  log[r][i] = x
<1>1. LP!TagsIdentifyOps
  BY LP!TagsIdentify, ReplicaAssumption, WallClockAssumption
<1>2. PICK j \in 1..Len(log[q]) : x = log[q][j]
  BY DEF Known
<1> QED
  BY <1>1, <1>2 DEF LP!TagsIdentifyOps

\* Edges: the merged set shows an edge that the operations of both may stand for,
\* and one that they must stand for.
LEMMA EdgesMerged ==
  ASSUME LP!PrefixInv, Shape, EdgesFollow, NEW a \in Replica, NEW b \in Replica
  PROVE  K!PresenceFits(Present(MergeSets(view[a].edges, view[b].edges)),
                        Known(a) \cup Known(b), Pasts)
<1> DEFINE both == Known(a) \cup Known(b)
           m == MergeSets(view[a].edges, view[b].edges)
<1>1. LP!IInv
  BY DEF LP!PrefixInv
<1>2. /\ DOMAIN m.adds = EdgeKey
      /\ \A k \in EdgeKey : /\ m.adds[k] = view[a].edges.adds[k] \cup view[b].edges.adds[k]
                            /\ m.removes[k] = view[a].edges.removes[k] \cup view[b].edges.removes[k]
  BY DEF Shape, View, TaggedSet, MergeSets
<1>3. \A q \in Replica, k \in EdgeKey :
        /\ view[q].edges.adds[k] = {log[q][i].tag : i \in Additions(log[q], k)}
        /\ view[q].edges.removes[k] = {log[q][i].tag : i \in Removed(log[q], k)}
  BY DEF EdgesFollow, EdgeFollows
<1>4. \A q \in Replica :
        /\ Len(log[q]) \in Nat
        /\ \A i, j \in 1..Len(log[q]) : log[q][i].tag = log[q][j].tag => i = j
  BY <1>1 DEF LP!IInv, LP!TypeOK, LP!LogMatchesTags
<1> SUFFICES ASSUME NEW k \in EdgeKey
             PROVE  /\ k \in Present(m) => K!Survives(both, Pasts, "AddEdge", "RemoveEdge", "key", k)
                    /\ K!Prevails(both, Pasts, "AddEdge", "RemoveEdge", "key", k) => k \in Present(m)
  BY DEF K!PresenceFits
<1> DEFINE added == {s \in both : s.op.type = "AddEdge" /\ s.op.key = k}
           removed == {s \in both : s.op.type = "RemoveEdge" /\ s.op.key = k}
<1>5. /\ K!About(both, "AddEdge", "key", k) = added
      /\ K!About(both, "RemoveEdge", "key", k) = removed
  BY DEF K!About
<1> HIDE DEF m
<1>6. k \in Present(m) <=> \E t \in m.adds[k] : t \notin m.removes[k]
  BY <1>2 DEF Present, Contains
<1>7. \A s : s \in both <=> \E q \in {a, b} : \E i \in 1..Len(log[q]) : s = log[q][i]
  BY DEF Known
<1>8. \A t : t \in m.adds[k] <=> \E q \in {a, b} : \E i \in Additions(log[q], k) : t = log[q][i].tag
  BY <1>2, <1>3
<1>9. \A t : t \in m.removes[k] <=> \E q \in {a, b} : \E i \in Removed(log[q], k) : t = log[q][i].tag
  BY <1>2, <1>3
<1>10. \A x \in both, q \in {a, b} : \A i \in 1..Len(log[q]) : log[q][i].tag = x.tag => log[q][i] = x
  BY <1>1, SameTagSameOp
<1> HIDE DEF both
<1>11. ASSUME k \in Present(m)
       PROVE  K!Survives(both, Pasts, "AddEdge", "RemoveEdge", "key", k)
  <2>1. PICK q \in {a, b} : \E i \in Additions(log[q], k) : log[q][i].tag \notin m.removes[k]
    BY <1>6, <1>8, <1>11
  <2> PICK i \in Additions(log[q], k) : log[q][i].tag \notin m.removes[k]
    BY <2>1
  <2>2. i \in 1..Len(log[q]) /\ log[q][i] \in added
    BY <1>7, <2>1 DEF Additions
  <2>3. ASSUME NEW d \in removed, log[q][i].tag \in Pasts[d.tag]
        PROVE  FALSE
    <3>1. PICK r \in {a, b} : \E j \in 1..Len(log[r]) : d = log[r][j]
      BY <1>7
    <3> PICK j \in 1..Len(log[r]) : d = log[r][j]
      BY <3>1
    <3>2. PICK h \in 1..(j - 1) : log[r][h].tag = log[q][i].tag
      <4>1. r \in Replica /\ log[q][i].tag \in Pasts[log[r][j].tag]
        BY <2>3, <3>1
      <4> QED
        BY <4>1, PastIsBefore
    <3>3. h \in 1..Len(log[r]) /\ j \in (h + 1)..Len(log[r])
      BY <1>4, <3>1, <3>2
    <3>4. log[r][h] = log[q][i]
      BY <1>10, <2>2, <3>1, <3>2, <3>3
    <3>5. h \in Additions(log[r], k) /\ IsRemoval(log[r][j], k)
      BY <2>2, <3>1, <3>3, <3>4 DEF Additions, IsRemoval
    <3>6. h \in Removed(log[r], k)
      BY <3>3, <3>5 DEF Removed
    <3> QED
      BY <1>9, <2>1, <3>1, <3>2, <3>6
  <2> QED
    BY <1>5, <2>2, <2>3 DEF K!Survives
<1>12. ASSUME K!Prevails(both, Pasts, "AddEdge", "RemoveEdge", "key", k)
       PROVE  k \in Present(m)
  <2>1. PICK x \in added : \A d \in removed : d.tag \in Pasts[x.tag]
    BY <1>5, <1>12 DEF K!Prevails
  <2>2. PICK q \in {a, b} : \E i \in 1..Len(log[q]) : x = log[q][i]
    BY <1>7, <2>1
  <2> PICK i \in 1..Len(log[q]) : x = log[q][i]
    BY <2>2
  <2>3. x.tag \in m.adds[k]
    BY <1>8, <2>1, <2>2 DEF Additions
  <2>4. ASSUME x.tag \in m.removes[k]
        PROVE  FALSE
    <3>1. PICK r \in {a, b} : \E h \in Removed(log[r], k) : x.tag = log[r][h].tag
      BY <1>9, <2>4
    <3> PICK h \in Removed(log[r], k) : x.tag = log[r][h].tag
      BY <3>1
    <3>2. h \in 1..Len(log[r])
      BY DEF Removed, Additions
    <3>3. PICK j \in (h + 1)..Len(log[r]) : IsRemoval(log[r][j], k)
      BY DEF Removed
    <3>4. j \in 1..Len(log[r]) /\ h < j
      BY <1>4, <3>2, <3>3
    <3>5. log[r][j] \in removed
      BY <1>7, <3>1, <3>3, <3>4 DEF IsRemoval
    <3>6. log[r][j].tag \in Pasts[log[r][h].tag]
      BY <2>1, <3>1, <3>5
    <3>7. PICK g \in 1..(h - 1) : log[r][g].tag = log[r][j].tag
      <4>1. r \in Replica
        OBVIOUS
      <4> QED
        BY <3>2, <3>6, <4>1, PastIsBefore
    <3>8. g \in 1..Len(log[r]) /\ g # j
      BY <1>4, <3>2, <3>4
    <3> QED
      BY <1>4, <3>4, <3>7, <3>8
  <2> QED
    BY <1>6, <2>3, <2>4
<1> QED
  BY <1>11, <1>12

\* Sums over fewer numbers are smaller.
SumsBounded(f, ops, bound) ==
  \A own \in SUBSET ops : /\ SumFunctionOnSet(f, own) \in Nat
                          /\ SumFunctionOnSet(f, own) <= SumFunctionOnSet(f, ops)
                          /\ SumFunctionOnSet(f, own) < bound

\* Where the amounts put into a weight are moderate, no bucket has run over.
LEMMA ModerateBuckets ==
  ASSUME NEW ops \in SUBSET StampedOp, IsFiniteSet(ops), NEW k \in EdgeKey, K!Moderate(ops, k),
         NEW p
  PROVE  /\ SumsBounded(Owned(Rise(k), p), ops, 2^Width)
         /\ SumsBounded(Owned(Fall(k), p), ops, 2^Width)
<1> DEFINE T == K!WeightOps(ops, k)
           size == [s \in T |-> IF K!Delta(s) < 0 THEN -K!Delta(s) ELSE K!Delta(s)]
           all == SumFunctionOnSet(size, T)
           bound == 2^Width
<1>1. /\ T \in SUBSET ops
      /\ \A s \in ops : s \notin T => Rise(k)[s] = 0 /\ Fall(k)[s] = 0
      /\ \A s \in T : K!Delta(s) \in Int /\ K!Delta(s) = Rise(k)[s] - Fall(k)[s]
                     /\ (Rise(k)[s] = 0 \/ Fall(k)[s] = 0)
  BY DeltasSum
<1>2. \A s \in ops : Rise(k)[s] \in Nat /\ Fall(k)[s] \in Nat
  BY AmountType
<1>3. \A s \in T : size[s] \in Int /\ Rise(k)[s] <= size[s] /\ Fall(k)[s] <= size[s]
  <2> TAKE s \in T
  <2>1. /\ Rise(k)[s] \in Nat /\ Fall(k)[s] \in Nat /\ K!Delta(s) \in Int
        /\ K!Delta(s) = Rise(k)[s] - Fall(k)[s] /\ (Rise(k)[s] = 0 \/ Fall(k)[s] = 0)
    BY <1>1, <1>2
  <2>2. size[s] = IF K!Delta(s) < 0 THEN -K!Delta(s) ELSE K!Delta(s)
    OBVIOUS
  <2> HIDE DEF size
  <2> QED
    BY <2>1, <2>2
<1>4. all < bound
  <2>1. K!SumFunction(size) = SumFunctionOnSet(size, DOMAIN size) /\ DOMAIN size = T
    BY SameSums
  <2>2. K!SumFunction(size) < bound
    BY DEF K!Moderate
  <2> HIDE DEF size
  <2> QED
    BY <2>1, <2>2
<1>5. bound \in Nat
  BY WidthAssumption
<1>6. IsFiniteSet(T)
  BY <1>1, FS_Subset
<1>7. ASSUME NEW f, \A s \in ops : f[s] \in Nat, \A s \in ops : s \notin T => f[s] = 0,
             \A s \in T : f[s] <= size[s]
      PROVE  SumFunctionOnSet(f, ops) \in Int /\ SumFunctionOnSet(f, ops) < bound
  <2> HIDE DEF T, size, bound
  <2>1. \A s \in T : f[s] \in Int /\ size[s] \in Int /\ f[s] <= size[s]
    BY <1>1, <1>3, <1>7
  <2>2. SumFunctionOnSet(f, T) <= all
    BY <1>6, <2>1, SumOrder
  <2>3. \A s \in ops : f[s] \in Int
    BY <1>7
  <2>4. SumFunctionOnSet(f, ops) = SumFunctionOnSet(f, T)
    BY <1>1, <1>7, <2>3, SumZeros
  <2>5. all \in Int /\ SumFunctionOnSet(f, T) \in Int
    BY <1>6, <2>1, SumType
  <2> QED
    BY <1>4, <1>5, <2>2, <2>4, <2>5
<1> HIDE DEF size, all, bound
<1>8. ASSUME NEW f, \A s \in ops : f[s] \in Nat, \A s \in ops : s \notin T => f[s] = 0,
             \A s \in T : f[s] <= size[s]
      PROVE  SumsBounded(f, ops, bound)
  <2>1. SumFunctionOnSet(f, ops) \in Int /\ SumFunctionOnSet(f, ops) < bound
    BY <1>7, <1>8
  <2> SUFFICES ASSUME NEW own \in SUBSET ops
               PROVE  /\ SumFunctionOnSet(f, own) \in Nat
                      /\ SumFunctionOnSet(f, own) <= SumFunctionOnSet(f, ops)
                      /\ SumFunctionOnSet(f, own) < bound
    BY DEF SumsBounded
  <2>2. SumFunctionOnSet(f, own) \in Nat /\ SumFunctionOnSet(f, own) <= SumFunctionOnSet(f, ops)
    BY <1>8, SumPart
  <2> QED
    BY <1>5, <2>1, <2>2
<1>9. \A s \in ops : /\ Owned(Rise(k), p)[s] = IF s.tag.replica = p THEN Rise(k)[s] ELSE 0
                     /\ Owned(Fall(k), p)[s] = IF s.tag.replica = p THEN Fall(k)[s] ELSE 0
  BY DEF Owned
<1>10. /\ \A s \in ops : Owned(Rise(k), p)[s] \in Nat /\ Owned(Fall(k), p)[s] \in Nat
       /\ \A s \in ops : s \notin T => Owned(Rise(k), p)[s] = 0 /\ Owned(Fall(k), p)[s] = 0
  BY <1>1, <1>2, <1>9
<1>11. \A s \in T : Owned(Rise(k), p)[s] <= size[s] /\ Owned(Fall(k), p)[s] <= size[s]
  <2> TAKE s \in T
  <2>1. s \in ops /\ 0 <= size[s]
    BY <1>1, <1>2, <1>3
  <2> QED
    BY <1>3, <1>9, <2>1
<1>12. SumsBounded(Owned(Rise(k), p), ops, bound) /\ SumsBounded(Owned(Fall(k), p), ops, bound)
  BY <1>8, <1>10, <1>11
<1> QED
  BY <1>12 DEF bound

\* The larger of two buckets is that of all operations, if one replica knows all
\* of the owner's operations that the other one knows.
LEMMA LargerBucket ==
  ASSUME NEW x, NEW y, x \cup y \in SUBSET StampedOp, IsFiniteSet(x \cup y),
         NEW k \in EdgeKey, K!Moderate(x \cup y, k), NEW p,
         \A s \in x : s.tag.replica # p \/ s \in y
  PROVE  /\ Bucketed(Rise(k), y, p) = Bucketed(Rise(k), x \cup y, p)
         /\ Bucketed(Rise(k), x, p) <= Bucketed(Rise(k), y, p)
         /\ Bucketed(Fall(k), y, p) = Bucketed(Fall(k), x \cup y, p)
         /\ Bucketed(Fall(k), x, p) <= Bucketed(Fall(k), y, p)
<1> DEFINE bound == 2^Width
           z == x \cup y
<1>1. bound \in Nat \ {0}
  BY WidthAssumption
<1>2. /\ SumsBounded(Owned(Rise(k), p), z, bound)
      /\ SumsBounded(Owned(Fall(k), p), z, bound)
  BY ModerateBuckets
<1>3. \A s \in z : /\ Owned(Rise(k), p)[s] \in Int /\ Owned(Fall(k), p)[s] \in Int
                   /\ s \notin y => Owned(Rise(k), p)[s] = 0 /\ Owned(Fall(k), p)[s] = 0
  BY TermTypes
<1>4. y \in SUBSET z /\ x \in SUBSET z /\ IsFiniteSet(z)
  OBVIOUS
<1>5. \A f, S : Bucketed(f, S, p) = SumFunctionOnSet(Owned(f, p), S) % bound
  BY DEF Bucketed, Wrap
<1> HIDE DEF bound, z
<1>6. \A n \in Nat : n < bound => n % bound = n
  <2> TAKE n \in Nat
  <2> SUFFICES ASSUME n < bound PROVE n % bound = n
    OBVIOUS
  <2>1. n \in 0..(bound - 1) /\ n \in Int
    BY <1>1
  <2> QED
    BY <1>1, <2>1, RemainderOf
<1>7. ASSUME NEW f \in {Rise(k), Fall(k)}
      PROVE  /\ Bucketed(f, y, p) = Bucketed(f, z, p)
             /\ Bucketed(f, x, p) <= Bucketed(f, y, p)
  <2> DEFINE g == Owned(f, p)
             sum(S) == SumFunctionOnSet(g, S)
  <2>1. /\ SumsBounded(g, z, bound)
        /\ \A s \in z : g[s] \in Int
        /\ \A s \in z : s \notin y => g[s] = 0
    BY <1>2, <1>3, <1>7
  <2>2. Bucketed(f, x, p) = sum(x) % bound /\ Bucketed(f, y, p) = sum(y) % bound
        /\ Bucketed(f, z, p) = sum(z) % bound
    BY <1>5
  <2> HIDE DEF g
  <2>3. sum(z) = sum(y)
    BY <1>4, <2>1, SumZeros
  <2>4. /\ sum(x) \in Nat /\ sum(x) < bound /\ sum(x) <= sum(z)
        /\ sum(y) \in Nat /\ sum(y) < bound
    BY <1>4, <2>1 DEF SumsBounded
  <2> HIDE DEF sum
  <2>5. sum(x) % bound = sum(x) /\ sum(y) % bound = sum(y)
    BY <1>6, <2>4
  <2> QED
    BY <2>2, <2>3, <2>4, <2>5
<1> QED
  BY <1>7 DEF z

\* PnCounter::merge, bucket by bucket.
LEMMA MergeEffect ==
  ASSUME NEW c \in Counter, NEW d \in Counter
  PROVE  /\ MergeCounters(c, d) \in Counter
         /\ \A p \in Replica :
              /\ MergeCounters(c, d).pos[p] = IF c.pos[p] >= d.pos[p] THEN c.pos[p] ELSE d.pos[p]
              /\ MergeCounters(c, d).neg[p] = IF c.neg[p] >= d.neg[p] THEN c.neg[p] ELSE d.neg[p]
BY DEF MergeCounters, Counter

\* Weights: the merged counters are those of the operations of both.
LEMMA WeightsMerged ==
  ASSUME LP!PrefixInv, Shape, WeightInv, NEW a \in Replica, NEW b \in Replica,
         \A k \in EdgeKey : K!Moderate(Known(a) \cup Known(b), k), NEW k \in EdgeKey
  PROVE  Value(MergeCounters(view[a].edge_weight[k], view[b].edge_weight[k]))
           = K!WeightIn(Known(a) \cup Known(b), k)
<1> DEFINE x == Known(a)
           y == Known(b)
           w == [view[a] EXCEPT !.edge_weight =
                   [e \in EdgeKey |-> MergeCounters(view[a].edge_weight[e], view[b].edge_weight[e])]]
<1>1. LP!IInv /\ view[a] \in View /\ view[b] \in View
  BY DEF LP!PrefixInv, Shape
<1>2. /\ x \cup y \in SUBSET StampedOp /\ IsFiniteSet(x \cup y)
      /\ BucketsFollow(view[a], x) /\ BucketsFollow(view[b], y)
  <2>1. /\ x \in SUBSET StampedOp /\ IsFiniteSet(x)
        /\ y \in SUBSET StampedOp /\ IsFiniteSet(y)
    BY <1>1, KnownType, KnownFinite
  <2> HIDE DEF x, y
  <2>2. IsFiniteSet(x \cup y)
    BY <2>1, FS_Union
  <2> QED
    BY <2>1, <2>2 DEF WeightInv, x, y
<1>3. ASSUME NEW e \in EdgeKey, NEW p \in Replica
      PROVE  /\ w.edge_weight[e].pos[p] = Bucketed(Rise(e), x \cup y, p)
             /\ w.edge_weight[e].neg[p] = Bucketed(Fall(e), x \cup y, p)
  <2> DEFINE c == view[a].edge_weight[e]
             d == view[b].edge_weight[e]
  <2>1. c \in Counter /\ d \in Counter
    BY <1>1 DEF View
  <2>2. /\ w.edge_weight[e].pos[p] = IF c.pos[p] >= d.pos[p] THEN c.pos[p] ELSE d.pos[p]
        /\ w.edge_weight[e].neg[p] = IF c.neg[p] >= d.neg[p] THEN c.neg[p] ELSE d.neg[p]
    <3>1. w.edge_weight[e] = MergeCounters(c, d)
      BY <1>1 DEF View
    <3> HIDE DEF w, c, d
    <3> QED
      BY <2>1, <3>1, MergeEffect
  <2>3. /\ c.pos[p] = Bucketed(Rise(e), x, p) /\ c.neg[p] = Bucketed(Fall(e), x, p)
        /\ d.pos[p] = Bucketed(Rise(e), y, p) /\ d.neg[p] = Bucketed(Fall(e), y, p)
    BY <1>2 DEF BucketsFollow
  <2>4. c.pos[p] \in Bucket /\ c.neg[p] \in Bucket /\ d.pos[p] \in Bucket /\ d.neg[p] \in Bucket
    BY <2>1 DEF Counter
  <2> HIDE DEF w, c, d
  <2>5. (\A s \in x : s.tag.replica # p \/ s \in y) \/ (\A s \in y : s.tag.replica # p \/ s \in x)
    <3> SUFFICES ASSUME NEW s \in x, s.tag.replica = p, s \notin y,
                        NEW t \in y, t.tag.replica = p
                 PROVE  t \in x
      OBVIOUS
    <3> QED
      BY OwnNested
  <2>6. K!Moderate(x \cup y, e)
    OBVIOUS
  <2>7. y \cup x = x \cup y
    OBVIOUS
  <2> HIDE DEF x, y
  <2>8. CASE \A s \in x : s.tag.replica # p \/ s \in y
    <3>1. /\ Bucketed(Rise(e), y, p) = Bucketed(Rise(e), x \cup y, p)
          /\ Bucketed(Rise(e), x, p) <= Bucketed(Rise(e), y, p)
          /\ Bucketed(Fall(e), y, p) = Bucketed(Fall(e), x \cup y, p)
          /\ Bucketed(Fall(e), x, p) <= Bucketed(Fall(e), y, p)
      BY <1>2, <2>6, <2>8, LargerBucket
    <3> QED
      BY <2>2, <2>3, <2>4, <3>1 DEF Bucket
  <2>9. CASE \A s \in y : s.tag.replica # p \/ s \in x
    <3>1. y \cup x \in SUBSET StampedOp /\ IsFiniteSet(y \cup x) /\ K!Moderate(y \cup x, e)
      BY <1>2, <2>6, <2>7
    <3>2. /\ Bucketed(Rise(e), x, p) = Bucketed(Rise(e), y \cup x, p)
          /\ Bucketed(Rise(e), y, p) <= Bucketed(Rise(e), x, p)
          /\ Bucketed(Fall(e), x, p) = Bucketed(Fall(e), y \cup x, p)
          /\ Bucketed(Fall(e), y, p) <= Bucketed(Fall(e), x, p)
      BY <2>9, <3>1, LargerBucket
    <3> QED
      BY <2>2, <2>3, <2>4, <2>7, <3>2 DEF Bucket
  <2> QED
    BY <2>4, <2>5, <2>8, <2>9
<1>4. BucketsFollow(w, x \cup y)
  BY <1>3 DEF BucketsFollow
<1>5. w \in View
  <2>1. \A e \in EdgeKey : MergeCounters(view[a].edge_weight[e], view[b].edge_weight[e]) \in Counter
    BY <1>1, MergeEffect DEF View
  <2> QED
    BY <1>1, <2>1 DEF View
<1>6. Value(w.edge_weight[k]) = K!WeightIn(x \cup y, k)
  <2> HIDE DEF w, x, y
  <2> QED
    BY <1>2, <1>4, <1>5, WeightAsKnown
<1>7. w.edge_weight[k] = MergeCounters(view[a].edge_weight[k], view[b].edge_weight[k])
  BY <1>1 DEF View
<1> QED
  BY <1>6, <1>7

\* Whatever hosts and networks do, as long as whole logs are shipped, merging two
\* replicas' states is as good as exchanging their operations, unless a bucket has
\* run over: the nodes are those of all operations, the edges are among those they
\* may stand for, and the larger bucket of every replica has everything that replica
\* put into the weight once (OrSet::merge, PnCounter::merge).
THEOREM StateMergeIsExchange == Spec => []StateMergeAgrees
<1>1. ASSUME MeantInv
      PROVE  StateMergeAgrees
  <2> SUFFICES ASSUME NEW a \in Replica, NEW b \in Replica
               PROVE  LET both  == Known(a) \cup Known(b)
                          edges == Present(MergeSets(view[a].edges, view[b].edges))
                      IN  /\ Present(MergeSets(view[a].nodes, view[b].nodes)) = DOMAIN K!NodesIn(both, Pasts)
                          /\ (\A k \in EdgeKey : K!Moderate(both, k)) =>
                               K!EdgesFit([k \in edges |->
                                             Value(MergeCounters(view[a].edge_weight[k],
                                                                 view[b].edge_weight[k]))], both, Pasts)
    BY DEF StateMergeAgrees
  <2> DEFINE both  == Known(a) \cup Known(b)
             edges == Present(MergeSets(view[a].edges, view[b].edges))
             shown == [k \in edges |-> Value(MergeCounters(view[a].edge_weight[k],
                                                           view[b].edge_weight[k]))]
  <2>1. WholeInv /\ EdgesFollow /\ WeightInv /\ LP!PrefixInv /\ Shape
    BY <1>1 DEF MeantInv, WholeInv
  <2>2. Present(MergeSets(view[a].nodes, view[b].nodes)) = DOMAIN K!NodesIn(both, Pasts)
    BY <2>1, NodesMerged
  <2>3. ASSUME \A k \in EdgeKey : K!Moderate(both, k)
        PROVE  K!EdgesFit(shown, both, Pasts)
    <3>1. K!PresenceFits(edges, both, Pasts)
      BY <2>1, EdgesMerged
    <3>2. edges \subseteq EdgeKey
      BY <2>1 DEF Shape, View, TaggedSet, Present, MergeSets
    <3>3. \A k \in EdgeKey : Value(MergeCounters(view[a].edge_weight[k], view[b].edge_weight[k]))
                               = K!WeightIn(both, k)
      BY <2>1, <2>3, WeightsMerged
    <3>4. DOMAIN shown = edges
      OBVIOUS
    <3>5. \A k \in edges : shown[k] = K!WeightIn(both, k)
      BY <3>2, <3>3
    <3> HIDE DEF both, edges, shown
    <3> QED
      BY <3>1, <3>4, <3>5 DEF K!EdgesFit
  <2> QED
    BY <2>2, <2>3
<1> QED
  BY <1>1, MeantInvInductive, PTL DEF Spec
=============================================================================
