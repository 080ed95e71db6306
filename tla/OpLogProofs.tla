---------------------------- MODULE OpLogProofs ----------------------------
(***************************************************************************)
(* Theorems about the replication layer, for any number of replicas,       *)
(* operations, wall-clock readings and any bound MaxOps.                   *)
(***************************************************************************)
EXTENDS OpLog, NumberProofs, SequenceTheorems, NaturalsInduction, WellFoundedInduction, TLAPS

-----------------------------------------------------------------------------
\* What one Forest::apply does to the replication state.

\* Nothing an apply does removes or changes a log entry or forgets a tag.
Grows ==
  \A q \in Replica :
    /\ applied_tags[q] \subseteq applied_tags'[q]
    /\ Len(log[q]) <= Len(log'[q])
    /\ \A i \in 1..Len(log[q]) : log'[q][i] = log[q][i]

\* The operation is applied afterwards, in the log's last position if it was
\* not before, and the clock is beyond it then.
LEMMA ApplyEffect ==
  ASSUME TypeOK, NEW r \in Replica, NEW last \in Hlc, NEW s \in StampedOp,
         NEW now \in WallClock, Apply(r, last, s, now)
  PROVE  /\ clock' \in [Replica -> Hlc]
         /\ applied_tags' \in [Replica -> SUBSET Tag]
         /\ log' \in [Replica -> Seq(StampedOp)]
         /\ s.tag \in applied_tags'[r]
         /\ Grows
         /\ \A q \in Replica \ {r} : /\ clock'[q] = clock[q]
                                     /\ applied_tags'[q] = applied_tags[q]
                                     /\ log'[q] = log[q]
         /\ s.tag \in applied_tags[r] =>
              /\ clock'[r] = last
              /\ applied_tags' = applied_tags
              /\ log' = log
         /\ s.tag \notin applied_tags[r] =>
              /\ applied_tags'[r] = applied_tags[r] \cup {s.tag}
              /\ Len(log'[r]) = Len(log[r]) + 1
              /\ log'[r][Len(log[r]) + 1] = s
              /\ HlcLT(last, clock'[r])
              /\ HlcLT(s.tag.hlc, clock'[r])
<1> USE ReplicaAssumption, WallClockAssumption
<1>0. s.tag \in Tag /\ s.tag.hlc \in Hlc /\ now \in Nat
  BY DEF StampedOp, Tag
<1>1. CASE s.tag \in applied_tags[r]
  <2>1. log' = log /\ applied_tags' = applied_tags /\ clock' = [clock EXCEPT ![r] = last]
    BY <1>1 DEF Apply
  <2> QED
    BY <1>1, <2>1 DEF TypeOK, Grows
<1>2. CASE s.tag \notin applied_tags[r]
  <2> DEFINE c == Observe(last, s.tag.hlc, now)
  <2>1. /\ log' = [log EXCEPT ![r] = Append(@, s)]
        /\ applied_tags' = [applied_tags EXCEPT ![r] = @ \cup {s.tag}]
        /\ clock' = [clock EXCEPT ![r] = c]
    BY <1>2 DEF Apply
  <2>2. c \in Hlc /\ HlcLT(last, c) /\ HlcLT(s.tag.hlc, c)
    BY <1>0, ObserveAdvances
  <2> HIDE DEF c
  <2>3. log[r] \in Seq(StampedOp)
    BY DEF TypeOK
  <2>4. /\ log' \in [Replica -> Seq(StampedOp)]
        /\ \A q \in Replica \ {r} : log'[q] = log[q]
        /\ log'[r] = Append(log[r], s)
    BY <2>1, <2>3, AppendProperties DEF TypeOK
  <2>5. /\ Len(log'[r]) = Len(log[r]) + 1
        /\ log'[r][Len(log[r]) + 1] = s
        /\ \A i \in 1..Len(log[r]) : log'[r][i] = log[r][i]
    BY <2>3, <2>4, AppendProperties
  <2>6. /\ applied_tags' \in [Replica -> SUBSET Tag]
        /\ applied_tags'[r] = applied_tags[r] \cup {s.tag}
        /\ \A q \in Replica \ {r} : applied_tags'[q] = applied_tags[q]
    BY <1>0, <2>1 DEF TypeOK
  <2>7. /\ clock' \in [Replica -> Hlc]
        /\ clock'[r] = c
        /\ \A q \in Replica \ {r} : clock'[q] = clock[q]
    BY <2>1, <2>2 DEF TypeOK
  <2>8. Grows
    <3> SUFFICES ASSUME NEW q \in Replica
                 PROVE  /\ applied_tags[q] \subseteq applied_tags'[q]
                        /\ Len(log[q]) <= Len(log'[q])
                        /\ \A i \in 1..Len(log[q]) : log'[q][i] = log[q][i]
      BY DEF Grows
    <3>1. Len(log[q]) \in Nat
      BY LenProperties DEF TypeOK
    <3>2. CASE q = r
      BY <3>1, <3>2, <2>5, <2>6
    <3>3. CASE q # r
      BY <3>1, <3>3, <2>4, <2>6
    <3> QED
      BY <3>2, <3>3
  <2> QED
    BY <1>2, <2>2, <2>4, <2>5, <2>6, <2>7, <2>8
<1> QED
  BY <1>1, <1>2

-----------------------------------------------------------------------------
\* The inductive invariant.

\* No replica has applied an operation at or beyond its clock.
LEMMA BeyondClockIsNew ==
  ASSUME IInv, NEW r \in Replica, NEW t \in Tag, HlcLT(clock[r], t.hlc)
  PROVE  t \notin applied_tags[r]
<1> SUFFICES ASSUME t \in applied_tags[r] PROVE FALSE
  OBVIOUS
<1>1. PICK i \in 1..Len(log[r]) : log[r][i].tag = t
  BY DEF IInv, LogMatchesTags
<1>2. HlcLT(t.hlc, clock[r])
  BY <1>1 DEF IInv, ClockAhead
<1>3. t.hlc \in Hlc /\ clock[r] \in Hlc
  BY DEF IInv, TypeOK, Tag
<1> QED
  BY <1>2, <1>3, HlcOrder

\* An operation found in any log is in its minter's log.
LEMMA OriginHasIt ==
  ASSUME IInv, NEW q \in Replica, NEW i \in 1..Len(log[q])
  PROVE  /\ log[q][i] \in StampedOp
         /\ log[q][i].tag.replica \in Replica
         /\ \E k \in 1..Len(log[log[q][i].tag.replica]) :
              log[log[q][i].tag.replica][k] = log[q][i]
<1>1. log[q] \in Seq(StampedOp) /\ OriginKnows
  BY DEF IInv, TypeOK
<1>2. log[q][i] \in StampedOp
  BY <1>1, ElementOfSeq
<1>3. \E k \in 1..Len(log[log[q][i].tag.replica]) : log[log[q][i].tag.replica][k] = log[q][i]
  BY <1>1, Zenon DEF OriginKnows
<1> QED
  BY <1>2, <1>3 DEF StampedOp, Tag

\* Forest::apply keeps the logs, tags and clocks in order, for an operation
\* just minted here and for one that is in its minter's log already.
LEMMA ApplyPreserves ==
  ASSUME IInv, NEW r \in Replica, NEW last \in Hlc, NEW s \in StampedOp,
         NEW now \in WallClock, Apply(r, last, s, now),
         HlcLT(HlcZero, s.tag.hlc),
         \/ s.tag.replica = r /\ s.tag.hlc = last /\ HlcLT(clock[r], last)
         \/ last = clock[r] /\ \E k \in 1..Len(log[s.tag.replica]) : log[s.tag.replica][k] = s
  PROVE  LogMatchesTags' /\ ClockAhead' /\ CausalTimestamps' /\ OriginKnows'
<1> DEFINE new == Len(log[r]) + 1
<1>1. /\ TypeOK /\ LogMatchesTags /\ ClockAhead /\ CausalTimestamps /\ OriginKnows
      /\ s.tag \in Tag /\ s.tag.replica \in Replica /\ s.tag.hlc \in Hlc
      /\ \A q \in Replica : Len(log[q]) \in Nat
  BY LenProperties DEF IInv, TypeOK, StampedOp, Tag
<1>2. \A q \in Replica : \A i \in 1..Len(log[q]) :
        log[q][i] \in StampedOp /\ log[q][i].tag \in Tag /\ log[q][i].tag.hlc \in Hlc
  <2> SUFFICES ASSUME NEW q \in Replica, NEW i \in 1..Len(log[q])
               PROVE  log[q][i] \in StampedOp
    BY DEF StampedOp, Tag
  <2>1. log[q] \in Seq(StampedOp)
    BY <1>1 DEF TypeOK
  <2> QED
    BY <2>1, ElementOfSeq
<1>3. CASE s.tag \in applied_tags[r]
  <2>1. /\ log' = log /\ applied_tags' = applied_tags
        /\ clock' \in [Replica -> Hlc] /\ clock'[r] = last
        /\ \A q \in Replica \ {r} : clock'[q] = clock[q]
    BY <1>1, <1>3, ApplyEffect
  <2>2. last = clock[r]
    BY <1>1, <1>3, BeyondClockIsNew
  <2>3. \A q \in Replica : clock'[q] = clock[q]
    BY <2>1, <2>2
  <2>4. LogMatchesTags' /\ CausalTimestamps' /\ OriginKnows'
    BY <1>1, <2>1 DEF LogMatchesTags, CausalTimestamps, OriginKnows
  <2>5. ClockAhead'
    BY <1>1, <2>1, <2>3 DEF ClockAhead
  <2> QED
    BY <2>4, <2>5
<1>4. CASE s.tag \notin applied_tags[r]
  <2>1. /\ applied_tags'[r] = applied_tags[r] \cup {s.tag}
        /\ Len(log'[r]) = new /\ log'[r][new] = s
        /\ HlcLT(last, clock'[r]) /\ HlcLT(s.tag.hlc, clock'[r])
        /\ clock' \in [Replica -> Hlc]
        /\ Grows
        /\ \A q \in Replica \ {r} : /\ clock'[q] = clock[q]
                                    /\ applied_tags'[q] = applied_tags[q]
                                    /\ log'[q] = log[q]
    BY <1>1, <1>4, ApplyEffect
  <2>2. \A q \in Replica : \A j \in 1..Len(log[q]) :
          j \in 1..Len(log'[q]) /\ log'[q][j] = log[q][j]
    BY <1>1, <2>1 DEF Grows
  <2>3. \A q \in Replica : \A j \in 1..Len(log'[q]) :
          \/ j \in 1..Len(log[q]) /\ log'[q][j] = log[q][j]
          \/ q = r /\ j = new /\ log'[q][j] = s
    BY <1>1, <2>1, <2>2
  <2>4. new \in 1..Len(log'[r]) /\ \A i \in 1..Len(log[r]) : i < new
    BY <1>1, <2>1
  <2>5. \A i \in 1..Len(log[r]) : log[r][i].tag # s.tag
    BY <1>1, <1>4 DEF LogMatchesTags
  <2> HIDE DEF new
  <2>6. LogMatchesTags'
    <3> SUFFICES ASSUME NEW q \in Replica
                 PROVE  /\ \A i, j \in 1..Len(log'[q]) : log'[q][i].tag = log'[q][j].tag => i = j
                        /\ applied_tags'[q] = {log'[q][i].tag : i \in 1..Len(log'[q])}
      BY DEF LogMatchesTags
    <3>1. ASSUME NEW i \in 1..Len(log'[q]), NEW j \in 1..Len(log'[q]),
                 log'[q][i].tag = log'[q][j].tag
          PROVE  i = j
      BY SMTT(60), <1>1, <2>3, <2>5, <3>1 DEF LogMatchesTags
    <3>2. applied_tags'[q] = {log'[q][i].tag : i \in 1..Len(log'[q])}
      <4>1. CASE q # r
        BY SMTT(60), <1>1, <2>1, <4>1 DEF LogMatchesTags
      <4>2. CASE q = r
        <5>1. applied_tags[r] = {log[r][i].tag : i \in 1..Len(log[r])}
          BY <1>1 DEF LogMatchesTags
        <5>2. ASSUME NEW t \in applied_tags'[r]
              PROVE  \E i \in 1..Len(log'[r]) : t = log'[r][i].tag
          BY <2>1, <2>2, <2>4, <5>1
        <5>3. ASSUME NEW i \in 1..Len(log'[r])
              PROVE  log'[r][i].tag \in applied_tags'[r]
          BY <2>1, <2>3, <5>1
        <5> QED
          BY <4>2, <5>2, <5>3
      <4> QED
        BY <4>1, <4>2
    <3> QED
      BY <3>1, <3>2
  <2>7. ClockAhead'
    <3> SUFFICES ASSUME NEW q \in Replica, NEW i \in 1..Len(log'[q])
                 PROVE  /\ HlcLT(HlcZero, log'[q][i].tag.hlc)
                        /\ HlcLT(log'[q][i].tag.hlc, clock'[q])
      BY DEF ClockAhead
    <3>1. clock[r] \in Hlc /\ clock'[r] \in Hlc
      BY <1>1, <2>1 DEF TypeOK
    <3>2. HlcLT(clock[r], clock'[r])
      BY <2>1, <3>1, HlcOrder
    <3>3. CASE i \in 1..Len(log[q]) /\ log'[q][i] = log[q][i]
      <4>1. HlcLT(HlcZero, log[q][i].tag.hlc) /\ HlcLT(log[q][i].tag.hlc, clock[q])
        BY <1>1, <3>3 DEF ClockAhead
      <4>2. CASE q # r
        BY <2>1, <3>3, <4>1, <4>2
      <4>3. CASE q = r
        BY <1>2, <3>1, <3>2, <3>3, <4>1, <4>3, HlcOrder
      <4> QED
        BY <4>2, <4>3
    <3>4. CASE q = r /\ i = new /\ log'[q][i] = s
      BY <2>1, <3>4
    <3> QED
      BY <2>3, <3>3, <3>4
  <2>8. ASSUME s.tag.replica = r
        PROVE  s.tag.hlc = last /\ HlcLT(clock[r], last)
    BY <2>5, <2>8
  <2>9. CausalTimestamps'
    <3> SUFFICES ASSUME NEW q \in Replica, NEW i \in 1..Len(log'[q]), NEW j \in 1..Len(log'[q]),
                        i < j, log'[q][j].tag.replica = q
                 PROVE  HlcLT(log'[q][i].tag.hlc, log'[q][j].tag.hlc)
      BY DEF CausalTimestamps
    <3>1. CASE j \in 1..Len(log[q]) /\ log'[q][j] = log[q][j]
      <4>1. i \in 1..Len(log[q]) /\ log'[q][i] = log[q][i]
        BY <1>1, <2>2, <3>1
      <4> QED
        BY <1>1, <3>1, <4>1 DEF CausalTimestamps
    <3>2. CASE q = r /\ j = new /\ log'[q][j] = s
      <4>1. i \in 1..Len(log[r]) /\ log'[r][i] = log[r][i]
        BY <2>3, <3>2
      <4>2. HlcLT(log[r][i].tag.hlc, clock[r])
        BY <1>1, <4>1 DEF ClockAhead
      <4>3. HlcLT(clock[r], s.tag.hlc)
        BY <2>8, <3>2
      <4> QED
        BY <1>1, <1>2, <3>2, <4>1, <4>2, <4>3, HlcOrder DEF TypeOK
    <3> QED
      BY <2>3, <3>1, <3>2
  <2>10. OriginKnows'
    <3> SUFFICES ASSUME NEW q \in Replica, NEW i \in 1..Len(log'[q])
                 PROVE  \E k \in 1..Len(log'[log'[q][i].tag.replica]) :
                          log'[log'[q][i].tag.replica][k] = log'[q][i]
      BY DEF OriginKnows
    <3>1. CASE i \in 1..Len(log[q]) /\ log'[q][i] = log[q][i]
      <4> DEFINE o == log[q][i].tag.replica
      <4>1. o \in Replica
        BY <1>2, <3>1 DEF Tag
      <4>2. PICK k \in 1..Len(log[o]) : log[o][k] = log[q][i]
        BY <1>1, <3>1 DEF OriginKnows
      <4>3. k \in 1..Len(log'[o]) /\ log'[o][k] = log[q][i]
        BY <2>2, <4>1, <4>2
      <4> QED
        BY <3>1, <4>3
    <3>2. CASE q = r /\ i = new /\ log'[q][i] = s
      <4>1. CASE s.tag.replica = r
        BY <2>4, <3>2, <4>1
      <4>2. CASE s.tag.replica # r
        BY <1>1, <2>2, <3>2, <4>2
      <4> QED
        BY <4>1, <4>2
    <3> QED
      BY <2>3, <3>1, <3>2
  <2> QED
    BY <2>6, <2>7, <2>9, <2>10
<1> QED
  BY <1>3, <1>4

\* A nonempty set of log positions has a first one, which apply_all takes.
LEMMA NextPendingIsFirst ==
  ASSUME NEW b, b.pending \subseteq Nat, b.pending # {}
  PROVE  /\ NextPending(b) \in b.pending
         /\ \A j \in b.pending : NextPending(b) <= j
<1>1. PICK i \in b.pending : \A j \in b.pending : ~ (<<j, i>> \in OpToRel(<, Nat))
  BY WFMin, NatLessThanWellFounded
<1>2. \A j \in b.pending : i <= j
  <2> SUFFICES ASSUME NEW j \in b.pending PROVE i <= j
    OBVIOUS
  <2>1. i \in Nat /\ j \in Nat
    OBVIOUS
  <2>2. ~ (j < i)
    BY <1>1, <2>1 DEF OpToRel
  <2> QED
    BY <2>1, <2>2
<1> QED
  BY <1>2 DEF NextPending

\* The positions Since picks are positions of the log.
LEMMA ExportIsBatch ==
  ASSUME TypeOK, NEW from \in Replica, NEW to \in Replica, NEW hlc, NEW n \in Nat
  PROVE  /\ Export(from, to, hlc, n) \in Batch
         /\ Export(from, to, hlc, n).from = from
         /\ Export(from, to, hlc, n).to = to
         /\ Export(from, to, hlc, n).upto = n
         /\ Export(from, to, hlc, n).pending
              = {i \in 1..Len(log[from]) : HlcLT(hlc, log[from][i].tag.hlc)} \cap 1..n
<1>1. Len(log[from]) \in Nat
  BY LenProperties DEF TypeOK
<1> QED
  BY <1>1 DEF Export, Batch, Since

\* New forests satisfy the invariant (Forest::new).
LEMMA InitIInv == Init => IInv
<1> SUFFICES ASSUME Init PROVE IInv
  OBVIOUS
<1>1. TypeOK
  BY DEF Init, TypeOK, Hlc, HlcZero
<1>2. \A r \in Replica : log[r] = <<>> /\ applied_tags[r] = {} /\ 1..Len(log[r]) = {}
  BY DEF Init
<1>3. LogMatchesTags
  BY <1>2 DEF LogMatchesTags
<1>4. ClockAhead /\ CausalTimestamps /\ OriginKnows
  BY <1>2 DEF ClockAhead, CausalTimestamps, OriginKnows
<1>5. BatchesInLogs
  BY DEF Init, BatchesInLogs
<1> QED
  BY <1>1, <1>3, <1>4, <1>5 DEF IInv

\* A local mutation preserves the invariant.
LEMMA MintIInv ==
  ASSUME IInv, NEW r \in Replica, NEW op \in Operation, Mint(r, op)
  PROVE  IInv'
<1>1. PICK ticked \in WallClock, observed \in WallClock :
        Apply(r, Tick(clock[r], ticked),
              [tag |-> [replica |-> r, hlc |-> Tick(clock[r], ticked)], op |-> op], observed)
  BY DEF Mint
<1> DEFINE t == Tick(clock[r], ticked)
           s == [tag |-> [replica |-> r, hlc |-> t], op |-> op]
<1>2. clock[r] \in Hlc /\ ticked \in Nat /\ TypeOK
  BY WallClockAssumption DEF IInv, TypeOK
<1>3. t \in Hlc /\ HlcLT(clock[r], t)
  BY <1>2, TickAdvances
<1>4. HlcLT(HlcZero, t)
  BY <1>2, <1>3 DEF Hlc, HlcLT, HlcZero
<1>5. Apply(r, t, s, observed)
  BY <1>1
<1> HIDE DEF t
<1>6. s \in StampedOp /\ s.tag.replica = r /\ s.tag.hlc = t
  BY <1>3 DEF StampedOp, Tag
<1> HIDE DEF s
<1>7. LogMatchesTags' /\ ClockAhead' /\ CausalTimestamps' /\ OriginKnows'
  BY <1>3, <1>4, <1>5, <1>6, ApplyPreserves
<1>8. /\ clock' \in [Replica -> Hlc] /\ applied_tags' \in [Replica -> SUBSET Tag]
      /\ log' \in [Replica -> Seq(StampedOp)] /\ Grows
  BY <1>2, <1>3, <1>5, <1>6, ApplyEffect
<1>9. todo' = todo /\ todo = <<>>
  BY DEF Mint, Idle
<1>10. TypeOK' /\ BatchesInLogs'
  BY <1>2, <1>8, <1>9 DEF TypeOK, BatchesInLogs
<1> QED
  BY <1>7, <1>10 DEF IInv

\* So does the start of an import, whatever batches the caller chose.
LEMMA StartIInv ==
  ASSUME IInv, NEW batches \in Seq(Batch), Start(batches),
         \A n \in 1..Len(batches) : batches[n].pending \subseteq 1..Len(log[batches[n].from])
  PROVE  IInv'
<1>1. clock' = clock /\ applied_tags' = applied_tags /\ log' = log /\ todo' = batches
  BY DEF Start
<1>2. TypeOK' /\ LogMatchesTags' /\ ClockAhead' /\ CausalTimestamps' /\ OriginKnows'
  BY <1>1 DEF IInv, TypeOK, LogMatchesTags, ClockAhead, CausalTimestamps, OriginKnows
<1>3. BatchesInLogs'
  BY <1>1 DEF BatchesInLogs
<1> QED
  BY <1>2, <1>3 DEF IInv

\* What one iteration of apply_all does to the running call.
LEMMA ImportNextEffect ==
  ASSUME IInv, ImportNext
  PROVE  LET b == todo[1]
             i == NextPending(b)
             s == log[b.from][i]
         IN  /\ 1 \in 1..Len(todo) /\ b \in Batch
             /\ b.pending \subseteq 1..Len(log[b.from])
             /\ i \in b.pending /\ \A j \in b.pending : i <= j
             /\ s \in StampedOp
             /\ \E now \in WallClock : Apply(b.to, clock[b.to], s, now)
             /\ todo' \in Seq(Batch) /\ Len(todo') = Len(todo)
             /\ todo'[1].to = b.to /\ todo'[1].from = b.from /\ todo'[1].upto = b.upto
             /\ todo'[1].pending = b.pending \ {i}
             /\ \A n \in 2..Len(todo) : todo'[n] = todo[n]
<1> DEFINE b == todo[1]
           i == NextPending(b)
           s == log[b.from][i]
<1>1. todo \in Seq(Batch) /\ todo # <<>> /\ Head(todo) = b /\ Len(todo) \in Nat
  BY LenProperties DEF ImportNext, IInv, TypeOK
<1>2. 1 \in 1..Len(todo) /\ b \in Batch
  BY <1>1, EmptySeq, ElementOfSeq
<1>3. b.pending \subseteq 1..Len(log[b.from]) /\ b.pending # {}
  BY <1>1, <1>2 DEF ImportNext, IInv, BatchesInLogs
<1>4. i \in b.pending /\ \A j \in b.pending : i <= j
  BY <1>3, NextPendingIsFirst
<1>5. s \in StampedOp
  <2>1. log[b.from] \in Seq(StampedOp)
    BY <1>2 DEF IInv, TypeOK, Batch
  <2> QED
    BY <1>3, <1>4, <2>1, ElementOfSeq
<1>6. /\ \E now \in WallClock : Apply(b.to, clock[b.to], s, now)
      /\ todo' = [todo EXCEPT ![1].pending = @ \ {i}]
  BY <1>1 DEF ImportNext
<1> HIDE DEF i, s
<1> DEFINE c == [b EXCEPT !.pending = @ \ {i}]
<1>7. todo' = [todo EXCEPT ![1] = c]
  BY <1>6
<1>8. /\ c \in Batch
      /\ c.to = b.to /\ c.from = b.from /\ c.upto = b.upto /\ c.pending = b.pending \ {i}
  BY <1>2 DEF Batch
<1> HIDE DEF c
<1>9. /\ todo' \in Seq(Batch) /\ Len(todo') = Len(todo)
      /\ \A n \in 1..Len(todo) : todo'[n] = IF n = 1 THEN c ELSE todo[n]
  BY <1>1, <1>2, <1>7, <1>8, ExceptSeq
<1>10. todo'[1] = c /\ \A n \in 2..Len(todo) : todo'[n] = todo[n]
  BY <1>1, <1>2, <1>9
<1> QED
  BY <1>2, <1>3, <1>4, <1>5, <1>6, <1>8, <1>9, <1>10 DEF i, s

\* The end of an import takes the batch off the call's list.
LEMMA ImportReturnsEffect ==
  ASSUME TypeOK, ImportReturns
  PROVE  /\ clock' = clock /\ applied_tags' = applied_tags /\ log' = log
         /\ todo' \in Seq(Batch) /\ Len(todo') = Len(todo) - 1 /\ Len(todo) \in Nat
         /\ \A n \in 1..Len(todo') : n + 1 \in 1..Len(todo) /\ todo'[n] = todo[n + 1]
<1>1. todo \in Seq(Batch) /\ todo # <<>> /\ Len(todo) \in Nat
  BY LenProperties DEF ImportReturns, TypeOK
<1>2. todo' = Tail(todo) /\ clock' = clock /\ applied_tags' = applied_tags /\ log' = log
  BY DEF ImportReturns
<1> QED
  BY <1>1, <1>2, HeadTailProperties

\* An import preserves the invariant, step by step.
LEMMA ImportIInv ==
  ASSUME IInv, Import
  PROVE  IInv'
<1>1. CASE ImportNext
  <2> DEFINE b == todo[1]
             s == log[b.from][NextPending(b)]
  <2>1. /\ TypeOK /\ ClockAhead /\ OriginKnows /\ BatchesInLogs
        /\ b \in Batch /\ b.to \in Replica /\ b.from \in Replica
        /\ NextPending(b) \in 1..Len(log[b.from]) /\ s \in StampedOp
        /\ todo' \in Seq(Batch) /\ Len(todo') = Len(todo) /\ Len(todo) \in Nat
        /\ todo'[1].from = b.from /\ todo'[1].pending \subseteq b.pending
        /\ \A n \in 2..Len(todo) : todo'[n] = todo[n]
    BY <1>1, ImportNextEffect, LenProperties DEF IInv, Batch, TypeOK
  <2>2. PICK now \in WallClock : Apply(b.to, clock[b.to], s, now)
    BY <1>1, ImportNextEffect
  <2>3. HlcLT(HlcZero, s.tag.hlc)
    BY SMTT(60), <2>1 DEF ClockAhead
  <2>4. \E k \in 1..Len(log[s.tag.replica]) : log[s.tag.replica][k] = s
    BY <2>1 DEF OriginKnows
  <2>5. clock[b.to] \in Hlc
    BY <2>1 DEF TypeOK
  <2> HIDE DEF b, s
  <2>6. LogMatchesTags' /\ ClockAhead' /\ CausalTimestamps' /\ OriginKnows'
    BY <2>1, <2>2, <2>3, <2>4, <2>5, ApplyPreserves
  <2>7. /\ clock' \in [Replica -> Hlc] /\ applied_tags' \in [Replica -> SUBSET Tag]
        /\ log' \in [Replica -> Seq(StampedOp)] /\ Grows
    BY <2>1, <2>2, <2>5, ApplyEffect
  <2>8. BatchesInLogs'
    <3> SUFFICES ASSUME NEW n \in 1..Len(todo')
                 PROVE  todo'[n].pending \subseteq 1..Len(log'[todo'[n].from])
      BY DEF BatchesInLogs
    <3>1. /\ n \in 1..Len(todo) /\ todo[n].from \in Replica
          /\ todo'[n].from = todo[n].from /\ todo'[n].pending \subseteq todo[n].pending
      <4>1. CASE n = 1
        BY <2>1, <4>1 DEF b
      <4>2. CASE n # 1
        <5>1. n \in 2..Len(todo) /\ n \in 1..Len(todo)
          BY <2>1, <4>2
        <5>2. todo[n] \in Batch
          BY <2>1, <5>1, ElementOfSeq DEF TypeOK
        <5> QED
          BY <2>1, <5>1, <5>2 DEF Batch
      <4> QED
        BY <4>1, <4>2
    <3>2. todo[n].pending \subseteq 1..Len(log[todo[n].from])
      BY <2>1, <3>1 DEF BatchesInLogs
    <3>3. 1..Len(log[todo[n].from]) \subseteq 1..Len(log'[todo[n].from])
      <4>1. Len(log[todo[n].from]) \in Nat /\ Len(log'[todo[n].from]) \in Nat
        BY <2>1, <2>7, <3>1, LenProperties DEF TypeOK
      <4> QED
        BY <2>7, <3>1, <4>1 DEF Grows
    <3> QED
      BY <3>1, <3>2, <3>3
  <2> QED
    BY <2>1, <2>6, <2>7, <2>8 DEF IInv, TypeOK
<1>2. CASE ImportReturns
  <2>1. /\ TypeOK /\ BatchesInLogs
        /\ clock' = clock /\ applied_tags' = applied_tags /\ log' = log
        /\ todo' \in Seq(Batch)
        /\ \A n \in 1..Len(todo') : n + 1 \in 1..Len(todo) /\ todo'[n] = todo[n + 1]
    BY <1>2, ImportReturnsEffect DEF IInv
  <2>2. LogMatchesTags' /\ ClockAhead' /\ CausalTimestamps' /\ OriginKnows'
    BY <2>1 DEF IInv, LogMatchesTags, ClockAhead, CausalTimestamps, OriginKnows
  <2>3. TypeOK' /\ BatchesInLogs'
    BY <2>1 DEF TypeOK, BatchesInLogs
  <2> QED
    BY <2>2, <2>3 DEF IInv
<1> QED
  BY <1>1, <1>2 DEF Import

\* Every call the callers make, and the one-by-one transport, starts with
\* batches that point into their exporters' logs.
LEMMA CallsStartBatches ==
  ASSUME TypeOK,
         \/ \E a, b \in Replica : SyncSince(a, b, HlcZero)
         \/ \E a, b \in Replica : Merge(a, b)
         \/ \E a, b \in Replica : \E n \in 1..Len(log[a]) : ImportDelta(a, b, n)
         \/ \E a, b \in Replica : \E n \in 1..Len(log[a]) : DeltaSync(a, b, n)
         \/ \E a, b \in Replica : \E i \in 1..Len(log[a]) : ApplyOne(a, b, i)
  PROVE  \E batches \in Seq(Batch) :
           /\ Start(batches) /\ batches # <<>>
           /\ \A n \in 1..Len(batches) : batches[n].pending \subseteq 1..Len(log[batches[n].from])
<1>1. \A a \in Replica : Len(log[a]) \in Nat
  BY LenProperties DEF TypeOK
<1>2. ASSUME NEW a \in Replica, NEW b \in Replica, NEW hlc, SyncSince(a, b, hlc)
      PROVE  \E c \in Batch : Start(<<c>>) /\ c.pending \subseteq 1..Len(log[c.from])
  BY <1>1, <1>2, ExportIsBatch DEF SyncSince
<1>3. ASSUME NEW a \in Replica, NEW b \in Replica, NEW n \in 1..Len(log[a]),
             ImportDelta(a, b, n)
      PROVE  \E c \in Batch : Start(<<c>>) /\ c.pending \subseteq 1..Len(log[c.from])
  <2>1. n \in Nat
    BY <1>1
  <2> QED
    BY <1>3, <2>1, ExportIsBatch DEF ImportDelta
<1>4. ASSUME NEW a \in Replica, NEW b \in Replica, NEW i \in 1..Len(log[a]), ApplyOne(a, b, i)
      PROVE  \E c \in Batch : Start(<<c>>) /\ c.pending \subseteq 1..Len(log[c.from])
  <2> DEFINE c == [to |-> b, from |-> a, upto |-> 0, pending |-> {i}]
  <2>1. c \in Batch /\ c.pending \subseteq 1..Len(log[c.from])
    BY <1>1 DEF Batch
  <2> QED
    BY <1>4, <2>1 DEF ApplyOne
<1>5. ASSUME NEW a \in Replica, NEW b \in Replica, Merge(a, b)
      PROVE  \E c, d \in Batch : /\ Start(<<c, d>>)
                                 /\ c.pending \subseteq 1..Len(log[c.from])
                                 /\ d.pending \subseteq 1..Len(log[d.from])
  <2> DEFINE c == Export(b, a, HlcZero, Len(log[b]))
             d == Export(a, b, HlcZero, Len(log[a]))
  <2>1. c \in Batch /\ c.pending \subseteq 1..Len(log[c.from])
    BY <1>1, ExportIsBatch
  <2>2. d \in Batch /\ d.pending \subseteq 1..Len(log[d.from])
    BY <1>1, ExportIsBatch
  <2>3. Start(<<c, d>>)
    BY <1>5 DEF Merge
  <2> QED
    BY <2>1, <2>2, <2>3
<1>6. ASSUME NEW c \in Batch, c.pending \subseteq 1..Len(log[c.from]), Start(<<c>>)
      PROVE  \E batches \in Seq(Batch) :
               /\ Start(batches) /\ batches # <<>>
               /\ \A n \in 1..Len(batches) :
                    batches[n].pending \subseteq 1..Len(log[batches[n].from])
  <2> DEFINE batches == <<c>>
  <2>1. batches \in Seq(Batch) /\ batches # <<>> /\ 1..Len(batches) = {1} /\ batches[1] = c
    OBVIOUS
  <2>2. Start(batches)
    BY <1>6
  <2> HIDE DEF batches
  <2> QED
    BY <1>6, <2>1, <2>2
<1>7. ASSUME NEW c \in Batch, NEW d \in Batch, Start(<<c, d>>),
             c.pending \subseteq 1..Len(log[c.from]), d.pending \subseteq 1..Len(log[d.from])
      PROVE  \E batches \in Seq(Batch) :
               /\ Start(batches) /\ batches # <<>>
               /\ \A n \in 1..Len(batches) :
                    batches[n].pending \subseteq 1..Len(log[batches[n].from])
  <2> DEFINE batches == <<c, d>>
  <2>1. /\ batches \in Seq(Batch) /\ batches # <<>> /\ 1..Len(batches) = {1, 2}
        /\ batches[1] = c /\ batches[2] = d
    OBVIOUS
  <2>2. Start(batches)
    BY <1>7
  <2> HIDE DEF batches
  <2> QED
    BY <1>7, <2>1, <2>2
<1>8. ASSUME NEW a \in Replica, NEW b \in Replica, NEW n \in 1..Len(log[a]), DeltaSync(a, b, n)
      PROVE  \E c \in Batch : Start(<<c>>) /\ c.pending \subseteq 1..Len(log[c.from])
  BY <1>2, <1>8 DEF DeltaSync
<1> QED
  BY <1>2, <1>3, <1>4, <1>5, <1>6, <1>7, <1>8

\* Every step of every call, and doing nothing, preserves the invariant.
LEMMA NextIInv == IInv /\ [AnyOrderNext]_vars => IInv'
<1> SUFFICES ASSUME IInv, [AnyOrderNext]_vars PROVE IInv'
  OBVIOUS
<1>1. CASE \E r \in Replica, op \in Operation : Mint(r, op)
  BY <1>1, MintIInv
<1>2. CASE \/ \E a, b \in Replica : SyncSince(a, b, HlcZero)
           \/ \E a, b \in Replica : Merge(a, b)
           \/ \E a, b \in Replica : \E n \in 1..Len(log[a]) : ImportDelta(a, b, n)
           \/ \E a, b \in Replica : \E n \in 1..Len(log[a]) : DeltaSync(a, b, n)
           \/ \E a, b \in Replica : \E i \in 1..Len(log[a]) : ApplyOne(a, b, i)
  <2>1. TypeOK
    BY DEF IInv
  <2> QED
    BY <1>2, <2>1, CallsStartBatches, StartIInv
<1>3. CASE Import
  BY <1>3, ImportIInv
<1>4. CASE UNCHANGED vars
  <2>1. clock' = clock /\ applied_tags' = applied_tags /\ log' = log /\ todo' = todo
    BY <1>4 DEF vars
  <2>2. TypeOK' /\ LogMatchesTags' /\ ClockAhead'
    BY <2>1 DEF IInv, TypeOK, LogMatchesTags, ClockAhead
  <2>3. CausalTimestamps' /\ BatchesInLogs'
    BY <2>1 DEF IInv, CausalTimestamps, BatchesInLogs
  <2>4. OriginKnows'
    BY <2>1 DEF IInv, OriginKnows
  <2> QED
    BY <2>2, <2>3, <2>4 DEF IInv
<1> QED
  BY <1>1, <1>2, <1>3, <1>4 DEF AnyOrderNext, Next

-----------------------------------------------------------------------------
\* The inductive invariant holds of every behaviour, also when operations
\* travel one by one and in any order (Forest::apply).
THEOREM AnyOrderInvariant == AnyOrderSpec => []IInv
<1> QED
  BY InitIInv, NextIInv, PTL DEF AnyOrderSpec

\* Shipping whole logs is a special case of applying operations in any order.
THEOREM SpecIsAnyOrder == Spec => AnyOrderSpec
<1>1. [Next]_vars => [AnyOrderNext]_vars
  BY DEF AnyOrderNext
<1> QED
  BY <1>1, PTL DEF Spec, AnyOrderSpec

\* The variables keep their types.
THEOREM TypeCorrect == AnyOrderSpec => []TypeOK
<1>1. IInv => TypeOK
  BY DEF IInv
<1> QED
  BY <1>1, AnyOrderInvariant, PTL

\* Every applied operation is in the log exactly once (Forest::apply).
THEOREM LogsMatchTags == AnyOrderSpec => []LogMatchesTags
<1>1. IInv => LogMatchesTags
  BY DEF IInv
<1> QED
  BY <1>1, AnyOrderInvariant, PTL

\* Timestamps respect causality whatever the wall clocks do (hlc.rs).
THEOREM TimestampsAreCausal == AnyOrderSpec => []CausalTimestamps
<1>1. IInv => CausalTimestamps
  BY DEF IInv
<1> QED
  BY <1>1, AnyOrderInvariant, PTL

\* What circulates under a tag is in its minter's log, where no tag occurs
\* twice: two entries with one tag are the same operation.
LEMMA TagsIdentify == IInv => TagsIdentifyOps
<1> SUFFICES ASSUME IInv, NEW q \in Replica, NEW r \in Replica,
                    NEW i \in 1..Len(log[q]), NEW j \in 1..Len(log[r]),
                    log[q][i].tag = log[r][j].tag
             PROVE  log[q][i] = log[r][j]
  BY DEF TagsIdentifyOps
<1>1. PICK k \in 1..Len(log[log[q][i].tag.replica]) :
        log[log[q][i].tag.replica][k] = log[q][i]
  BY OriginHasIt
<1>2. PICK l \in 1..Len(log[log[r][j].tag.replica]) :
        log[log[r][j].tag.replica][l] = log[r][j]
  BY OriginHasIt
<1>3. log[q][i].tag.replica \in Replica
  BY OriginHasIt
<1> DEFINE o == log[q][i].tag.replica
<1>4. o = log[r][j].tag.replica
  OBVIOUS
<1>5. log[o][k].tag = log[o][l].tag /\ k \in 1..Len(log[o]) /\ l \in 1..Len(log[o])
  BY <1>1, <1>2, <1>4
<1>6. \A x, y \in 1..Len(log[o]) : log[o][x].tag = log[o][y].tag => x = y
  BY SMTT(60), <1>3 DEF IInv, LogMatchesTags
<1>7. k = l
  BY <1>5, <1>6
<1> QED
  BY <1>1, <1>2, <1>4, <1>7

\* A tag names one operation on all replicas (id.rs), since everything that
\* circulates is in its minter's log, where no tag occurs twice.
THEOREM TagsAreUnique == AnyOrderSpec => []TagsIdentifyOps
<1> QED
  BY TagsIdentify, AnyOrderInvariant, PTL

\* A replica's clock stays beyond all it has applied, whatever wall clocks do
\* (HlcClock::tick, HlcClock::observe), so that no stamp is given twice.
THEOREM ClocksStayAhead == AnyOrderSpec => []ClockAhead
<1>1. IInv => ClockAhead
  BY DEF IInv
<1> QED
  BY <1>1, AnyOrderInvariant, PTL

\* Nothing circulates under the name of a replica that is not in its own log
\* (Forest::apply, OpLog::since).
THEOREM OriginsKnowTheirOps == AnyOrderSpec => []OriginKnows
<1>1. IInv => OriginKnows
  BY DEF IInv
<1> QED
  BY <1>1, AnyOrderInvariant, PTL

-----------------------------------------------------------------------------
\* Local mutations are never swallowed.

\* An operation just minted goes to the end of its replica's log.
LEMMA MintAppends ==
  ASSUME IInv, NEW r \in Replica, NEW op \in Operation, Mint(r, op)
  PROVE  Len(log'[r]) = Len(log[r]) + 1
<1>1. PICK ticked \in WallClock, observed \in WallClock :
        Apply(r, Tick(clock[r], ticked),
              [tag |-> [replica |-> r, hlc |-> Tick(clock[r], ticked)], op |-> op], observed)
  BY DEF Mint
<1> DEFINE t == Tick(clock[r], ticked)
           s == [tag |-> [replica |-> r, hlc |-> t], op |-> op]
<1>2. TypeOK /\ t \in Hlc /\ HlcLT(clock[r], t)
  BY TickAdvances, WallClockAssumption DEF IInv, TypeOK
<1>3. Apply(r, t, s, observed)
  BY <1>1
<1> HIDE DEF t
<1>4. s \in StampedOp /\ s.tag \in Tag /\ s.tag.hlc = t
  BY <1>2 DEF StampedOp, Tag
<1> HIDE DEF s
<1>5. s.tag \notin applied_tags[r]
  BY <1>2, <1>4, BeyondClockIsNew
<1> QED
  BY <1>2, <1>3, <1>4, <1>5, ApplyEffect

\* A step that is no part of an import adds to a log: no local mutation is
\* taken for a replay, whatever the wall clock does.
THEOREM LocalOpsAreKept == Spec => NoLocalOpLost
<1>1. IInv /\ [Next]_vars =>
        [UNCHANGED todo => \E r \in Replica : Len(log'[r]) = Len(log[r]) + 1]_vars
  <2> SUFFICES ASSUME IInv, Next, todo' = todo
               PROVE  \E r \in Replica : Len(log'[r]) = Len(log[r]) + 1
    OBVIOUS
  <2>1. CASE \E r \in Replica, op \in Operation : Mint(r, op)
    BY <2>1, MintAppends
  <2>2. CASE \/ \E a, b \in Replica : SyncSince(a, b, HlcZero)
             \/ \E a, b \in Replica : Merge(a, b)
             \/ \E a, b \in Replica : \E n \in 1..Len(log[a]) : ImportDelta(a, b, n)
    <3>1. TypeOK
      BY DEF IInv
    <3>2. \E batches \in Seq(Batch) : Start(batches) /\ batches # <<>>
      BY <2>2, <3>1, CallsStartBatches
    <3> QED
      BY <3>2 DEF Start, Idle
  <2>3. CASE ImportNext
    <3>1. /\ NextPending(todo[1]) \in todo[1].pending
          /\ todo'[1].pending = todo[1].pending \ {NextPending(todo[1])}
      BY <2>3, ImportNextEffect
    <3> QED
      BY <3>1
  <2>4. CASE ImportReturns
    BY <2>4, ImportReturnsEffect DEF IInv
  <2> QED
    BY <2>1, <2>2, <2>3, <2>4 DEF Next, Import
<1> QED
  BY <1>1, AnyOrderInvariant, SpecIsAnyOrder, PTL DEF Spec, NoLocalOpLost

-----------------------------------------------------------------------------
\* Whole logs are delivered causally.

\* A step that leaves the logs alone leaves them causal.
LEMMA SameLogsCausal ==
  ASSUME CausalLogs, log' = log
  PROVE  CausalLogs'
<1> DEFINE Causal(l) ==
      \A q, r \in Replica : \A j \in 1..Len(l[q]), k \in 1..Len(l[r]) :
        /\ l[q][j].tag.replica = r
        /\ l[q][j].tag = l[r][k].tag
        => \A h \in 1..(k - 1) : \E i \in 1..(j - 1) : l[q][i].tag = l[r][h].tag
<1>1. Causal(log)
  BY Zenon DEF CausalLogs
<1>2. Causal(log')
  <2> HIDE DEF Causal
  <2> QED  BY <1>1, Zenon
<1> QED
  BY <1>2, Zenon DEF CausalLogs

\* Forest::apply keeps the logs causal if the importer already has what stands
\* before the operation in the exporter's log.
LEMMA ApplyCausal ==
  ASSUME IInv, CausalLogs,
         NEW r \in Replica, NEW last \in Hlc, NEW s \in StampedOp,
         NEW now \in WallClock, Apply(r, last, s, now),
         \/ s.tag.replica = r
         \/ \E p \in Replica : \E n \in 1..Len(log[p]) :
              log[p][n] = s /\ \A h \in 1..(n - 1) : log[p][h].tag \in applied_tags[r]
  PROVE  CausalLogs'
<1> DEFINE new == Len(log[r]) + 1
<1>1. /\ TypeOK /\ LogMatchesTags /\ OriginKnows
      /\ \A q \in Replica : Len(log[q]) \in Nat
  BY LenProperties DEF IInv, TypeOK
<1>2. CASE s.tag \in applied_tags[r]
  <2>1. log' = log
    BY <1>1, <1>2, ApplyEffect
  <2> QED
    BY <2>1, SameLogsCausal
<1>3. CASE s.tag \notin applied_tags[r]
  <2>1. /\ Len(log'[r]) = new /\ log'[r][new] = s /\ Grows
        /\ \A q \in Replica \ {r} : log'[q] = log[q]
    BY <1>1, <1>3, ApplyEffect
  <2>2. \A q \in Replica : \A j \in 1..Len(log[q]) :
          j \in 1..Len(log'[q]) /\ log'[q][j] = log[q][j]
    BY <1>1, <2>1 DEF Grows
  <2>3. \A q \in Replica : \A j \in 1..Len(log'[q]) :
          \/ j \in 1..Len(log[q]) /\ log'[q][j] = log[q][j]
          \/ q = r /\ j = new /\ log'[q][j] = s
    BY <1>1, <2>1, <2>2
  <2>4. \A i \in 1..Len(log[r]) : log[r][i].tag # s.tag
    BY <1>1, <1>3 DEF LogMatchesTags
  <2>5. \A i \in 1..Len(log[r]) : i \in 1..(new - 1)
    BY <1>1
  <2>6. new \in Nat
    BY <1>1
  <2> HIDE DEF new
  <2> SUFFICES ASSUME NEW q \in Replica, NEW o \in Replica,
                      NEW j \in 1..Len(log'[q]), NEW k \in 1..Len(log'[o]),
                      log'[q][j].tag.replica = o, log'[q][j].tag = log'[o][k].tag,
                      NEW h \in 1..(k - 1)
               PROVE  \E i \in 1..(j - 1) : log'[q][i].tag = log'[o][h].tag
    BY SMTT(60) DEF CausalLogs
  <2>7. CASE j \in 1..Len(log[q]) /\ log'[q][j] = log[q][j]
    <3>1. k \in 1..Len(log[o]) /\ log'[o][k] = log[o][k]
      <4> SUFFICES ASSUME o = r, log'[o][k] = s PROVE FALSE
        BY <2>3
      <4>1. PICK l \in 1..Len(log[log[q][j].tag.replica]) :
              log[log[q][j].tag.replica][l] = log[q][j]
        BY <2>7, OriginHasIt
      <4>2. log[q][j].tag.replica = r /\ log[q][j].tag = s.tag
        BY <2>7
      <4> QED
        BY <2>4, <4>1, <4>2
    <3>2. h \in 1..Len(log[o]) /\ log'[o][h] = log[o][h]
      BY <1>1, <2>2, <3>1
    <3>3. PICK i \in 1..(j - 1) : log[q][i].tag = log[o][h].tag
      <4>1. log[q][j].tag.replica = o /\ log[q][j].tag = log[o][k].tag
        BY <2>7, <3>1
      <4> QED
        BY <2>7, <3>1, <4>1 DEF CausalLogs
    <3>4. i \in 1..Len(log[q]) /\ log'[q][i] = log[q][i]
      BY <1>1, <2>2, <2>7
    <3> QED
      BY <3>2, <3>3, <3>4
  <2>8. CASE q = r /\ j = new /\ log'[q][j] = s
    <3>1. CASE o = r
      <4>1. k = new
        BY <2>3, <2>4, <2>8, <3>1
      <4> QED
        BY <2>8, <3>1, <4>1
    <3>2. CASE o # r
      <4>1. k \in 1..Len(log[o]) /\ log'[o][k] = log[o][k]
        BY <2>3, <3>2
      <4>2. h \in 1..Len(log[o]) /\ log'[o][h] = log[o][h]
        BY <1>1, <2>2, <4>1
      <4>3. PICK p \in Replica : \E n \in 1..Len(log[p]) :
              log[p][n] = s /\ \A m \in 1..(n - 1) : log[p][m].tag \in applied_tags[r]
        BY <2>8, <3>2
      <4>4. PICK n \in 1..Len(log[p]) :
              log[p][n] = s /\ \A m \in 1..(n - 1) : log[p][m].tag \in applied_tags[r]
        BY <4>3
      <4>5. PICK m \in 1..(n - 1) : log[p][m].tag = log[o][h].tag
        <5>1. log[p][n].tag.replica = o /\ log[p][n].tag = log[o][k].tag
          BY <2>8, <4>1, <4>4
        <5> QED
          BY <4>1, <5>1 DEF CausalLogs
      <4>6. PICK i \in 1..Len(log[r]) : log[r][i].tag = log[o][h].tag
        <5>1. log[o][h].tag \in applied_tags[r]
          BY <4>4, <4>5
        <5>2. applied_tags[r] = {log[r][i].tag : i \in 1..Len(log[r])}
          BY <1>1 DEF LogMatchesTags
        <5> QED
          BY <5>1, <5>2
      <4>7. i \in 1..(j - 1) /\ log'[q][i] = log[r][i]
        BY <2>2, <2>5, <2>8
      <4> QED
        BY <4>2, <4>6, <4>7
    <3> QED
      BY <3>1, <3>2
  <2> QED
    BY <2>3, <2>7, <2>8
<1> QED
  BY <1>2, <1>3

\* An export from the beginning of time is a whole prefix of the log.
LEMMA ExportIsPrefix ==
  ASSUME IInv, NEW from \in Replica, NEW to \in Replica, NEW n \in Nat, n <= Len(log[from])
  PROVE  LET c == Export(from, to, HlcZero, n) IN
         /\ c \in Batch /\ c.from = from /\ c.to = to /\ c.upto = n /\ c.pending = 1..n
<1> DEFINE c == Export(from, to, HlcZero, n)
<1>1. TypeOK /\ ClockAhead /\ Len(log[from]) \in Nat
  BY LenProperties DEF IInv, TypeOK
<1>2. /\ c \in Batch /\ c.from = from /\ c.to = to /\ c.upto = n
      /\ c.pending
           = {i \in 1..Len(log[from]) : HlcLT(HlcZero, log[from][i].tag.hlc)} \cap 1..n
  BY <1>1, ExportIsBatch
<1>3. \A i \in 1..Len(log[from]) : HlcLT(HlcZero, log[from][i].tag.hlc)
  BY <1>1 DEF ClockAhead
<1>4. 1..n \subseteq 1..Len(log[from])
  BY <1>1
<1>5. c.pending = 1..n
  <2> HIDE DEF c
  <2> QED
    BY <1>2, <1>3, <1>4
<1> QED
  BY <1>2, <1>5

\* The calls that ship whole logs start with whole prefixes.
LEMMA CallsStartPrefixes ==
  ASSUME IInv,
         \/ \E a, b \in Replica : SyncSince(a, b, HlcZero)
         \/ \E a, b \in Replica : Merge(a, b)
         \/ \E a, b \in Replica : \E n \in 1..Len(log[a]) : ImportDelta(a, b, n)
  PROVE  /\ UNCHANGED <<clock, applied_tags, log>>
         /\ \A n \in 1..Len(todo') :
              /\ todo'[n] \in Batch
              /\ todo'[n].upto <= Len(log[todo'[n].from])
              /\ todo'[n].pending = 1..todo'[n].upto
<1> DEFINE Prefix(c) == c \in Batch /\ c.upto <= Len(log[c.from]) /\ c.pending = 1..c.upto
<1>1. \A a \in Replica : Len(log[a]) \in Nat
  BY LenProperties DEF IInv, TypeOK
<1>2. ASSUME NEW a \in Replica, NEW b \in Replica, SyncSince(a, b, HlcZero)
      PROVE  \E c : Start(<<c>>) /\ Prefix(c)
  <2> DEFINE c == Export(a, b, HlcZero, Len(log[a]))
  <2>1. Prefix(c)
    BY <1>1, ExportIsPrefix
  <2> QED
    BY <1>2, <2>1 DEF SyncSince
<1>3. ASSUME NEW a \in Replica, NEW b \in Replica, NEW n \in 1..Len(log[a]),
             ImportDelta(a, b, n)
      PROVE  \E c : Start(<<c>>) /\ Prefix(c)
  <2> DEFINE c == Export(a, b, HlcZero, n)
  <2>1. n \in Nat /\ n <= Len(log[a])
    BY <1>1
  <2>2. Prefix(c)
    BY <2>1, ExportIsPrefix
  <2> QED
    BY <1>3, <2>2 DEF ImportDelta
<1>4. ASSUME NEW a \in Replica, NEW b \in Replica, Merge(a, b)
      PROVE  \E c, d : Start(<<c, d>>) /\ Prefix(c) /\ Prefix(d)
  <2> DEFINE c == Export(b, a, HlcZero, Len(log[b]))
             d == Export(a, b, HlcZero, Len(log[a]))
  <2>1. Prefix(c) /\ Prefix(d)
    BY <1>1, ExportIsPrefix
  <2> QED
    BY <1>4, <2>1 DEF Merge
<1>5. ASSUME NEW c, Start(<<c>>), Prefix(c)
      PROVE  /\ UNCHANGED <<clock, applied_tags, log>>
             /\ \A n \in 1..Len(todo') : Prefix(todo'[n])
  <2>1. todo' = <<c>> /\ UNCHANGED <<clock, applied_tags, log>>
    BY <1>5 DEF Start
  <2> HIDE DEF Prefix
  <2> QED
    BY <1>5, <2>1
<1>6. ASSUME NEW c, NEW d, Start(<<c, d>>), Prefix(c), Prefix(d)
      PROVE  /\ UNCHANGED <<clock, applied_tags, log>>
             /\ \A n \in 1..Len(todo') : Prefix(todo'[n])
  <2>1. todo' = <<c, d>> /\ UNCHANGED <<clock, applied_tags, log>>
    BY <1>6 DEF Start
  <2>2. Len(todo') = 2 /\ 1..2 = {1, 2} /\ todo'[1] = c /\ todo'[2] = d
    BY <2>1
  <2> HIDE DEF Prefix
  <2> QED
    BY <1>6, <2>1, <2>2
<1> QED
  BY <1>2, <1>3, <1>4, <1>5, <1>6

\* One iteration of apply_all keeps the invariant of whole prefixes: what
\* stands before the operation taken has been applied already.
LEMMA ImportNextPrefixInv ==
  ASSUME PrefixInv, ImportNext
  PROVE  WholePrefixes' /\ ImportCovers' /\ CausalLogs'
<1> DEFINE b == todo[1]
           i == NextPending(b)
           s == log[b.from][i]
<1>1. /\ IInv /\ TypeOK /\ WholePrefixes /\ ImportCovers /\ CausalLogs
      /\ todo \in Seq(Batch) /\ Len(todo) \in Nat
      /\ \A q \in Replica : Len(log[q]) \in Nat
  BY LenProperties DEF PrefixInv, IInv, TypeOK
<1>2. /\ 1 \in 1..Len(todo) /\ b \in Batch /\ b.to \in Replica /\ b.from \in Replica
      /\ b.pending \subseteq 1..Len(log[b.from])
      /\ i \in b.pending /\ \A j \in b.pending : i <= j
      /\ s \in StampedOp
      /\ Len(todo') = Len(todo)
      /\ todo'[1].to = b.to /\ todo'[1].from = b.from /\ todo'[1].upto = b.upto
      /\ todo'[1].pending = b.pending \ {i}
      /\ \A n \in 2..Len(todo) : todo'[n] = todo[n]
  BY <1>1, ImportNextEffect DEF Batch
<1>3. PICK now \in WallClock : Apply(b.to, clock[b.to], s, now)
  BY <1>1, ImportNextEffect
<1>4. clock[b.to] \in Hlc /\ b.upto \in Nat
  BY <1>1, <1>2 DEF TypeOK, Batch
<1>5. b.upto <= Len(log[b.from]) /\ b.pending \subseteq 1..b.upto
  BY <1>1, <1>2 DEF WholePrefixes
<1>6. \A h \in 1..(i - 1) : log[b.from][h].tag \in applied_tags[b.to]
  <2> SUFFICES ASSUME NEW h \in 1..(i - 1)
               PROVE  log[b.from][h].tag \in applied_tags[b.to]
    OBVIOUS
  <2>1. i \in 1..b.upto
    BY <1>2, <1>5
  <2>2. h \in 1..b.upto /\ h \notin b.pending
    BY <1>2, <1>4, <2>1
  <2> QED
    BY <1>1, <1>2, <2>2 DEF ImportCovers
<1>7. i \in 1..Len(log[b.from]) /\ log[b.from][i] = s
  BY <1>2
<1> HIDE DEF b, i, s
<1>8. /\ Grows /\ s.tag \in applied_tags'[b.to]
      /\ \A q \in Replica : Len(log'[q]) \in Nat
  <2>1. Grows /\ s.tag \in applied_tags'[b.to] /\ log' \in [Replica -> Seq(StampedOp)]
    BY <1>1, <1>2, <1>3, <1>4, ApplyEffect
  <2> QED
    BY <2>1, LenProperties
<1>9. CausalLogs'
  BY <1>1, <1>2, <1>3, <1>4, <1>6, <1>7, ApplyCausal
<1>10. ASSUME NEW n \in 1..Len(todo')
       PROVE  /\ n \in 1..Len(todo) /\ todo[n] \in Batch
              /\ todo[n].upto <= Len(log[todo[n].from])
              /\ todo[n].pending \subseteq 1..todo[n].upto
              /\ todo[n].from \in Replica /\ todo[n].to \in Replica /\ todo[n].upto \in Nat
              /\ todo'[n].to = todo[n].to /\ todo'[n].from = todo[n].from
              /\ todo'[n].upto = todo[n].upto
              /\ todo'[n].pending = IF n = 1 THEN todo[1].pending \ {i} ELSE todo[n].pending
  <2>1. n \in 1..Len(todo) /\ (n = 1 \/ n \in 2..Len(todo))
    BY <1>1, <1>2
  <2>2. todo[n] \in Batch
    BY <1>1, <2>1, ElementOfSeq
  <2>3. todo[n].from \in Replica /\ todo[n].to \in Replica /\ todo[n].upto \in Nat
    BY <2>2 DEF Batch
  <2>4. todo[n].upto <= Len(log[todo[n].from]) /\ todo[n].pending \subseteq 1..todo[n].upto
    BY <1>1, <2>1 DEF WholePrefixes
  <2>5. CASE n = 1
    BY <1>2, <2>1, <2>2, <2>3, <2>4, <2>5 DEF b
  <2>6. CASE n \in 2..Len(todo)
    <3>1. n # 1 /\ todo'[n] = todo[n]
      BY <1>2, <2>6
    <3> QED
      BY <2>1, <2>2, <2>3, <2>4, <3>1
  <2> QED
    BY <2>1, <2>5, <2>6
<1>11. WholePrefixes'
  <2> SUFFICES ASSUME NEW n \in 1..Len(todo')
               PROVE  /\ todo'[n].upto <= Len(log'[todo'[n].from])
                      /\ todo'[n].pending \subseteq 1..todo'[n].upto
    BY DEF WholePrefixes
  <2>1. Len(log[todo[n].from]) <= Len(log'[todo[n].from])
    BY <1>8, <1>10 DEF Grows
  <2>2. todo[n].upto <= Len(log'[todo[n].from])
    BY <1>1, <1>8, <1>10, <2>1
  <2> QED
    BY <1>10, <2>2
<1>12. ImportCovers'
  <2> SUFFICES ASSUME NEW n \in 1..Len(todo'), NEW j \in 1..todo'[n].upto,
                      j \notin todo'[n].pending
               PROVE  log'[todo'[n].from][j].tag \in applied_tags'[todo'[n].to]
    BY DEF ImportCovers
  <2> DEFINE from == todo[n].from
             to == todo[n].to
  <2>1. j \in 1..todo[n].upto /\ j \in 1..Len(log[from])
    BY <1>1, <1>10
  <2>2. log'[from][j] = log[from][j] /\ applied_tags[to] \subseteq applied_tags'[to]
    BY <1>8, <1>10, <2>1 DEF Grows
  <2>3. CASE j \in todo[n].pending
    <3>1. n = 1 /\ j = i
      BY <1>10, <2>3
    <3> QED
      BY <1>7, <1>8, <1>10, <2>2, <3>1 DEF b
  <2>4. CASE j \notin todo[n].pending
    <3>1. log[from][j].tag \in applied_tags[to]
      BY <1>1, <1>10, <2>1, <2>4 DEF ImportCovers
    <3> QED
      BY <1>10, <2>2, <3>1
  <2> QED
    BY <2>3, <2>4
<1> QED
  BY <1>9, <1>11, <1>12

\* New forests satisfy the invariant of whole prefixes.
LEMMA InitPrefixInv == Init => PrefixInv
<1> SUFFICES ASSUME Init PROVE WholePrefixes /\ ImportCovers /\ CausalLogs
  BY InitIInv DEF PrefixInv
<1>1. WholePrefixes /\ ImportCovers
  BY DEF Init, WholePrefixes, ImportCovers
<1>2. \A r \in Replica : 1..Len(log[r]) = {}
  BY DEF Init
<1> QED
  BY <1>1, <1>2 DEF CausalLogs

\* Every step of a system that ships whole logs preserves the invariant of
\* whole prefixes.
LEMMA NextPrefixInv == PrefixInv /\ [Next]_vars => PrefixInv'
<1> SUFFICES ASSUME PrefixInv, [Next]_vars
             PROVE  WholePrefixes' /\ ImportCovers' /\ CausalLogs'
  BY NextIInv DEF PrefixInv, AnyOrderNext
<1>1. IInv /\ TypeOK /\ WholePrefixes /\ ImportCovers /\ CausalLogs
  BY DEF PrefixInv, IInv
<1>2. CASE \E r \in Replica, op \in Operation : Mint(r, op)
  <2>1. PICK r \in Replica, op \in Operation : Mint(r, op)
    BY <1>2
  <2>2. todo' = <<>>
    BY <2>1 DEF Mint, Idle
  <2>3. WholePrefixes' /\ ImportCovers'
    BY <2>2 DEF WholePrefixes, ImportCovers
  <2>4. PICK ticked \in WallClock, observed \in WallClock :
          Apply(r, Tick(clock[r], ticked),
                [tag |-> [replica |-> r, hlc |-> Tick(clock[r], ticked)], op |-> op], observed)
    BY <2>1 DEF Mint
  <2> DEFINE t == Tick(clock[r], ticked)
             s == [tag |-> [replica |-> r, hlc |-> t], op |-> op]
  <2>5. t \in Hlc
    BY <1>1, TickAdvances, WallClockAssumption DEF TypeOK
  <2>6. Apply(r, t, s, observed)
    BY <2>4
  <2> HIDE DEF t
  <2>7. s \in StampedOp /\ s.tag.replica = r
    BY <2>5 DEF StampedOp, Tag
  <2> HIDE DEF s
  <2>8. CausalLogs'
    BY <1>1, <2>5, <2>6, <2>7, ApplyCausal
  <2> QED
    BY <2>3, <2>8
<1>3. CASE \/ \E a, b \in Replica : SyncSince(a, b, HlcZero)
           \/ \E a, b \in Replica : Merge(a, b)
           \/ \E a, b \in Replica : \E n \in 1..Len(log[a]) : ImportDelta(a, b, n)
  <2>1. /\ log' = log
        /\ \A n \in 1..Len(todo') :
             /\ todo'[n].upto <= Len(log[todo'[n].from])
             /\ todo'[n].pending = 1..todo'[n].upto
    BY <1>1, <1>3, CallsStartPrefixes
  <2>2. WholePrefixes' /\ ImportCovers'
    BY <2>1 DEF WholePrefixes, ImportCovers
  <2> QED
    BY <1>1, <2>1, <2>2, SameLogsCausal
<1>4. CASE ImportNext
  BY <1>4, ImportNextPrefixInv
<1>5. CASE ImportReturns
  <2>1. /\ clock' = clock /\ applied_tags' = applied_tags /\ log' = log
        /\ \A n \in 1..Len(todo') : n + 1 \in 1..Len(todo) /\ todo'[n] = todo[n + 1]
    BY <1>1, <1>5, ImportReturnsEffect
  <2>2. WholePrefixes' /\ ImportCovers'
    BY <1>1, <2>1 DEF WholePrefixes, ImportCovers
  <2> QED
    BY <1>1, <2>1, <2>2, SameLogsCausal
<1>6. CASE UNCHANGED vars
  <2>1. clock' = clock /\ applied_tags' = applied_tags /\ log' = log /\ todo' = todo
    BY <1>6 DEF vars
  <2>2. WholePrefixes' /\ ImportCovers'
    BY <1>1, <2>1 DEF WholePrefixes, ImportCovers
  <2> QED
    BY <1>1, <2>1, <2>2, SameLogsCausal
<1> QED
  BY <1>2, <1>3, <1>4, <1>5, <1>6 DEF Next, Import

\* The invariant of whole prefixes holds as long as the callers ship whole logs
\* (sync_since from Hlc::ZERO, merge, import_delta).
THEOREM PrefixInvariant == Spec => []PrefixInv
<1> QED
  BY InitPrefixInv, NextPrefixInv, PTL DEF Spec

\* An import leaves nothing of its batch behind (sync_since, merge,
\* import_delta).
THEOREM ImportsCover == Spec => []ImportCovers
<1>1. PrefixInv => ImportCovers
  BY DEF PrefixInv
<1> QED
  BY <1>1, PrefixInvariant, PTL

\* As long as whole logs are shipped, every operation arrives after the
\* operations its minter had applied, however the batches travel.
THEOREM LogsAreCausal == Spec => []CausalLogs
<1>1. PrefixInv => CausalLogs
  BY DEF PrefixInv
<1> QED
  BY <1>1, PrefixInvariant, PTL
-----------------------------------------------------------------------------
\* A cursor by timestamp skips nothing its exporter has made.

\* sync_since from a cursor: what the exporter minted behind the cursor has a
\* larger timestamp than everything before it in the log (CausalTimestamps).
LEMMA DeltaCoversOwn ==
  ASSUME IInv, NEW a \in Replica, NEW b \in Replica, NEW n \in 1..Len(log[a]), DeltaSync(a, b, n)
  PROVE  \E c : Start(<<c>>) /\ OwnCovered(c)
<1>1. TypeOK /\ CausalTimestamps /\ Len(log[a]) \in Nat
  BY LenProperties DEF IInv, TypeOK
<1>2. PICK k \in 1..n : SyncSince(a, b, log[a][k].tag.hlc)
  BY DEF DeltaSync
<1> DEFINE c == Export(a, b, log[a][k].tag.hlc, Len(log[a]))
<1>3. Start(<<c>>)
  BY <1>2 DEF SyncSince
<1>4. /\ c.from = a /\ c.to = b /\ c.upto = Len(log[a])
      /\ c.pending = {i \in 1..Len(log[a]) : HlcLT(log[a][k].tag.hlc, log[a][i].tag.hlc)}
                     \cap 1..Len(log[a])
  BY <1>1, ExportIsBatch
<1> HIDE DEF c
<1>5. ASSUME NEW i \in 1..Len(log[a]), log[a][i].tag.replica = a
      PROVE  i \in c.pending \/ log[a][i].tag \in applied_tags[b]
  <2>1. CASE i <= n
    BY <1>1, <2>1 DEF DeltaSync
  <2>2. CASE n < i
    <3>1. k \in 1..Len(log[a]) /\ k < i
      BY <1>1, <2>2
    <3>2. HlcLT(log[a][k].tag.hlc, log[a][i].tag.hlc)
      BY <1>1, <1>5, <3>1 DEF CausalTimestamps
    <3> QED
      BY <1>4, <3>2
  <2> QED
    BY <1>1, <2>1, <2>2
<1>6. OwnCovered(c)
  BY <1>1, <1>4, <1>5 DEF OwnCovered
<1> QED
  BY <1>3, <1>6

\* The batches of every call cover what their exporters made.
LEMMA CallsCoverOwn ==
  ASSUME IInv,
         \/ \E a, b \in Replica : SyncSince(a, b, HlcZero)
         \/ \E a, b \in Replica : Merge(a, b)
         \/ \E a, b \in Replica : \E n \in 1..Len(log[a]) : ImportDelta(a, b, n)
         \/ \E a, b \in Replica : \E n \in 1..Len(log[a]) : DeltaSync(a, b, n)
         \/ \E a, b \in Replica : \E i \in 1..Len(log[a]) : ApplyOne(a, b, i)
  PROVE  OwnOpsCovered'
<1>1. CASE \/ \E a, b \in Replica : SyncSince(a, b, HlcZero)
           \/ \E a, b \in Replica : Merge(a, b)
           \/ \E a, b \in Replica : \E n \in 1..Len(log[a]) : ImportDelta(a, b, n)
  BY <1>1, CallsStartPrefixes DEF OwnOpsCovered, OwnCovered
<1>2. ASSUME NEW c, Start(<<c>>), OwnCovered(c)
      PROVE  OwnOpsCovered'
  <2>1. todo' = <<c>> /\ applied_tags' = applied_tags /\ log' = log
    BY <1>2 DEF Start
  <2>2. Len(todo') = 1 /\ todo'[1] = c
    BY <2>1
  <2> QED
    BY <1>2, <2>1, <2>2 DEF OwnOpsCovered, OwnCovered
<1>3. ASSUME NEW a \in Replica, NEW b \in Replica, NEW n \in 1..Len(log[a]), DeltaSync(a, b, n)
      PROVE  OwnOpsCovered'
  BY <1>2, <1>3, DeltaCoversOwn
<1>4. ASSUME NEW a \in Replica, NEW b \in Replica, NEW i \in 1..Len(log[a]), ApplyOne(a, b, i)
      PROVE  OwnOpsCovered'
  <2> DEFINE c == [to |-> b, from |-> a, upto |-> 0, pending |-> {i}]
  <2>1. Len(log[a]) \in Nat
    BY LenProperties DEF IInv, TypeOK
  <2>2. OwnCovered(c)
    BY <2>1 DEF OwnCovered
  <2> QED
    BY <1>2, <1>4, <2>2 DEF ApplyOne
<1> QED
  BY <1>1, <1>3, <1>4

\* One iteration of apply_all keeps the batches covering: the operation taken
\* off a batch is applied.
LEMMA ImportNextCoversOwn ==
  ASSUME IInv, OwnOpsCovered, ImportNext
  PROVE  OwnOpsCovered'
<1> DEFINE b == todo[1]
           i == NextPending(b)
           s == log[b.from][i]
<1>1. TypeOK /\ todo \in Seq(Batch) /\ Len(todo) \in Nat /\ \A q \in Replica : Len(log[q]) \in Nat
  BY LenProperties DEF IInv, TypeOK
<1>2. /\ 1 \in 1..Len(todo) /\ b \in Batch /\ b.to \in Replica /\ b.from \in Replica
      /\ s \in StampedOp
      /\ Len(todo') = Len(todo)
      /\ todo'[1].to = b.to /\ todo'[1].from = b.from /\ todo'[1].upto = b.upto
      /\ todo'[1].pending = b.pending \ {i}
      /\ \A n \in 2..Len(todo) : todo'[n] = todo[n]
  BY ImportNextEffect DEF Batch
<1>3. PICK now \in WallClock : Apply(b.to, clock[b.to], s, now)
  BY ImportNextEffect
<1>4. clock[b.to] \in Hlc
  BY <1>1, <1>2 DEF TypeOK
<1>5. s = log[b.from][i]
  OBVIOUS
<1> HIDE DEF b, i, s
<1>6. /\ Grows /\ s.tag \in applied_tags'[b.to]
      /\ \A q \in Replica : Len(log'[q]) \in Nat
  <2>1. Grows /\ s.tag \in applied_tags'[b.to] /\ log' \in [Replica -> Seq(StampedOp)]
    BY <1>1, <1>2, <1>3, <1>4, ApplyEffect
  <2> QED
    BY <2>1, LenProperties
<1>7. SUFFICES ASSUME NEW n \in 1..Len(todo')
               PROVE  /\ todo'[n].upto <= Len(log'[todo'[n].from])
                      /\ \A j \in 1..todo'[n].upto :
                           log'[todo'[n].from][j].tag.replica = todo'[n].from
                           => \/ j \in todo'[n].pending
                              \/ log'[todo'[n].from][j].tag \in applied_tags'[todo'[n].to]
  BY DEF OwnOpsCovered, OwnCovered
<1> DEFINE c == todo[n]
<1>8. n \in 1..Len(todo) /\ c \in Batch /\ (n = 1 \/ n \in 2..Len(todo))
  BY <1>1, <1>2, ElementOfSeq
<1>9. /\ c.from \in Replica /\ c.to \in Replica /\ c.upto \in Nat
      /\ c.upto <= Len(log[c.from])
      /\ \A j \in 1..c.upto : log[c.from][j].tag.replica = c.from
           => j \in c.pending \/ log[c.from][j].tag \in applied_tags[c.to]
  BY <1>8 DEF Batch, OwnOpsCovered, OwnCovered
<1>10. /\ todo'[n].to = c.to /\ todo'[n].from = c.from /\ todo'[n].upto = c.upto
       /\ todo'[n].pending = IF n = 1 THEN c.pending \ {i} ELSE c.pending
  <2>1. CASE n = 1
    BY <1>2, <2>1 DEF b
  <2>2. CASE n \in 2..Len(todo)
    <3>1. n # 1 /\ todo'[n] = c
      BY <1>2, <2>2
    <3> QED
      BY <3>1
  <2> QED
    BY <1>8, <2>1, <2>2
<1>11. n = 1 => log[c.from][i] = s /\ c.to = b.to
  BY <1>5 DEF b
<1> HIDE DEF c
<1>12. c.upto <= Len(log'[c.from])
  BY <1>1, <1>6, <1>9 DEF Grows
<1>13. ASSUME NEW j \in 1..c.upto, log'[c.from][j].tag.replica = c.from
       PROVE  j \in todo'[n].pending \/ log'[c.from][j].tag \in applied_tags'[c.to]
  <2>1. j \in 1..Len(log[c.from])
    BY <1>1, <1>9
  <2>2. log'[c.from][j] = log[c.from][j] /\ applied_tags[c.to] \subseteq applied_tags'[c.to]
    BY <1>6, <1>9, <2>1 DEF Grows
  <2>3. j \in c.pending \/ log[c.from][j].tag \in applied_tags[c.to]
    BY <1>9, <1>13, <2>2
  <2>4. CASE n = 1 /\ j = i
    BY <1>6, <1>11, <2>2, <2>4
  <2> QED
    BY <1>10, <2>2, <2>3, <2>4
<1> QED
  BY <1>10, <1>12, <1>13

\* sync_since from a cursor, merge and import_delta ship everything that the
\* exporter itself has produced since, in any order of delivery and however the
\* wall clocks run.
THEOREM DeltasCoverOwnOps == AnyOrderSpec => []OwnOpsCovered
<1>1. Init => OwnOpsCovered
  BY DEF Init, OwnOpsCovered
<1>2. IInv /\ OwnOpsCovered /\ [AnyOrderNext]_vars => OwnOpsCovered'
  <2> SUFFICES ASSUME IInv, OwnOpsCovered, [AnyOrderNext]_vars PROVE OwnOpsCovered'
    OBVIOUS
  <2>1. CASE \E r \in Replica, op \in Operation : Mint(r, op)
    <3>1. todo' = <<>>
      BY <2>1 DEF Mint, Idle
    <3> QED
      BY <3>1 DEF OwnOpsCovered
  <2>2. CASE \/ \E a, b \in Replica : SyncSince(a, b, HlcZero)
             \/ \E a, b \in Replica : Merge(a, b)
             \/ \E a, b \in Replica : \E n \in 1..Len(log[a]) : ImportDelta(a, b, n)
             \/ \E a, b \in Replica : \E n \in 1..Len(log[a]) : DeltaSync(a, b, n)
             \/ \E a, b \in Replica : \E i \in 1..Len(log[a]) : ApplyOne(a, b, i)
    BY <2>2, CallsCoverOwn
  <2>3. CASE ImportNext
    BY <2>3, ImportNextCoversOwn
  <2>4. CASE ImportReturns
    <3>1. /\ applied_tags' = applied_tags /\ log' = log
          /\ \A n \in 1..Len(todo') : n + 1 \in 1..Len(todo) /\ todo'[n] = todo[n + 1]
      BY <2>4, ImportReturnsEffect DEF IInv
    <3> QED
      BY <3>1 DEF OwnOpsCovered, OwnCovered
  <2>5. CASE UNCHANGED vars
    BY <2>5 DEF vars, OwnOpsCovered, OwnCovered
  <2> QED
    BY <2>1, <2>2, <2>3, <2>4, <2>5 DEF AnyOrderNext, Next, Import
<1> QED
  BY <1>1, <1>2, AnyOrderInvariant, PTL DEF AnyOrderSpec
=============================================================================
