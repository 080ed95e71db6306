------------------------------- MODULE OpLog -------------------------------
(***************************************************************************)
(* The replication layer of the engine: every replica's clock, operation   *)
(* log and set of applied tags, local operations being stamped and applied,*)
(* and logs being shipped to other replicas (sle-sync, import_delta).      *)
(* What an operation does to the graph is left to Forest and Replicas.     *)
(*                                                                         *)
(* A call that imports a batch borrows its replicas exclusively, so no     *)
(* other call runs until it returns; it applies the batch one operation    *)
(* per step.                                                               *)
(***************************************************************************)
EXTENDS Hlc, FiniteSets, Sequences

CONSTANTS
  Replica,     \* the replica ids in use
  Operation,   \* the operations a host can ask for
  WallClock,   \* the readings SystemTime::now() may return, in any order
  MaxOps       \* bound: operations minted altogether

ASSUME ReplicaAssumption == Replica \subseteq Nat
ASSUME WallClockAssumption == WallClock \subseteq Nat

VARIABLES
  clock,         \* HlcClock.last of each replica
  applied_tags,  \* the tags each replica has applied
  log,           \* each replica's operation log, in the order applied
  todo           \* the imports the running call still has to make

vars == <<clock, applied_tags, log, todo>>

Tag == [replica : Replica, hlc : Hlc]
StampedOp == [tag : Tag, op : Operation]

\* An import under way: the operations of `from`'s log at positions `pending`
\* go to `to`; the batch was exported when that log was `upto` long.
Batch == [to : Replica, from : Replica, upto : Nat, pending : SUBSET Nat]

TypeOK ==
  /\ clock \in [Replica -> Hlc]
  /\ applied_tags \in [Replica -> SUBSET Tag]
  /\ log \in [Replica -> Seq(StampedOp)]
  /\ todo \in Seq(Batch)

Init ==
  /\ clock = [r \in Replica |-> HlcZero]
  /\ applied_tags = [r \in Replica |-> {}]
  /\ log = [r \in Replica |-> <<>>]
  /\ todo = <<>>

\* No call holds the replicas.
Idle == todo = <<>>

\* Bound on the number of operations ever minted.
Room(n) == Cardinality(UNION {applied_tags[r] : r \in Replica}) + n <= MaxOps

-----------------------------------------------------------------------------
\* Faulty variants, used only to show that the properties can fail.

\* The early return on an already applied tag is missing.
ApplyTwice(r, last, s, now) ==
  /\ applied_tags' = [applied_tags EXCEPT ![r] = @ \cup {s.tag}]
  /\ clock' = [clock EXCEPT ![r] = Observe(last, s.tag.hlc, now)]
  /\ log' = [log EXCEPT ![r] = Append(@, s)]

\* The clock does not learn from remote operations.
ApplyUnobserved(r, last, s, now) ==
  IF s.tag \in applied_tags[r]
  THEN /\ clock' = [clock EXCEPT ![r] = last]
       /\ UNCHANGED <<applied_tags, log>>
  ELSE /\ applied_tags' = [applied_tags EXCEPT ![r] = @ \cup {s.tag}]
       /\ clock' = [clock EXCEPT ![r] = last]
       /\ log' = [log EXCEPT ![r] = Append(@, s)]

\* The batch is taken newest first.
NextLatest(b) == CHOOSE i \in b.pending : \A j \in b.pending : j <= i

\* The slice of the log starts one position late.
SinceSkipsFirst(l, hlc) == {i \in 2..Len(l) : HlcLT(hlc, l[i].tag.hlc)}

-----------------------------------------------------------------------------
\* Forest::apply on replica r with the clock at `last`: nothing happens to an
\* operation already applied, otherwise its tag is recorded, the clock
\* observes it and it goes to the end of the log.
Apply(r, last, s, now) ==
  IF s.tag \in applied_tags[r]
  THEN /\ clock' = [clock EXCEPT ![r] = last]
       /\ UNCHANGED <<applied_tags, log>>
  ELSE /\ applied_tags' = [applied_tags EXCEPT ![r] = @ \cup {s.tag}]
       /\ clock' = [clock EXCEPT ![r] = Observe(last, s.tag.hlc, now)]
       /\ log' = [log EXCEPT ![r] = Append(@, s)]

\* (Faulty variant.)  Every process stamps with the same replica id.
MintSharedId(r, op) ==
  /\ Idle /\ Room(1)
  /\ \E ticked, observed \in WallClock :
       LET t == Tick(clock[r], ticked)
           id == CHOOSE x \in Replica : TRUE
       IN  Apply(r, t, [tag |-> [replica |-> id, hlc |-> t], op |-> op], observed)
  /\ UNCHANGED todo

\* (Faulty variant.)  The replica id was never set.
MintDefaultId(r, op) ==
  /\ Idle /\ Room(1)
  /\ \E ticked, observed \in WallClock :
       LET t == Tick(clock[r], ticked)
       IN  Apply(r, t, [tag |-> [replica |-> 0, hlc |-> t], op |-> op], observed)
  /\ UNCHANGED todo

\* A local mutation: tick, stamp, apply.  The wall clock is read twice.
Mint(r, op) ==
  /\ Idle /\ Room(1)
  /\ \E ticked, observed \in WallClock :
       LET t == Tick(clock[r], ticked)
       IN  Apply(r, t, [tag |-> [replica |-> r, hlc |-> t], op |-> op], observed)
  /\ UNCHANGED todo

\* OpLog::since: the positions of the operations strictly newer than hlc.
Since(l, hlc) == {i \in 1..Len(l) : HlcLT(hlc, l[i].tag.hlc)}

Export(from, to, hlc, upto) ==
  [to |-> to, from |-> from, upto |-> upto,
   pending |-> Since(log[from], hlc) \cap 1..upto]

Start(batches) == Idle /\ todo' = batches /\ UNCHANGED <<clock, applied_tags, log>>

\* sle_sync::sync_since.  The borrow checker keeps `from` and `to` apart.
SyncSince(from, to, hlc) ==
  /\ from # to
  /\ Start(<<Export(from, to, hlc, Len(log[from]))>>)

\* sync_since from a cursor: the host goes on from `latest_hlc` of the exporter's
\* log as it was, n operations long, when the importer had all of it.
DeltaSync(from, to, n) ==
  /\ \A i \in 1..n : log[from][i].tag \in applied_tags[to]
  /\ \E k \in 1..n :
       /\ \A j \in 1..n : ~ HlcLT(log[from][k].tag.hlc, log[from][j].tag.hlc)
       /\ SyncSince(from, to, log[from][k].tag.hlc)

\* sle_sync::merge: both exports are taken before either import.
Merge(a, b) ==
  /\ a # b
  /\ Start(<<Export(b, a, HlcZero, Len(log[b])), Export(a, b, HlcZero, Len(log[a]))>>)

\* Engine::import_delta of bytes that export_delta produced when `from`'s log
\* was n long: late, repeated, out of order, or at the exporter itself.
ImportDelta(from, to, n) == Start(<<Export(from, to, HlcZero, n)>>)

\* Forest::apply of one operation taken from another replica's log, as a
\* transport without ordering (and the tests of sle-sync) would do.
ApplyOne(from, to, i) ==
  /\ from # to
  /\ Start(<<[to |-> to, from |-> from, upto |-> 0, pending |-> {i}]>>)

\* The position apply_all takes next: the batch is in log order.
NextPending(b) == CHOOSE i \in b.pending : \A j \in b.pending : i <= j

\* One iteration of apply_all.
ImportNext ==
  /\ todo # <<>> /\ Head(todo).pending # {}
  /\ LET b == Head(todo)
         i == NextPending(b)
     IN  /\ \E now \in WallClock : Apply(b.to, clock[b.to], log[b.from][i], now)
         /\ todo' = [todo EXCEPT ![1].pending = @ \ {i}]

\* apply_all is through; the call goes on with its next import or returns.
ImportReturns ==
  /\ todo # <<>> /\ Head(todo).pending = {}
  /\ todo' = Tail(todo)
  /\ UNCHANGED <<clock, applied_tags, log>>

-----------------------------------------------------------------------------
Import == ImportNext \/ ImportReturns

\* What the shipped callers do: whole logs, from the beginning.
Next ==
  \/ \E r \in Replica, op \in Operation : Mint(r, op)
  \/ \E a, b \in Replica : SyncSince(a, b, HlcZero)
  \/ \E a, b \in Replica : Merge(a, b)
  \/ \E a, b \in Replica : \E n \in 1..Len(log[a]) : ImportDelta(a, b, n)
  \/ Import

Spec == Init /\ [][Next]_vars

\* Operations one by one, in any order, and deltas from a cursor as well.
AnyOrderNext ==
  \/ Next
  \/ \E a, b \in Replica : \E n \in 1..Len(log[a]) : DeltaSync(a, b, n)
  \/ \E a, b \in Replica : \E i \in 1..Len(log[a]) : ApplyOne(a, b, i)

AnyOrderSpec == Init /\ [][AnyOrderNext]_vars

\* A running call is sequential code and comes to its end (weak fairness); a
\* host that goes on synchronising every pair of replicas is what convergence
\* presupposes, since nothing in the engine synchronises by itself.
FairSpec ==
  /\ Spec
  /\ WF_vars(Import)
  /\ \A a, b \in Replica : SF_vars(SyncSince(a, b, HlcZero))

-----------------------------------------------------------------------------
\* The log holds every applied operation once: a replay that slipped past the
\* tag check would be a second entry, a lost one a tag without an entry.
LogMatchesTags ==
  \A r \in Replica :
    /\ \A i, j \in 1..Len(log[r]) : log[r][i].tag = log[r][j].tag => i = j
    /\ applied_tags[r] = {log[r][i].tag : i \in 1..Len(log[r])}

\* Causality is preserved in the timestamps (hlc.rs): whatever a replica had
\* applied when it minted an operation carries a smaller timestamp, however
\* the wall clocks disagree or step back.
CausalTimestamps ==
  \A r \in Replica : \A i, j \in 1..Len(log[r]) :
    i < j /\ log[r][j].tag.replica = r => HlcLT(log[r][i].tag.hlc, log[r][j].tag.hlc)

\* A tag names one operation, on whatever replicas it is found (id.rs).
TagsIdentifyOps ==
  \A q, r \in Replica : \A i \in 1..Len(log[q]), j \in 1..Len(log[r]) :
    log[q][i].tag = log[r][j].tag => log[q][i] = log[r][j]

\* The clock of a replica stands beyond every operation it has applied, so
\* that the next stamp is new; and nothing is stamped at or below HlcZero,
\* which as the argument of Since stands for "everything".
ClockAhead ==
  \A r \in Replica : \A i \in 1..Len(log[r]) :
    /\ HlcLT(HlcZero, log[r][i].tag.hlc)
    /\ HlcLT(log[r][i].tag.hlc, clock[r])

\* Whatever circulates under the name of a replica is in that replica's own
\* log: no operation survives its minter's memory of it.
OriginKnows ==
  \A q \in Replica : \A i \in 1..Len(log[q]) : LET r == log[q][i].tag.replica IN
    \E k \in 1..Len(log[r]) : log[r][k] = log[q][i]

\* The batches of the running call point into their exporter's log.
BatchesInLogs ==
  \A n \in 1..Len(todo) : todo[n].pending \subseteq 1..Len(log[todo[n].from])

\* The inductive invariant of AnyOrderSpec.
IInv ==
  /\ TypeOK
  /\ LogMatchesTags
  /\ ClockAhead
  /\ CausalTimestamps
  /\ OriginKnows
  /\ BatchesInLogs

\* Operations reach every log after the operations their minter had applied
\* before: shipping whole logs delivers causally, through any number of
\* intermediate replicas, with late and repeated batches.
CausalLogs ==
  \A q, r \in Replica : \A j \in 1..Len(log[q]), k \in 1..Len(log[r]) :
    /\ log[q][j].tag.replica = r
    /\ log[q][j].tag = log[r][k].tag
    => \A h \in 1..(k - 1) : \E i \in 1..(j - 1) : log[q][i].tag = log[r][h].tag

\* An import that has come to its end leaves nothing behind: the importer
\* knows everything that was in the exporter's log when the batch was made.
\* For merge, whose two imports both satisfy this, it is the union promised.
ImportCovers ==
  \A n \in 1..Len(todo) : LET b == todo[n] IN
    \A i \in 1..b.upto : i \in b.pending \/ log[b.from][i].tag \in applied_tags[b.to]

\* What a batch leaves out its importer has, as far as the exporter made it.
OwnCovered(b) ==
  /\ b.upto <= Len(log[b.from])
  /\ \A i \in 1..b.upto :
       log[b.from][i].tag.replica = b.from
       => i \in b.pending \/ log[b.from][i].tag \in applied_tags[b.to]

\* sync_since ships everything its exporter has produced since the cursor: an
\* operation of the exporter's own is never skipped, although its log may take
\* in operations of others with older timestamps later, and the clocks differ.
\* (Relayed operations can be skipped.)
OwnOpsCovered == \A n \in 1..Len(todo) : OwnCovered(todo[n])

\* The inductive invariant of Spec, where a batch is a whole prefix of a log.
WholePrefixes ==
  \A n \in 1..Len(todo) : LET b == todo[n] IN
    b.upto <= Len(log[b.from]) /\ b.pending \subseteq 1..b.upto

PrefixInv == IInv /\ WholePrefixes /\ ImportCovers /\ CausalLogs

\* A local mutation is never mistaken for a replay of an earlier operation
\* and silently dropped: a step outside an import adds to the log.
NoLocalOpLost ==
  [][UNCHANGED todo => \E r \in Replica : Len(log'[r]) = Len(log[r]) + 1]_vars

\* Once the hosts stop changing things, all replicas come to know the same
\* operations and stay that way.
Converges == <>[](\A a, b \in Replica : applied_tags[a] = applied_tags[b])
=============================================================================
