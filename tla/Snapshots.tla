----------------------------- MODULE Snapshots -----------------------------
(***************************************************************************)
(* Snapshots on disk and restarts (crates/sle-core/src/snapshot.rs): hosts *)
(* save a forest now and then, exchange exported logs, crash, and load the *)
(* last snapshot.  Only add_node is called; of the forest the fields are   *)
(* kept that say who is who: clock, node counter, tags and log.            *)
(*                                                                         *)
(* Time only moves forward; the hosts' wall clocks differ by a constant.   *)
(* An import runs in one step: it borrows the forest, nothing is saved     *)
(* meanwhile and a crash takes all of it back.                             *)
(***************************************************************************)
EXTENDS Hlc, Sequences, Functions

CONSTANTS
  Replica,     \* the replica ids in use
  Skew,        \* how far each replica's wall clock is ahead of the time
  Label,       \* node contents
  SaveFirst,   \* whether hosts save a forest before they export it
  MaxNodes,    \* bound: nodes a forest may hold when it makes another one
  MaxCrashes,  \* bound: crashes altogether
  Torn         \* a file that does not parse

ASSUME SkewAssumption == Skew \in [Replica -> Nat]
ASSUME SaveFirstAssumption == SaveFirst \in BOOLEAN

VARIABLES
  forest,   \* the forest in each replica's memory; Torn if it cannot start
  disk,     \* each replica's snapshot file
  saved,    \* whether it has been written since the forest last changed
  wire,     \* the logs that have been exported
  now,      \* the time
  crashes   \* crashes so far

vars == <<forest, disk, saved, wire, now, crashes>>

NewForest == [clock |-> HlcZero, next_local_id |-> 0, applied_tags |-> {}, log |-> <<>>]

Entry == [tag : [replica : Replica, hlc : Hlc], id : Replica \X Nat, label : Label]

ForestType ==
  [clock : Hlc, next_local_id : Nat, applied_tags : SUBSET [replica : Replica, hlc : Hlc],
   log : Seq(Entry)]

ASSUME TornAssumption == Torn \notin ForestType

\* What belongs together in a forest of r, in memory or loaded from a file: the
\* tags are those of the log, the clock is beyond them, and the counter beyond
\* the nodes that r has made.
Whole(r, f) ==
  /\ f.applied_tags = {s.tag : s \in Range(f.log)}
  /\ \A s \in Range(f.log) : /\ HlcLT(s.tag.hlc, f.clock)
                             /\ s.id[1] = r => s.id[2] < f.next_local_id

\* Forests and files have their types and are consistent in themselves
\* (forest.rs, snapshot.rs).
TypeOK ==
  /\ forest \in [Replica -> ForestType \cup {Torn}]
  /\ disk \in [Replica -> ForestType \cup {Torn}]
  /\ \A r \in Replica : /\ forest[r] # Torn => Whole(r, forest[r])
                        /\ disk[r] # Torn => Whole(r, disk[r])
  /\ saved \in [Replica -> BOOLEAN]
  /\ wire \subseteq Seq(Entry)
  /\ now \in Nat /\ crashes \in Nat

Init ==
  /\ forest = [r \in Replica |-> NewForest]
  /\ disk = [r \in Replica |-> NewForest]
  /\ saved = [r \in Replica |-> TRUE]
  /\ wire = {}
  /\ now = 0
  /\ crashes = 0

Up(r) == forest[r] # Torn

WallClock(r) == now + Skew[r]

-----------------------------------------------------------------------------
\* Forest::apply of an entry with the clock at f.clock.
ApplyTo(f, s, reading) ==
  IF s.tag \in f.applied_tags THEN f
  ELSE [f EXCEPT !.applied_tags = @ \cup {s.tag},
                 !.clock = Observe(@, s.tag.hlc, reading),
                 !.log = Append(@, s)]

\* apply_all of the entries of a log, one after the other.
ApplyAll(f0, l, reading) ==
  LET f[i \in 0..Len(l)] == IF i = 0 THEN f0 ELSE ApplyTo(f[i - 1], l[i], reading)
  IN  f[Len(l)]

\* Forest::add_node.
AddNode(r) ==
  /\ Up(r) /\ Len(forest[r].log) < MaxNodes
  /\ \E label \in Label :
       LET f == forest[r]
           t == Tick(f.clock, WallClock(r))
           s == [tag |-> [replica |-> r, hlc |-> t], id |-> <<r, f.next_local_id>>,
                 label |-> label]
       IN  forest' = [forest EXCEPT
             ![r] = ApplyTo([f EXCEPT !.clock = t, !.next_local_id = @ + 1], s, WallClock(r))]
  /\ saved' = [saved EXCEPT ![r] = FALSE]
  /\ UNCHANGED <<disk, wire, now, crashes>>

\* (Faulty variant.)  The host exports what is in memory only.
ExportUnsaved(r) ==
  /\ Up(r)
  /\ wire' = wire \cup {forest[r].log}
  /\ UNCHANGED <<forest, disk, saved, now, crashes>>

\* Engine::export_delta.  A careful host exports only what it has saved.
ExportDelta(r) ==
  /\ Up(r)
  /\ SaveFirst => saved[r]
  /\ wire' = wire \cup {forest[r].log}
  /\ UNCHANGED <<forest, disk, saved, now, crashes>>

\* Engine::import_delta, of any export that is still around.
ImportDelta(r) ==
  /\ Up(r)
  /\ \E l \in wire : forest' = [forest EXCEPT ![r] = ApplyAll(@, l, WallClock(r))]
  /\ saved' = [saved EXCEPT ![r] = @ /\ forest' = forest]
  /\ UNCHANGED <<disk, wire, now, crashes>>

\* (Faulty variant.)  A field is skipped when the forest is serialized.
SaveSkipsCounter(r) ==
  /\ Up(r)
  /\ disk' = [disk EXCEPT ![r] = [forest[r] EXCEPT !.next_local_id = 0]]
  /\ saved' = [saved EXCEPT ![r] = TRUE]
  /\ UNCHANGED <<forest, wire, now, crashes>>

\* snapshot::save.
Save(r) ==
  /\ Up(r)
  /\ disk' = [disk EXCEPT ![r] = forest[r]]
  /\ saved' = [saved EXCEPT ![r] = TRUE]
  /\ UNCHANGED <<forest, wire, now, crashes>>

\* (Faulty variant.)  The new process does not look for a snapshot.
CrashAndStartOver(r) ==
  /\ Up(r) /\ crashes < MaxCrashes
  /\ forest' = [forest EXCEPT ![r] = NewForest]
  /\ saved' = [saved EXCEPT ![r] = TRUE]
  /\ now' = now + 1
  /\ crashes' = crashes + 1
  /\ UNCHANGED <<disk, wire>>

\* A crash, and snapshot::load by the process that comes up afterwards.
CrashAndLoad(r) ==
  /\ Up(r) /\ crashes < MaxCrashes
  /\ forest' = [forest EXCEPT ![r] = disk[r]]
  /\ saved' = [saved EXCEPT ![r] = TRUE]
  /\ now' = now + 1
  /\ crashes' = crashes + 1
  /\ UNCHANGED <<disk, wire>>

\* fs::write empties the file before it writes: a crash in between leaves
\* something that snapshot::load refuses.
CrashInSave(r) ==
  /\ Up(r) /\ crashes < MaxCrashes
  /\ disk' = [disk EXCEPT ![r] = Torn]
  /\ forest' = [forest EXCEPT ![r] = Torn]
  /\ now' = now + 1
  /\ crashes' = crashes + 1
  /\ UNCHANGED <<saved, wire>>

Next == \E r \in Replica :
  \/ AddNode(r) \/ ExportDelta(r) \/ ImportDelta(r)
  \/ Save(r) \/ CrashAndLoad(r) \/ CrashInSave(r)

Spec == Init /\ [][Next]_vars

-----------------------------------------------------------------------------
\* Every log in memory or under way.
Logs == {forest[r].log : r \in {q \in Replica : Up(q)}} \cup wire

Entries == UNION {Range(l) : l \in Logs}

\* A node id names one node (id.rs): the same id on two entries means that it
\* is the same operation.
IdsNameNodes == \A s, t \in Entries : s.id = t.id => s = t

\* A tag names one operation (id.rs); otherwise a replica that has one of the
\* two takes the other for a replay and never learns it.
TagsNameOps == \A s, t \in Entries : s.tag = t.tag => s = t

\* The entries in a forest or a file, all there are, and those that are to be
\* found anywhere but in r's own memory and file.
Held(f) == IF f = Torn THEN {} ELSE Range(f.log)

HeldBy(replicas) ==
  UNION ({Held(forest[q]) : q \in replicas} \cup {Held(disk[q]) : q \in replicas}
         \cup {Range(l) : l \in wire})

\* What a running replica has made and anybody else may have heard of is in
\* its file, and so in every forest that it may go on with after a crash.
OnFile ==
  \A r \in Replica :
    Up(r) => \A s \in HeldBy(Replica \ {r}) : s.tag.replica = r => s \in Held(disk[r])

\* The file of a running replica is there and not ahead of the memory.
FilesBehind ==
  \A r \in Replica :
    Up(r) => /\ disk[r] # Torn /\ Held(disk[r]) \subseteq Held(forest[r])
             /\ saved[r] => disk[r] = forest[r]

\* No two entries share a name, in memory, on file or under way.
NamesAreUnique ==
  \A s, t \in HeldBy(Replica) :
    s.id[1] = s.tag.replica /\ (s.id = t.id \/ s.tag = t.tag => s = t)

\* The inductive invariant, where hosts save before they export.
SnapshotInv == TypeOK /\ FilesBehind /\ OnFile /\ NamesAreUnique
=============================================================================
