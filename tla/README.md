# TLA+ models and proofs for the self-learning engine

This directory models the engine in `src/` (a Rust workspace: a CRDT graph of
"semantic trees", the adapters that fill it, usage learning, replica sync) in
TLA+, checks the models with TLC on small instances and proves the central
results with TLAPS for every number of replicas, every set of operations,
every behaviour of the wall clocks, any number of crashes, and documents and
source files of any length.

## The system

| component | code | state | operations | what makes it correct |
|---|---|---|---|---|
| clocks and tags | `sle-core/src/hlc.rs`, `id.rs` | `HlcClock.last` per replica | `tick`, `observe` | a replica never repeats a timestamp; effects are stamped after their causes |
| operation log | `ops.rs`, `forest.rs` (`apply`, `apply_all`) | `log`, `applied_tags` | stamp and apply a local mutation, apply a remote one, `since` | each operation applied once; no local mutation taken for a replay |
| forest graph | `forest.rs` | `nodes`, `edges` (OR-Sets), payloads and their tags, weights | the arms of `apply`; `nodes`, `edges`, `state_digest` | what is shown depends on what is known, not on how it arrived |
| OR-Set, PN-counter | `orset.rs`, `model.rs` | add/remove tags; buckets per replica | `add`, `remove`, `incr`, `decr`, `merge` | add wins; no bucket counted twice; merging states equals exchanging operations |
| learning | `learning.rs`, `traits.rs` | none of its own | `report_event`, `decay_all` | an event moves the weight by its magnitude at every replica |
| sync | `sle-sync/src/lib.rs` | none | `sync_since`, `merge` | an import is complete; replicas converge |
| snapshots | `snapshot.rs` | a file per host | `save`, `load` | a restarted replica does not reuse names |
| Python binding | `bindings/sle-py/src/lib.rs` | one `Forest` per `Engine` | `ingest`, `scan_proximity`, `report_event`, `export_delta`, `import_delta` | importing is safe late, twice, at the exporter |
| ids and keys | `id.rs`, `model.rs` | none | the string forms of node ids and edge keys | what is written is read back, whatever the kind of an edge |
| text adapter | `sle-adapters-text` | heading stack, last siblings, paragraph buffer | `ingest` | every node has one parent, siblings form chains |
| code adapter | `sle-adapters-code` | name index, last siblings | `ingest` (define pass, link pass) | what contains what; calls go to what their name stands for |
| embeddings, proximity | `sle-embeddings` | none | `embed`, `scan_proximity`, `apply_proximity_links` | a scan links what is similar, in both directions, and refreshes embeddings |
| command line | `sle-cli/src/main.rs` | one `Forest` (serve) | `demo`, `distributed`, `serve` | ingesting a file again leaves its first tree alone |

How they interact: everything that changes a graph goes through
`Forest::apply`. Adapters, the proximity linker, `report_event` and `decay_all`
call the local mutation API, which ticks the clock, stamps an operation and
applies it. Replicas exchange nothing but stamped operations, as slices of
their logs (`sync_since`, `merge`, `export_delta`/`import_delta`), which the
other side runs through the same `apply`. A snapshot is the whole `Forest`.

There are no threads and no awaits in the code, and `&mut Forest` keeps calls on
one replica apart. The concurrency is between replicas: mutations are made on
several replicas without coordination, logs travel late, twice, in part and
through third replicas, wall clocks disagree and step back, hosts crash and
restart from old snapshots. Within a replica the hard part is sequences of
legal calls: adapters that walk nested input with a stack of their own, scans
and ingestion repeated, events for edges that are not there. The hazards, with
the lines where they bite, are in `PROJECT.json`.

## Modules

* **Hlc**: `tick`, `observe` and the two derived orders, as pure operators. The
  wall clock is a parameter.
* **OpLog** (extends Hlc): the replication layer. `clock`, `applied_tags` and
  `log` are the fields of `Forest`; `todo` is what the running import call has
  still to do. `Mint` is the common part of the mutation API (tick, stamp,
  `apply`; the wall clock is read once by `tick` and once by `observe`).
  `SyncSince`, `Merge` and `ImportDelta` take their exports and start a call,
  which borrows the replicas until `ImportReturns`; `ImportNext` is one
  iteration of `apply_all`. `Spec` has the callers as shipped (whole logs, from
  `Hlc::ZERO`); `AnyOrderSpec` adds `ApplyOne`, single operations in any order,
  which is what the documentation of `sle-sync` allows and its tests do, and
  `DeltaSync`, `sync_since` from the `latest_hlc` the exporter's log had when the
  importer had all of it. What an operation says is opaque here.
  **OpLogProofs** (extends OpLog and NumberProofs): the theorems about the
  replication layer.
* **OrSet**, **PnCounter**: the two CRDTs as values and operators. Buckets and
  values of the counter are `Width` bits wide and wrap, as in a release build (a
  debug build panics there).
* **Forest** (extends these): the view of one replica, as a value, and one
  operator per arm of the `match` in `apply`; the queries. **ForestProofs**
  (extends Forest and NumberProofs): what one operation does to any view of the
  right type, and that nodes and weights follow from the operations applied
  (`NodeFollows`, `BucketsFollow`), whoever applies them. Replicas and engines both
  rest on it.
* **Knowledge**: the abstract specification. A replica knows a set of
  operations, each made knowing others, and shows a graph after them: nodes and
  payloads are determined (add wins, last writer by tag), weights are sums,
  modulo the width; an edge whose removal and addition did not know of each
  other may be there or not. There are no clocks, logs, tombstones, buckets or
  orders of arrival in it.
* **Replicas** (instantiates OpLog and Knowledge): composition. Each local
  mutation is an action (`AddNode`, ..., `ReportEvent`, `DecayAll` and its
  iterations `DecayNext`), made of OpLog's `Mint` and of `Materialized`, which
  runs the arm of `apply` in the step that appends to the log. **ReplicasProofs**
  (extends Replicas and ForestProofs, instantiates OpLogProofs): the theorems about graphs. Ids and keys
  handed to `remove_node`, `remove_edge` and `set_embedding` are ones the host
  has got from that replica: that hosts make none up is an assumption, the code
  accepts any. A sync reads the log it applies in the same call, as `sync_since`
  and `merge` do; logs that arrive late are in OpLog (`ImportDelta`) and Engine.
  The constant `Api` selects which calls a run makes.
* **Snapshots** (extends Hlc): forests in memory, files, exported logs; save,
  load, crash, crash in the middle of a save. `SaveFirst` says whether hosts
  save before they export; nothing in the code does, it is the discipline under
  which restarting is safe. **SnapshotsProofs** (extends Snapshots and NumberProofs): the theorems about restarts.
* **TextAdapter**: `ingest` of the text adapter, one action per kind of line, plus
  its prologue (`Ingest`) and its end (`Return`). The forest is the sequence of
  nodes and the sequence of edges added to it; `stack`, `last_sibling` and
  `para_buf` are the locals of the call. Lines are chosen as they are read, which
  covers the same documents as choosing a source first. **TextAdapterProofs**
  (extends TextAdapter and NumberProofs): the theorems about the tree.
* **CodeAdapter**: `ingest` of the code adapter. The syntax tree is the sequence
  of the items `walk` does something about, each with the number of items around
  it, chosen while the define pass meets them; the link pass meets the same
  items again. One action per pass and kind of item; `context` has the
  arguments `container` and `current_fn` of the calls of `walk` that are going on.
  **CodeAdapterProofs** (extends CodeAdapter and NumberProofs, instantiates
  TextAdapterProofs): the theorems about it.
* **Adapter**: what the engine expects of an adapter: a call of `ingest` adds the
  nodes and edges of one more tree. `ImplementsAdapter` in TextAdapter and
  CodeAdapter says that each is an adapter, with the forest during a call taken
  as it was before it.
* **Codec**: the string forms of node ids and edge keys, over tokens (a number, a
  separator, a word).
* **Engine** (extends Forest and Codec): hosts with one engine each. A request is one
  step, since an engine serves one at a time: `Ingest`, `Scan`, `Report` and
  `Exchange`; each is the sequence of operations it makes, folded
  through `Apply`. `deltas` has what `export_delta` may have handed out, the log as it
  was after any request; `Exchange` is `import_delta` of one of these, with ids and
  keys as strings in between, so that deltas arrive late, in any order, more than
  once or never. Bytes that `export_delta` did not write are left out. What an adapter
  makes of a file and the score of two embeddings are constants: `Ingested`, `Embed`
  and `ScoreOf` stand for the calls, not for what is inside them, and the nodes
  of a file come before its edges, where adapters add an edge as soon as they can
  (nobody sees the forest in between). The wall clock stands still here and
  goes its own ways in OpLog. The requests of the command line's `serve` are a subset.
  **EngineProofs** (extends Engine and ForestProofs): ids and keys are read back as
  written; the theorems about engines.
* **NumberProofs** (extends Hlc): least and greatest elements of sets of numbers,
  and that `Max` and `Min` of the community modules are these; finite sets and
  sums over them; remainders; the order of timestamps, `tick` and `observe` advance.
* **MCOpLog**, **MCReplicas**, **MCSnapshots**, **MCTextAdapter**, **MCCodeAdapter**,
  **MCEngine**: the instances for TLC.

Operators called faulty variants (`ApplyTwice`, `NextLatest`, ...) are used by no
specification. They are plausible bugs that stand in for the right definition
in a mutation test, to show that a property can fail.

Abstractions: a node payload is a label (tree, kind, domain, text and data are
copied and never looked into by the core) and an embedding; an edge key is a
model value (its endpoints are never looked up, edges to absent nodes exist in
the code as well), except in Engine, where both have their parts; timestamps are
unbounded. Map entries that
are absent and entries that hold an empty set or 0 are the same, which no
operation of the code can tell.

## Runs

| run | instance | checks |
|---|---|---|
| `log` | AnyOrderSpec, 2 replicas, 2 operations, wall clocks 0 and 1 in any order, 3 mints | `TypeOK`, `LogMatchesTags`, `ClockAhead`, `CausalTimestamps`, `OriginKnows`, `TagsIdentifyOps`, `OwnOpsCovered`, `NoLocalOpLost` |
| `log_relayed` | FairSpec, 3 replicas, 2 mints | `CausalLogs`, `ImportCovers`, `Converges` |
| `nodes` | Spec, 2 replicas, 1 id each, 2 embeddings, 1 edge, 4 mints | `TypeOK`, `NodesConverge`, `StateMergeAgrees`, refinement `ShowsWhatIsKnown` |
| `weights` | AnyOrderSpec, 2 replicas, weights of 3 bits, initial weights -4 and 2, an event, decay_all, 3 mints | `BucketsAgree`, `StateMergeAgrees`, refinement `ShowsWhatIsKnown` |
| `saved_first` | 2 hosts, one wall clock 5 ahead, 1 crash, 2 nodes | `TypeOK`, `IdsNameNodes`, `TagsNameOps`, `OnFile` |
| `text` | 2 documents, 5 lines altogether, 7 kinds of lines (headings of levels 1, 3, 6; text, also with hashes; blank) | `TypeOK`, `StackIsPath`, `FollowsOutline`, `SiblingsAreChained`, `EveryLineKept`, `ParagraphsAreBlocks`, refinement `ImplementsAdapter` |
| `code` | files of 4 items, 2 names, 2 tree ids, further files as long as nodes before and items are 4 at most | `TypeOK`, `ContainsFollowsClasses`, `SiblingsAreChained`, `CallsGoByName`, refinement `ImplementsAdapter` |
| `engine` | 2 hosts with 3 requests each, 2 files that can be ingested and 1 that cannot, 2 texts, 64 and 128 dimensions, 1 event | `TypeOK`, `EnginesConverge`, `LinksComeInPairs`, `ScansCover`, `TreesAreKept` (each engine's own nodes against `Adapter`) |
| `relinked` | 1 host with 4 requests, files and texts as in `engine` | `ScansLinkNew`: violated |
| `edge_divergence` | Spec, 1 edge, 3 mints | `DigestsConverge`: violated |
| `later_embedding` | Spec, 1 node, 2 embeddings, 3 mints | `LaterEmbeddingWins`: violated |
| `unsaved_ids` | as `saved_first`, exports before saves | `IdsNameNodes`: violated |

`FollowsOutline` compares the stack machine of the text adapter with a definition
that knows no stack: a paragraph belongs to the last heading before it, a
heading to the last one before it with fewer hashes. `ContainsFollowsClasses` and
`CallsGoByName` do the same for the two passes of the code adapter: they are
stated over the finished sequence of items, without `context` or a table.
`ShowsWhatIsKnown` is the
refinement of Knowledge under the mapping at the end of `Replicas`.

The inductive invariants of most proofs (`IInv`, `PrefixInv`, `NodeInv`, `SnapshotInv`,
`TextInv`) held in TLC runs of these instances before they were proved. They
are not among the runs, which check what the proofs derive from them. That of
CodeAdapterProofs (`FullInv`) quantifies over trees and edges without a bound and cannot
be evaluated; only what follows from it is checked.

What they show. The log layer does what it says under any order of delivery,
any repetition and any wall clocks. Shipping whole logs also delivers causally,
and on that the graph depends more than the documentation says: with it, node
and embedding state converges (`nodes`); without it an embedding can be lost
(see behind the findings). Weights need nothing (`weights`). Edges that are removed
while another replica adds them do not converge even when whole logs are
shipped (`edge_divergence`), because a remove acts on the tags present where it
is applied; what stands is that an edge removed in knowledge of all its
additions stays away and one added in knowledge of all its removals is there
(`Survives` and `Prevails` in Knowledge).

A cursor by timestamp (`DeltaSync`) never skips what the exporter made itself;
operations the exporter relays can be skipped, since they may enter its log
behind newer ones. Weights are right modulo the width at every replica, also
when a sum leaves the signed range on the way and for the smallest initial
weight, which has no negative; merging counters as states agrees with that only
until a bucket runs over (`Moderate`).

Call resolution goes by bare name over a file: with one definition per name a
call is an edge from the function around it to the function or class it names,
before or behind it; of two definitions with one name the last one gets the
calls to both and the calls in both. Functions do not contain what is written in
them, their class or module does.

Hosts of the binding never remove anything, and with whole logs exchanged in both
directions, however late, their engines converge completely, embeddings and weights of edges
that do not exist included (`EnginesConverge`). A scan links what is similar in both
directions (`LinksComeInPairs`), but links again what is linked already (finding 4).
`ScansCover` is silent about the weights of these. A scan refreshes all embeddings, except those
of nodes that a host with a larger id has embedded, with other dimensions
perhaps (`ScansCover` says where the promise ends; the cause is finding 2).

The bounds. Three mints on two replicas give an operation, one that depends on
it and one concurrent with both, and every order in which two logs can hold
them; two wall clock readings give a clock that stands still, advances and steps
back, and physical parts that are equal, smaller and larger in `observe`. A
relay needs three replicas and two operations. In a document, three heading
levels give a heading that goes down, skips a level, stays, or goes up by one
or two; five lines leave room for what comes behind it, the second document for
what it must not touch. A removal that hits what its
author had not seen needs two additions and a removal; the runs about nodes
and removals have one operation more. Restarting unsafely needs one crash, one
node before it and one after it. Four items of code are two definitions of one
name with a call inside and one behind, or three levels of nesting with a
return to an outer one; a second file after a file with one definition shows
names leaking. Three requests to each of two engines are an ingest, a scan on
both sides and the exchange in both directions, or two ingests and a scan, or an
event before and one after the link it is about, or an old delta that comes after
a newer one. Three bits hold the case of the
smallest number, a sum outside the signed range with a value inside, and
buckets that run over. `MaxOps`, `MaxNodes`, `MaxCrashes`, `MaxLines`, `MaxDocs`,
`MaxItems`, `MaxRequests` bound what is minted or read, `ReportKey` where events are
reported, and stand in the guards; imports are not bounded outside Engine.
Deadlock is checked except in the Snapshots runs, where a host whose file is
torn stays down, and in the text, code and engine runs, where there are no more
documents, files or requests at some point.

Fairness. `FairSpec` has weak fairness for the steps of a running import, which
is sequential code, and strong fairness for `sync_since` between each pair of
replicas (strong, since a call is possible only between other calls). The
second is an assumption on the hosts: nothing in the engine synchronises on its
own. Only `Converges` uses it.

## Findings

Each violation run quotes the claim in `PROJECT.json`.

1. `edge_divergence`: replicas that know the same operations may disagree about
   an edge (`orset.rs:38`; `sle-sync/src/lib.rs:3-5` promises the contrary).
   RemoveEdge has no caller in the binaries so far; it is public API.
2. `later_embedding`: tags compare replica ids before timestamps
   (`id.rs:63`, `ops.rs:21`). A scan of the binding therefore keeps foreign
   embeddings that it announces to replace (`sle-py/src/lib.rs:54`).
3. `unsaved_ids`: restarting from an old snapshot reuses node ids
   (`snapshot.rs:6-8`). In the same instance `TagsNameOps` fails as well: a
   replica that had followed a clock ahead of its own mints the same tag twice.
4. `relinked`: the design document has a scan emit an edge "for pairs above a
   similarity threshold that aren't already linked"
   (`docs/brainstorm-design-and-implement-enchanted-brooks.md:110-112`);
   `apply_proximity_links` adds both edges of every pair in every scan
   (`sle-embeddings/src/lib.rs:127`), and `add_edge` adds the initial weight to a
   counter that has it already. Two scans double the weight that one has given,
   without any use. How often the score is in a weight does not show in any
   passing run but through its being the same in both directions.

An embedding that arrives before its node is lost for good: `forest.rs:169` records
its tag and drops the vector, and `apply` refuses a replay. `sle-sync/src/lib.rs:3-5`,
which allows any order, does not hold of this either; no shipped caller delivers so.
There is no run of it: with `SPECIFICATION AnyOrderSpec` in `MCReplicas_nodes.cfg` TLC
finds `NodesConverge` violated after two mints.

`snapshot::save` truncates the only file before it writes (`CrashInSave`): a
crash at that point leaves nothing to load. No code adds an edge of kind Imports,
though `docs/architecture.md:143` and `CHANGELOG.md:24` speak of them; the code
adapter adds Import nodes only. Where a counter runs over or `i64::MIN` is negated
a debug build panics after `apply` has recorded the tag, so that a host that
catches the panic can never apply that operation again.

## Proofs

`OpLogProofs.tla` assumes of the constants that replica ids and wall clock
readings are natural numbers (`ReplicaAssumption`, `WallClockAssumption`) and
nothing else.

* `AnyOrderInvariant`: `IInv` holds in all behaviours of `AnyOrderSpec`. A log that
  agrees with the tag set does not by itself stay so: a fresh local tag is
  fresh only because the clock is beyond every tag applied (`ClockAhead`), which
  needs `tick` and `observe` to advance (`TickAdvances`, `ObserveAdvances`). A tag
  identifies an operation on all replicas because everything that circulates is
  in its minter's log (`OriginKnows`), and for that an import must point into
  its exporter's log (`BatchesInLogs`). `ApplyPreserves` is the core: one
  application of an operation, fresh or known to its minter, keeps all parts;
  `MintIInv`, `StartIInv` and `ImportIInv` use it, one per kind of step.
* `TypeCorrect`, `LogsMatchTags`, `TimestampsAreCausal`, `TagsAreUnique` follow;
  `LocalOpsAreKept` is the action property from the same invariant.
* `DeltasCoverOwnOps`: a batch cut at a timestamp leaves out only operations its
  importer has, as far as the exporter made them (`OwnOpsCovered`). An exporter's
  own operations are in its log in the order of their timestamps, because the
  clock is beyond every tag applied (`CausalTimestamps`), so that those up to the
  cursor are among the first n operations the importer had (`DeltaCoversOwn`).
* `PrefixInvariant`: when whole logs are shipped (`Spec`), `PrefixInv` also holds.
  Its parts need each other: a batch is a prefix of a causal log, what precedes
  an operation in it has been applied before it, and so the importer's log is
  causal too (`ApplyCausal`, `ImportNextPrefixInv`). `ImportsCover` and
  `LogsAreCausal` follow.

`ClocksStayAhead` and `OriginsKnowTheirOps` state two of these parts for a reader.

`ReplicasProofs.tla` is about graphs. It assumes that replica ids, counters of
`add_node`, wall clocks and decay amounts are natural numbers, that there are
finitely many replicas (an id is a u64), weights are integers, events are among those of `EventKind`, `None` is neither a payload nor a
tag, and that 2^`Width` is a positive natural number (the provers know nothing of
exponentiation; 2^64 is one).

* `ImplementsOpLog`, `ImplementsWholeLogs`: each step of `Replicas` is one of OpLog or
  leaves the log layer alone, so that all of the above holds of the composed
  system. `StepApplies` sorts the steps: an operation is stamped, one is taken
  from a log, or no view changes (`Applied`, `Quiet`). All later lemmas are about
  `Applied`, not about the dozen actions. `SpecIsAnyOrder` carries the results of
  the general specification over to `Spec`.
* `TypeCorrect`: views keep their types and their maps hang together, in whatever
  order operations come (`ViewOK`, one lemma per arm of `apply`).
* `NodeInvariant`, `NodesAlwaysConverge`: the payload and the embedding of a node follow
  from the set of operations applied, by the order of tags (`ViewsFollowOps`).
  That is so only if the node is applied before its embeddings (`NodesFirst`,
  from `PrefixInv`: without it an embedding can be lost) and has one `AddNode`
  (`IdsNameAdditions`, since the counter of `add_node` is behind every id). Two
  replicas with the same tags know the same operations (`TagsIdentifyOps`), and
  so have the same nodes.
* `WeightsMeanKnown`, `BucketsAlwaysAgree`: in whatever order operations come, a bucket
  of p is the sum of what the known operations of p put into it, modulo 2^`Width`
  (`WeightInv`), for usage is counted for whoever reports it (`OwnBucket`). Summed up
  over the replicas, that is congruent to the sum over all known operations
  (`BucketsSum`), and wrapping once at the end gives the weight exactly whenever it
  can be represented, however often a bucket ran over (`WeightAsKnown`).
* `ImplementsKnowledge` needs first what a graph shows: edges follow from the log of the replica (`EdgesFollow`: an
  addition is tombstoned if and only if a removal is behind it in this log). What
  an operation was made knowing is before it in every log (`CausalLogs`), and the
  removal of a node knew its addition (`RemovalKnowsAddition`); from this follows
  what Knowledge says of nodes and of edges (`GraphShown`). Then the three invariants
  above (`MeantInv`) carry the refinement. An operation that is stamped maps to `Make`, since its tag is
  new to all and a log that goes on keeps the pasts of the operations in it
  (`PastsGrow`); one taken from a log maps to `Learn`; all else stutters (`StepMeant`).
* `StateMergeIsExchange`: of two replicas, one knows all the operations of p that the
  other one knows (`OwnNested`, from `CausalLogs`), so that as long as no bucket has
  run over (`ModerateBuckets`) the larger one is the sum over the operations of both
  (`LargerBucket`). A tombstone at either one is a removal that knew the addition.

`SnapshotsProofs.tla` assumes that clocks differ by natural numbers, that a torn file
is no forest, and, in its theorems, `SaveFirst`. The invariant (`SnapshotInvariant`)
is that everything of a host that anybody else may hold is in its file
(`OnFile`), that files are behind memories (`FilesBehind`), and that names are unique
in everything that is in memory, on file or under way. From it: `ExportsAreOnFile`,
`IdsStayUnique`, `TagsStayUnique` through any number of crashes. An import of a log
of any length is taken apart at the first entry that would break the invariant
(`Least`, `ApplyAllKeeps`). `TypeCorrect` needs `SaveFirst` as well: a host that lost a
node it had exported can get it back from others while its counter is behind.

`TextAdapterProofs.tla` assumes only that lines are lines (`LineAssumption`). Its
invariant `TextInv` holds of the forest under construction:

* `Tidy`: every node but the roots has one parent, made before it; an edge Precedes
  is there exactly between children with none in between; no edge twice.
* `Open`: what is behind the last root is one tree, tied to nothing else, and
  `last_sibling` is the last child of each of its nodes. `GrowthKeepsShape` is the
  core: `link_sibling` of a new node keeps both.
* `Path`: the stack is a path with levels and headings in order, and each heading
  has an open section at or behind it that is not deeper (`Covered`). This is
  what makes the stack know the outline: when a heading has closed what is at its
  level or deeper, the last heading before it with fewer hashes is the top of the
  stack (`SectionHasPlace`, `ParagraphHasPlace`).
* `Placed`, `Blocks`, `Pending`, `Ahead`: nodes hang where the outline has them,
  paragraphs are blocks, the buffer is the latest lines and is not adjacent to
  a paragraph before it.

`StackStaysPath`, `OutlineFollowed`, `SiblingsStayChained`, `ParagraphsStayBlocks` follow.
`AdapterPromised` is the refinement of Adapter: reading maps to stuttering, since
nothing in front of the root changes (`Leaves`), and the return to one more tree
(`TreeAdded`).

`LinesAreKept` is about contents: what the nodes hold, in the order of their ids,
with the buffer behind it, is every line that is not blank, in order. The
concatenation of the community modules is a CHOSEN function; `FlattenExists` and
`FlattenIs` say what that function is, so that the theorem is about the
concatenation itself.

`CodeAdapterProofs.tla` assumes nothing of its constants. Its invariant has two parts.

* `CodeInv`: the nodes and the edges that are not calls mirror a tree as the text
  adapter builds it (`Mirrors`: modules are its documents, all other nodes
  sections), so that its lemmas about `link_sibling` apply (`MirrorGrows`,
  `MirrorRoot`). The name table and the arguments of the walks stay inside the file
  that is walked (`Walk`), and so do calls (`CallsApart`), without which a file
  would touch the trees of others. `SiblingsStayChained`, `TypeCorrect` and
  `AdapterPromised` follow; a step is a step of Adapter only when the call returns.
* `Told` says what the locals of the call mean in terms of the items met so far. In the
  define pass the walk at depth d has the class that is around d (`Homes`) and a
  name its last definition so far; in the link pass it has what the name of the
  function around d stands for (`Callers`). `ItemEntered` is the core: one more
  item ends what is as deep as it or deeper, and opens itself. Contains edges are
  exactly those of the items met (`Contained`), and the weight of a Calls edge is the
  number of calls met that refer to its ends (`Counted`). `ClassesFollowed` and
  `CallsFollowNames` follow, since a name in the file is in the table when the
  link pass comes to it (`DefinedIsMeant`).

`EngineProofs.tla` is about any number of engines and requests. Of the constants it
assumes what the named assumptions of `Engine` say: ids in use are gap-free, keys
have node ids for ends and a sequence for a kind, links between any two ids are
keys, what an adapter makes of a file is a non-empty sequence of nodes and edges
between them that make a tree (`IsTree`) and no links, embedding a text gives an
embedding, scores are symmetric and can be weights. Adapters deliver what is
assumed of them (`AdapterPromised`, twice), and neither knows of links.

* `NodeIdsRoundTrip`, `EdgeKeysRoundTrip`: node ids and edge keys are read back as they
  were written. A text is split at the first separator (`SplitAtFirst`), ids contain
  no `~` and numbers no `.`, so that only the kind can, and it comes last.
* The folds of a request. A fold of the community modules is a CHOSEN function;
  `DoAllRuns` and `ImportedRuns` turn it into the run of the calls one after the
  other. `InOrderIs` says that nodes come in the order of their ids, each once.
* The invariant (`Inv`, `Group`): each engine is in order (`EngineOK`: its view follows
  from what it knows, its clock is ahead of it, nodes come before their
  embeddings), and engines fit together (`SharedOK`: an engine knows its own
  operations first, a tag is that of one operation, an id that of one addition, by
  the engine in it, with a number behind the counter). `GroupCall` is one call of
  the mutation API and `GroupImport` one operation that arrives; the lemmas from
  `GroupCalls` to `GroupIngests` carry them through the folds. That the counter is written
  back only at the end of an ingest is why `Group` has the counters apart.
  An import delivers a log as it was after some request (`DeltasOK`), read back as it
  was (`BackAsWritten`). However old it is, what is in it is in it in the order of the
  exporter's log and whole up to its end (`Deliverable`), so that
  at no point of the import an embedding comes before its node (`GroupExchange`).
* `EngineTypes`, `EnginesAlwaysConverge` follow: equal tags are equal operations, and
  views that follow the same operations show the same (`ViewsAgree`).
* `EnginesKeepTrees` is the refinement of Adapter by every engine. A request ingests a
  file (`Planting`) or, like all that comes from others, makes neither nodes nor
  edges other than links (`Resting`). That does not settle it: a view is keyed by
  ids and keys, so an operation of another engine must not fall into the range of this
  one. Hence the invariant `Planted`: an engine knows a node for each number it has
  given, and whoever knows an edge that is no link, both ends are nodes of its maker
  with numbers behind its counter (`Inside`). Resting then maps to stuttering
  (`TreesStay`), and ingesting moves the file's tree as a whole behind what is there
  (`ParentsMoved`, `TreeGrows`): one step of Adapter.
* `LinksAlwaysPair` needs to know where links come from (`Linked`): nodes come without
  embeddings, only nodes with text get one, and whoever knows the addition of a
  link knows its twin, the addition of the way back with the same score, which the
  same scan has stamped right after it or right before it (`Twins`). A delivered log
  brings both, since logs are handed out between requests and not within one (`AllLinked`). Twins are a bijection between the additions of the two edges, so that
  these sums are the same (`PairsSum`, by `SumMoved`), and what is left between a
  weight and its additions is what was reported, up to the width (`LinkIs`).
* `ScansAlwaysCover` looks into one scan. Every node with text is embedded once
  (`EmbedOpsCover`), with a tag beyond all that the engine knows, so that only an
  embedding of a larger replica is ahead of it (`FreshEmbedding`). Every pair that
  scores is a link once (`LinksCover`), in one order only, so that each of its two
  edges gets exactly one new operation and all other edges between nodes none
  (`ScanScores`); the weight moves by that (`ValueGrows`, `ValueStays`). What the lemmas
  show is more than the theorem says: the score comes on top also for pairs that were
  linked (`PairCovered`), which is finding 4 and no promise.

`NumberProofs.tla` has what the others need of numbers and sums. Induction over
sets of numbers goes by a least element, over finite sets by the set of the
subsets for which a claim holds (`AllSubsets`): the library's induction theorems take
an operator, these take a set. A sum of the community modules is a CHOSEN
function on the subsets of its domain; that there is one is shown by the same
induction (`PartialSums`), and what follows for sums (`SumMore`, `SumByOwner`, `SumMoved`,
`RemainderOfSum`) holds of `SumFunctionOnSet` itself, not of a stand-in.

Only model-checked: `Converges`, since liveness is beyond the prover. Every other
property of the passing runs is stated by a theorem.

## Not modelled, and the plan

Next: Snapshots with all mutations and with the JSON form of a whole forest.

Left out: the hashing embedding and the cosine (floating point; a provider of 0
dimensions divides by zero there), tree-sitter (external), the `demo` and
`distributed` commands (straight-line scripts over operations that are modelled),
requests that fail (they fail before they change anything), documents and
samples.
