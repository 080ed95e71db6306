-------------------------------- MODULE Hlc --------------------------------
(***************************************************************************)
(* Hybrid logical clock timestamps and the tags built from them            *)
(* (crates/sle-core/src/hlc.rs and the Tag of id.rs).  Pure operators: the *)
(* wall-clock reading that the code takes from SystemTime is a parameter.  *)
(* u64 fields are naturals; no counter comes near 2^64 by ticking.         *)
(***************************************************************************)
EXTENDS Naturals

Hlc == [physical : Nat, logical : Nat]

HlcZero == [physical |-> 0, logical |-> 0]

\* The derived Ord of Hlc: lexicographic, the physical part first.
HlcLT(a, b) ==
  \/ a.physical < b.physical
  \/ a.physical = b.physical /\ a.logical < b.logical

Larger(x, y) == IF x >= y THEN x ELSE y

-----------------------------------------------------------------------------
\* Faulty variants, used only to show that the properties can fail.

\* `>=` instead of `>`: a second tick in the same millisecond restarts at 0.
TickRestarts(last, now) ==
  IF now >= last.physical
  THEN [physical |-> now, logical |-> 0]
  ELSE [physical |-> last.physical, logical |-> last.logical + 1]

\* The branch for a remote timestamp with the winning physical part is missing.
ObserveDropsRemote(last, remote, now) ==
  LET p == Larger(now, Larger(last.physical, remote.physical))
  IN  [physical |-> p,
       logical |-> IF p = last.physical THEN last.logical + 1 ELSE 0]

-----------------------------------------------------------------------------
\* HlcClock::tick: the value returned, which is also the new `last`.
Tick(last, now) ==
  IF now > last.physical
  THEN [physical |-> now, logical |-> 0]
  ELSE [physical |-> last.physical, logical |-> last.logical + 1]

\* HlcClock::observe: fold a timestamp seen in an operation into `last`.  The
\* counter goes on from the timestamps that have the winning physical part,
\* the larger one if both do, and restarts if only the wall clock does.
Observe(last, remote, now) ==
  LET p == Larger(now, Larger(last.physical, remote.physical))
      next(ts) == IF p = ts.physical THEN ts.logical + 1 ELSE 0
  IN  [physical |-> p, logical |-> Larger(next(last), next(remote))]

\* The derived Ord of Tag: its first field is the replica, so two tags of
\* different replicas compare by replica id and never by timestamp.
TagLT(s, t) ==
  \/ s.replica < t.replica
  \/ s.replica = t.replica /\ HlcLT(s.hlc, t.hlc)
=============================================================================
