----------------------------- MODULE PnCounter -----------------------------
(***************************************************************************)
(* The PN-counter behind an edge's weight (PnCounter in                    *)
(* crates/sle-core/src/model.rs): one bucket of increments and one of      *)
(* decrements per replica.  Buckets without an entry count 0.              *)
(*                                                                         *)
(* Buckets are unsigned and the value is signed, both Width bits wide;     *)
(* arithmetic wraps, as in a release build (a debug build panics instead). *)
(***************************************************************************)
EXTENDS Integers, Functions

CONSTANT Width   \* 64 in the code

\* The second part is arithmetic, which the provers lack for exponents.
ASSUME WidthAssumption == Width \in Nat \ {0} /\ 2^Width \in Nat \ {0}

Wrap(n) == n % 2^Width
Signed(n) == IF Wrap(n) < 2^(Width - 1) THEN Wrap(n) ELSE Wrap(n) - 2^Width

NewCounter(replicas) == [pos |-> [r \in replicas |-> 0], neg |-> [r \in replicas |-> 0]]

\* (Faulty variant.)  Each sum stops at the largest signed value.
ValueSaturated(c) ==
  LET cap(n) == IF n < 2^(Width - 1) THEN n ELSE 2^(Width - 1) - 1
  IN  Signed(cap(SumFunction(c.pos)) - cap(SumFunction(c.neg)))

Value(c) == Signed(SumFunction(c.pos) - SumFunction(c.neg))

Incr(c, r, amount) == [c EXCEPT !.pos[r] = Wrap(@ + amount)]

Decr(c, r, amount) == [c EXCEPT !.neg[r] = Wrap(@ + amount)]

\* PnCounter::merge: the larger count of each bucket.
MergeCounters(c, d) ==
  LET larger(x, y) == IF x >= y THEN x ELSE y
  IN  [pos |-> [r \in DOMAIN c.pos |-> larger(c.pos[r], d.pos[r])],
       neg |-> [r \in DOMAIN c.neg |-> larger(c.neg[r], d.neg[r])]]
=============================================================================
