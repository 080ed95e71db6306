------------------------------- MODULE OrSet -------------------------------
(***************************************************************************)
(* The add-wins observed-remove set of crates/sle-core/src/orset.rs.  A    *)
(* missing map entry and an entry with no tags are told apart by nothing   *)
(* the code does, so both maps are total over the elements in use.         *)
(***************************************************************************)

NewSet(elems) == [adds |-> [e \in elems |-> {}], removes |-> [e \in elems |-> {}]]

Add(set, e, tag) == [set EXCEPT !.adds[e] = @ \cup {tag}]

\* (Faulty variant.)  The element is dropped and nothing is tombstoned.
RemoveForgets(set, e) == [set EXCEPT !.adds[e] = {}]

\* (Faulty variant.)  Only one of the visible add-tags is tombstoned.
RemoveOne(set, e) ==
  IF set.adds[e] = {} THEN set
  ELSE [set EXCEPT !.removes[e] = @ \cup {CHOOSE t \in set.adds[e] : TRUE}]

\* The add-tags visible here and now are tombstoned, and no others.
Remove(set, e) == [set EXCEPT !.removes[e] = @ \cup set.adds[e]]

Contains(set, e) == set.adds[e] \ set.removes[e] # {}

Present(set) == {e \in DOMAIN set.adds : Contains(set, e)}

\* (Faulty variant.)  The tombstones of the other set are not taken over.
MergeAdds(set, other) ==
  [set EXCEPT !.adds = [e \in DOMAIN set.adds |-> set.adds[e] \cup other.adds[e]]]

\* OrSet::merge: the union of both maps.
MergeSets(set, other) ==
  [adds    |-> [e \in DOMAIN set.adds |-> set.adds[e] \cup other.adds[e]],
   removes |-> [e \in DOMAIN set.adds |-> set.removes[e] \cup other.removes[e]]]
=============================================================================
