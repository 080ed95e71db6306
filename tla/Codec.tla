------------------------------- MODULE Codec -------------------------------
(***************************************************************************)
(* The string forms of node ids and edge keys (crates/sle-core/src/id.rs,  *)
(* model.rs), in which they leave an engine: "replica.local" and           *)
(* "src~dst~kind".  A string is a sequence of tokens: numbers, separators  *)
(* and words.  The kind of an edge is any such string, since hosts name    *)
(* edges freely.                                                           *)
(***************************************************************************)
EXTENDS Naturals, Sequences, FiniteSetsExt

CONSTANTS Dot, Tilde   \* the separators

ASSUME SeparatorAssumption == Dot # Tilde /\ Dot \notin Nat /\ Tilde \notin Nat

\* splitn(2, sep): what is before the first separator and what is after it.
Split(s, sep) ==
  LET i == Min({j \in 1..Len(s) : s[j] = sep})
  IN  <<SubSeq(s, 1, i - 1), SubSeq(s, i + 1, Len(s))>>

NodeIdString(id) == <<id[1], Dot, id[2]>>

NodeIdOf(s) == LET parts == Split(s, Dot) IN <<parts[1][1], parts[2][1]>>

EdgeKeyString(key) ==
  NodeIdString(key.src) \o (<<Tilde>> \o (NodeIdString(key.dst) \o (<<Tilde>> \o key.kind)))

\* (Faulty variant.)  split instead of splitn: the kind ends at a separator.
EdgeKeyOfSplit(s) ==
  LET first  == Split(s, Tilde)
      second == Split(first[2] \o <<Tilde>>, Tilde)
      third  == Split(second[2] \o <<Tilde>>, Tilde)
  IN  [src |-> NodeIdOf(first[1]), dst |-> NodeIdOf(second[1]), kind |-> third[1]]

\* splitn(3, '~'): whatever comes after the second separator is the kind.
EdgeKeyOf(s) ==
  LET first  == Split(s, Tilde)
      second == Split(first[2], Tilde)
  IN  [src |-> NodeIdOf(first[1]), dst |-> NodeIdOf(second[1]), kind |-> second[2]]
=============================================================================
