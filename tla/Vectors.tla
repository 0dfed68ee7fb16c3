------------------------------ MODULE Vectors -------------------------------
(***************************************************************************)
(* Vec::retain of Rust's standard library, which the access control matrix *)
(* and the attempt tracker are pruned with, and the filter of an iterator, *)
(* by which base64_decode drops characters: SelectSeq for a set of         *)
(* positions, in a form that proofs can expand.                            *)
(***************************************************************************)
EXTENDS Naturals, Sequences, FiniteSets

\* the elements of s at the positions I, in their order: the k-th of them is
\* the one that has k - 1 before it
Retain(s, I) ==
  [k \in 1 .. Cardinality(I) |->
     s[CHOOSE i \in I : Cardinality({j \in I : j < i}) = k - 1]]
=============================================================================
