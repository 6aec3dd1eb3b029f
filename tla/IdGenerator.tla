---------------------------- MODULE IdGenerator -----------------------------
(***************************************************************************)
(* The id generators (plugger/generator.go): they number the requests and  *)
(* the events of a handle and the instances of a Plugger with a 64-bit     *)
(* word that skips zero.                                                   *)
(***************************************************************************)
EXTENDS Integers

CONSTANT IdSpan     \* number of values of an id word: 2^64 in the code

ASSUME IdSpanAssumption == IdSpan \in Nat /\ IdSpan > 1

Ids == 1 .. IdSpan - 1

\* idGenerator.Get: the word wraps to zero and zero is stepped over.
NextId(currentId) ==
  LET next == IF currentId + 1 = IdSpan THEN 0 ELSE currentId + 1
  IN  IF next = 0 THEN next + 1 ELSE next
=============================================================================
