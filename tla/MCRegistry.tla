----------------------------- MODULE MCRegistry -----------------------------
(***************************************************************************)
(* Instances of Registry for TLC.                                          *)
(***************************************************************************)
EXTENDS Registry, TLC

CONSTANTS p1, p2, u1, u2, f1, f2, n1, n2

Good(n) == [opens |-> TRUE, symbols |-> TRUE, name |-> n, sameVersion |-> TRUE, makes |-> TRUE]

\* Beside one good library: another, one of the same name, and each defect.
OneDefect ==
  {f1 :> Good(n1) @@ f2 :> k :
     k \in {Good(n2), Good(n1), [Good(n2) EXCEPT !.opens = FALSE],
            [Good(n2) EXCEPT !.symbols = FALSE], [Good(n2) EXCEPT !.name = None],
            [Good(n2) EXCEPT !.sameVersion = FALSE], [Good(n2) EXCEPT !.makes = FALSE]}}

UserSymmetry == Permutations(Users)
=============================================================================
