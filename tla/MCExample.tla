----------------------------- MODULE MCExample ------------------------------
(***************************************************************************)
(* Instance of Example for TLC.                                            *)
(***************************************************************************)
EXTENDS Example, TLC

CONSTANTS f1, f2

\* A sample, or one with a defect.
Kinds ==
  LET good == {Sample(n) : n \in Names}
  IN  UNION {{k, [k EXCEPT !.opens = FALSE], [k EXCEPT !.symbols = FALSE],
              [k EXCEPT !.name = None], [k EXCEPT !.sameVersion = FALSE],
              [k EXCEPT !.makes = FALSE]} : k \in good}

AnyTwo == {f1 :> k @@ f2 :> l : k \in Kinds, l \in Kinds}
=============================================================================
