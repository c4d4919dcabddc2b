---------------------------- MODULE OrderedSets ----------------------------
(***************************************************************************)
(* Sequences used as ordered sets: the vectors m_nb, m_prqueue and m_queue *)
(* of the code, which it searches from the front, appends to, and erases   *)
(* from with erase-remove_if.                                              *)
(***************************************************************************)
EXTENDS Integers, Sequences

Elems(q) == {q[i] : i \in 1..Len(q)}

Distinct(q) == \A i, j \in 1..Len(q) : q[i] = q[j] => i = j

\* q without the elements of S, in q's order.
Without(q, S) ==
  LET keep[k \in 0..Len(q)] ==
        IF k = 0 THEN << >>
        ELSE IF q[k] \in S THEN keep[k-1] ELSE Append(keep[k-1], q[k])
  IN  keep[Len(q)]
=============================================================================
