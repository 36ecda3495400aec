------------------------------ MODULE Filtering ------------------------------
(***************************************************************************)
(* A list comprehension [x for x in s if x in A].  SelectSeq of the        *)
(* standard modules means the same, but is not defined as a fold, about    *)
(* which something can be proved (module Inductions).                      *)
(***************************************************************************)
EXTENDS Naturals, Sequences, SequencesExt

Filter(s, A) ==
  FoldLeft(LAMBDA kept, x : IF x \in A THEN Append(kept, x) ELSE kept, <<>>, s)

=============================================================================
