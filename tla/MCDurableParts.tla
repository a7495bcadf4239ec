--------------------------- MODULE MCDurableParts ---------------------------
(***************************************************************************)
(* A small instance of the parts that keep something on disk, for one run: *)
(* the journal when the machine may stop, and when its calls may fail.     *)
(***************************************************************************)
EXTENDS DurableParts

CONSTANTS a, b, keyA, keyB, first, second

\* The entries of the journal may change names, and the attempts at a transcript.
Symmetry == Permutations({keyA, keyB}) \cup Permutations({first, second})

\* The machine may stop, or all calls may fail.
Trouble ==
  {[calls |-> {"sweep"}, power |-> TRUE],
   [calls |-> {"list", "unlink", "sweep"}, power |-> FALSE]}

\* A prompt, its mirror, and replies to either.
Rows == << [id |-> 1, parent |-> 0, kind |-> "prompt"], [id |-> 2, parent |-> 1, kind |-> "mirror"],
           [id |-> 3, parent |-> 2, kind |-> "other"], [id |-> 4, parent |-> 3, kind |-> "other"] >>
=============================================================================
