--------------------------------- MODULE Wire ---------------------------------
(***************************************************************************)
(* What read_fully of src/wire.rs does with a wrapped reader, as one step. *)
(* A reader is the bytes it will deliver and the number it has delivered;  *)
(* it may raise an error instead of delivering more, and the error's place *)
(* is the number of bytes (the budget) that the call obtains before it.    *)
(* ReadFully shows that the loop in the code does this.                    *)
(***************************************************************************)
EXTENDS Integers, Sequences

least(m, n) == IF m < n THEN m ELSE n

(* The n bytes that follow the first `at`. *)
Slice(source, at, n) == SubSeq(source, at + 1, at + n)

(* Ok(got), where got < required means the end of the source, or an error  *)
(* that leaves `got` bytes consumed.                                       *)
read_fully(source, at, required, budget) ==
    LET available == IF at < Len(source) THEN Len(source) - at ELSE 0
    IN  IF budget < required /\ budget <= available
        THEN [ok |-> FALSE, got |-> budget]
        ELSE [ok |-> TRUE, got |-> least(required, available)]

=============================================================================
