----------------------------- MODULE SeekableFile -----------------------------
(***************************************************************************)
(* What the random-access Reader promises: a read-only seekable file whose *)
(* every call may fail, but never with wrong bytes or a moved position.    *)
(***************************************************************************)
EXTENDS Integers, Sequences

CONSTANT PositionMax    \* the largest position a seek may reach

VARIABLES
    contents,    \* the bytes of the file
    open,        \* whether the file is open
    position,    \* the position of the next sequential read
    answer       \* what the last call returned: [op, ok, from, to, bytes]

vars == <<contents, open, position, answer>>

Answered(op, ok, from, to) ==
    answer' = [op |-> op, ok |-> ok, from |-> from, to |-> to,
               bytes |-> IF ok THEN SubSeq(contents, from + 1, to) ELSE <<>>]

Init == ~open /\ position = 0 /\ answer.op = "none"

Open == ~open /\ open' /\ position' = 0 /\ UNCHANGED contents /\ Answered("new", TRUE, 0, 0)

NoOpen == ~open /\ UNCHANGED <<contents, open, position>> /\ Answered("new", FALSE, 0, 0)

(* A sequential read of a non-empty slice returns at least one byte before *)
(* the end and none behind it.                                             *)
Read ==
    /\ open
    /\ \E n \in 0 .. Len(contents) :
          /\ n = 0 <=> position >= Len(contents)
          /\ position + n <= Len(contents) \/ n = 0
          /\ position' = position + n
          /\ Answered("read", TRUE, position, position + n)
    /\ UNCHANGED <<contents, open>>

(* A positioned read returns all it was asked for; the position stays. *)
ReadAt ==
    /\ open
    /\ \E from \in 0 .. Len(contents) : \E to \in from .. Len(contents) :
          Answered("read_at", TRUE, from, to)
    /\ UNCHANGED <<contents, open, position>>

(* A seek reports the position it has set. *)
Seek ==
    /\ open
    /\ position' \in 0 .. PositionMax
    /\ Answered("seek", TRUE, position', position')
    /\ UNCHANGED <<contents, open>>

(* Any call may fail, and then changes nothing. *)
Fail ==
    /\ open
    /\ \E op \in {"read", "read_at", "seek"} : Answered(op, FALSE, 0, 0)
    /\ UNCHANGED <<contents, open, position>>

(* Calls that return no bytes. *)
Other ==
    /\ open
    /\ \E op \in {"read_empty", "get_mut"} : Answered(op, TRUE, 0, 0)
    /\ UNCHANGED <<contents, open, position>>

Close ==
    /\ open /\ ~open' /\ position' = 0
    /\ Answered("into_inner", TRUE, 0, 0)
    /\ UNCHANGED contents

(* The caller goes on with what was returned. *)
Take == open /\ answer'.op = "none" /\ UNCHANGED <<contents, open, position>>

Next == Open \/ NoOpen \/ Read \/ ReadAt \/ Seek \/ Fail \/ Other \/ Take \/ Close

Spec == Init /\ [][Next]_vars

=============================================================================
