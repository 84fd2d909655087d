----------------------------- MODULE JournalAtomic -----------------------------
(***************************************************************************)
(* What the tagModifyHead journal of TC_HashMap promises: a mutation of    *)
(* the journaled words of the region takes effect all at once, whatever    *)
(* crashes happen while it is written, committed or copied.  absMem holds  *)
(* the journaled words only.                                               *)
(***************************************************************************)
EXTENDS Integers, Sequences

CONSTANTS
    JAddrs,    \* the words written through update()
    Ops,       \* mutations: sequences of [a |-> word, d |-> increment, direct |-> BOOLEAN]
    InitMem,   \* the words after create()
    Pre(_, _)  \* Pre(m, o): mutation o may start on memory m

VARIABLE absMem

(* The journaled writes of mutation o, from the i-th on, added in order. *)
RECURSIVE ApplyFrom(_, _, _)
ApplyFrom(m, o, i) ==
    IF i > Len(o) THEN m
    ELSE IF o[i].a \notin JAddrs THEN ApplyFrom(m, o, i + 1)
    ELSE ApplyFrom([m EXCEPT ![o[i].a] = @ + o[i].d], o, i + 1)

Init == absMem = [a \in JAddrs |-> InitMem[a]]

Next == \E o \in Ops : Pre(absMem, o) /\ absMem' = ApplyFrom(absMem, o, 1)

Spec == Init /\ [][Next]_absMem
===============================================================================
