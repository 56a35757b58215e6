------------------------------ MODULE Picking ------------------------------
(* Array.prototype.filter, in a form that can be reasoned about: the         *)
(* elements of a sequence at some of its positions, in their order.          *)
EXTENDS Integers, Sequences

Picked(s, positions) ==
    LET upTo[n \in 0..Len(s)] ==
            IF n = 0 THEN <<>>
            ELSE IF n \in positions THEN Append(upTo[n - 1], s[n]) ELSE upTo[n - 1]
    IN  upTo[Len(s)]
=============================================================================
