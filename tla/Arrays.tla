------------------------------- MODULE Arrays -------------------------------
(* Arrays of the client, as sequences.                                     *)
EXTENDS Naturals, Sequences

(* What filter leaves of list when its predicate is false at the positions *)
(* in gone.                                                                *)
Filtered(list, gone) ==
    LET kept[k \in 0..Len(list)] ==
            IF k = 0 THEN <<>>
            ELSE IF k \in gone THEN kept[k - 1]
            ELSE Append(kept[k - 1], list[k])
    IN  kept[Len(list)]

=============================================================================
