------------------------------ MODULE MCClient ------------------------------
(* Client with a small number of each thing.  The new role may be called   *)
(* HR, as an existing one is, or have a name without a Latin letter.       *)
EXTENDS Client, TLC

Slugs == [n \in RoleName |-> IF n = "HR" THEN "hr" ELSE NoRole]

Defaults == <<[id |-> "admin", permissions |-> Permission],
              [id |-> "hr", permissions |-> {}]>>

Groups == {Permission}

(* The names of built-in roles are not their identifiers; those of added   *)
(* ones can be.                                                            *)
Keys == [n \in RoleTitle |-> CASE n = "Administrator" -> "admin"
                               [] n = "HR" -> "hr"
                               [] OTHER -> n]

=============================================================================
