--------------------------- MODULE InterviewBook ----------------------------
(***************************************************************************)
(* What the interview service promises its clients: a book of interviews   *)
(* in which every operation is one step on the row as it is, and scores    *)
(* are written only while the interview is planned.  Interviews implements *)
(* it as long as requests do not overlap.                                  *)
(***************************************************************************)
EXTENDS Integers, InterviewRows

CONSTANTS Interview, Candidate, Vacancy, Competency, User, Comment,
          NoScore   \* no row in the matrix

VARIABLES
    book,   \* book[i]: the row of interview i
    marks   \* marks[i][k]: its score for competency k, or NoScore

bookVars == <<book, marks>>

MaxMark == 5

Init ==
    /\ \A i \in Interview : book[i].status = "Planned" /\ ~book[i].deleted
    /\ \A i \in Interview, k \in Competency : marks[i][k] \in {0, NoScore}

(* An interview is planned, with a matrix of zeros.                        *)
Plan(i) ==
    /\ ~book[i].stored
    /\ \E c \in Candidate, v \in Vacancy, u \in User, comment \in Comment :
          book' = [book EXCEPT ![i] = Planned(c, v, u, comment)]
    /\ \E ks \in SUBSET Competency :
          marks' = [marks EXCEPT ![i] =
                       [k \in Competency |-> IF k \in ks THEN 0 ELSE NoScore]]

(* One operation on the row of a planned, completed or cancelled interview.*)
Change(i) ==
    /\ book[i].stored
    /\ \/ \E c \in Candidate, v \in Vacancy, u \in User, comment \in Comment :
             book' = [book EXCEPT ![i] = Rebooked(@, c, v, u, comment)]
       \/ \E status \in Status, decision \in Decision \cup {Keep},
             comment \in Comment :
             book' = [book EXCEPT ![i] =
                         StatusSet(@, status, decision, comment)]
       \/ \E decision \in Decision, comment \in Comment :
             book' = [book EXCEPT ![i] = Decided(@, decision, comment)]
       \/ ~book[i].deleted /\ book' = [book EXCEPT ![i] = SoftDeleted(@)]
       \/ book[i].deleted /\ book' = [book EXCEPT ![i] = Undeleted(@)]
       \/ book' = [book EXCEPT ![i] = Archived(@, ~book[i].archived)]
    /\ UNCHANGED marks

(* Competencies of a planned interview are scored; rows never go away.     *)
Mark(i) ==
    /\ book[i].stored
    /\ book[i].status = "Planned"
    /\ \E ks \in SUBSET Competency : \E mark \in [ks -> 0 .. MaxMark] :
          marks' = [marks EXCEPT ![i] =
                       [k \in Competency |-> IF k \in ks THEN mark[k]
                                                         ELSE marks[i][k]]]
    /\ UNCHANGED book

BookNext == \E i \in Interview : Plan(i) \/ Change(i) \/ Mark(i)

BookSpec == Init /\ [][BookNext]_bookVars

=============================================================================
