------------------------------- MODULE Client -------------------------------
(***************************************************************************)
(* A tab of the React client: its session (Session), the roles it knows    *)
(* (Roles) and the filters of its lists (ListViews).  The lists themselves *)
(* and the workflow of interviews are in ListPages and DecisionWorkflow.   *)
(*                                                                         *)
(* The three parts share no variable, and what one does neither enables    *)
(* nor disables what another does, so that a behaviour of the tab is one   *)
(* of each, interleaved at will.  Every behaviour here moves one part; the *)
(* others stay in some initial state.                                      *)
(***************************************************************************)
EXTENDS Session, Roles, ListViews

CONSTANT Part       \* the parts that move

ASSUME ClientAssumption == Part \subseteq {"session", "roles", "views"}

VARIABLE part       \* the one that moves in this behaviour

clientVars == <<sessionVars, rolesVars, viewsVars, part>>

ClientInit ==
    /\ part \in Part
    /\ SessionInit /\ RolesInit /\ ViewsInit
    /\ part # "roles" => userRole = CHOOSE id \in KnownRole : TRUE
    /\ part # "views" => viewed = (CHOOSE list \in List : TRUE) /\ ~isAdmin

ClientNext ==
    /\ \/ part = "session" /\ SessionNext /\ UNCHANGED <<rolesVars, viewsVars>>
       \/ part = "roles" /\ RolesNext /\ UNCHANGED <<sessionVars, viewsVars>>
       \/ part = "views" /\ ViewsNext /\ UNCHANGED <<sessionVars, rolesVars>>
    /\ UNCHANGED part

(* Only the session needs fairness.                                        *)
ClientSpec ==
    /\ ClientInit /\ [][ClientNext]_clientVars
    /\ part = "session" => SessionFairness

(* What every variable holds.                                              *)
ClientTypeOK == SessionTypeOK /\ RolesTypeOK /\ ViewsTypeOK

=============================================================================
