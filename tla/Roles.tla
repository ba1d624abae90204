------------------------------- MODULE Roles -------------------------------
(***************************************************************************)
(* The roles and their permissions (App.js), which decide what the client  *)
(* shows to whom.  They live in localStorage and nowhere else: a tab reads *)
(* them when it is opened and writes them back, whole, whenever it changes *)
(* them; nothing tells the other tabs.  One tab is modelled, next to       *)
(* others that change roles.                                               *)
(***************************************************************************)
EXTENDS Naturals, Sequences, SequencesExt, Arrays

CONSTANTS
    RoleName,       \* names typed into the form
    IdOf,           \* IdOf[n]: the identifier made of a name
    NoRole,         \* the empty identifier
    Permission,     \* permissions, see RolesAssumption
    Group,          \* sets of permissions that the form switches at once
    DEFAULT_ROLES,  \* the roles of a client that has stored none
    Edits           \* how many changes of the roles a behaviour has

RoleId == {IdOf[n] : n \in RoleName} \cup {r.id : r \in Range(DEFAULT_ROLES)}

ASSUME RolesAssumption ==
    /\ {"users.create", "users.edit", "users.delete"} \subseteq Permission
    /\ Group \subseteq SUBSET Permission
    /\ IdOf \in [RoleName -> RoleId]
    /\ Edits \in Nat
    /\ DEFAULT_ROLES \in Seq([id : RoleId, permissions : SUBSET Permission])

VARIABLES
    roles,      \* the roles as the tab knows them
    hr_roles,   \* the roles in localStorage
    roleForm,   \* the form of a role
    userRole,   \* the role of the user signed in
    edits       \* how often the roles have been changed

rolesVars == <<roles, hr_roles, roleForm, userRole, edits>>

Role == [id : RoleId, permissions : SUBSET Permission]

RoleForm == [open : BOOLEAN, editing : RoleId \cup {NoRole},
             permissions : SUBSET Permission]

ClosedForm == [open |-> FALSE, editing |-> NoRole, permissions |-> {}]

(* What a user with role id may see: the first role of that id decides.    *)
Granted(list, id) ==
    LET found == SelectInSeq(list, LAMBDA r : r.id = id)
    IN  IF found = 0 THEN {} ELSE list[found].permissions

hasPermission(perm) == perm \in Granted(roles, userRole)

KnownRole == {r.id : r \in Range(DEFAULT_ROLES)}

RolesInit ==
    /\ roles = DEFAULT_ROLES
    /\ hr_roles = DEFAULT_ROLES
    /\ roleForm = ClosedForm
    /\ userRole \in KnownRole
    /\ edits = 0

-----------------------------------------------------------------------------
(* Opening or reloading the tab: its roles are those in localStorage.      *)
LoadRoles ==
    /\ roles' = hr_roles
    /\ roleForm' = ClosedForm
    /\ UNCHANGED <<hr_roles, userRole, edits>>

(* Users have one of the roles that the API knows.                         *)
SignInAs(id) ==
    /\ id \in KnownRole
    /\ userRole' = id
    /\ roleForm' = ClosedForm
    /\ UNCHANGED <<roles, hr_roles, edits>>

-----------------------------------------------------------------------------
(* The form.  Its name can be typed at any time and matters when the form  *)
(* is saved.                                                               *)
Form(f) ==
    /\ roleForm' = f
    /\ UNCHANGED <<roles, hr_roles, userRole, edits>>

openAddRoleModal ==
    /\ hasPermission("users.create") /\ ~roleForm.open
    /\ Form([ClosedForm EXCEPT !.open = TRUE])

openEditRoleModal ==
    /\ hasPermission("users.edit") /\ ~roleForm.open
    /\ \E r \in Range(roles) :
          Form([open |-> TRUE, editing |-> r.id, permissions |-> r.permissions])

closeRoleModal == roleForm.open /\ Form(ClosedForm)

toggleRolePermission(perm) ==
    /\ roleForm.open
    /\ Form([roleForm EXCEPT !.permissions =
                IF perm \in @ THEN @ \ {perm} ELSE @ \cup {perm}])

toggleGroupPermissions(group) ==
    /\ roleForm.open
    /\ Form([roleForm EXCEPT !.permissions =
                IF group \subseteq @ THEN @ \ group ELSE @ \cup group])

-----------------------------------------------------------------------------
(* Mutated form of SavedRoles: a new role comes first.                     *)
SavedRolesFirst(list, f, name) ==
    IF f.editing = NoRole
    THEN <<[id |-> IdOf[name], permissions |-> f.permissions]>> \o list
    ELSE [k \in DOMAIN list |->
             IF list[k].id = f.editing
             THEN [list[k] EXCEPT !.permissions = f.permissions]
             ELSE list[k]]

(* A new role comes last, though there is one with its identifier; an      *)
(* edited one replaces all with its identifier.  A role with the empty     *)
(* identifier cannot be edited: saving it adds another role.               *)
SavedRoles(list, f, name) ==
    IF f.editing = NoRole
    THEN Append(list, [id |-> IdOf[name], permissions |-> f.permissions])
    ELSE [k \in DOMAIN list |->
             IF list[k].id = f.editing
             THEN [list[k] EXCEPT !.permissions = f.permissions]
             ELSE list[k]]

(* All roles with the identifier go; nothing spares a role in use, the     *)
(* user's own included.                                                    *)
WithoutRole(list, id) ==
    Filtered(list, {k \in DOMAIN list : list[k].id = id})

(* The effect on the tab's roles writes them to localStorage, over         *)
(* whatever another tab has stored there.                                  *)
setRoles(new) ==
    /\ edits < Edits
    /\ edits' = edits + 1
    /\ roles' = new
    /\ hr_roles' = new
    /\ roleForm' = ClosedForm
    /\ UNCHANGED userRole

handleSaveRole(name) ==
    /\ roleForm.open
    /\ setRoles(SavedRoles(roles, roleForm, name))

handleDeleteRole(id) ==
    /\ hasPermission("users.delete") /\ ~roleForm.open
    /\ id \in {r.id : r \in Range(roles)}
    /\ setRoles(WithoutRole(roles, id))

(* Another tab changes its roles: those stored last, or older ones.        *)
OtherTabSaves ==
    /\ edits < Edits
    /\ edits' = edits + 1
    /\ \E list \in {hr_roles, DEFAULT_ROLES} :
          \/ \E f \in RoleForm, name \in RoleName :
                /\ f.open /\ hr_roles' = SavedRoles(list, f, name)
          \/ \E id \in RoleId : hr_roles' = WithoutRole(list, id)
    /\ UNCHANGED <<roles, roleForm, userRole>>

-----------------------------------------------------------------------------
RolesNext ==
    \/ LoadRoles
    \/ openAddRoleModal \/ openEditRoleModal \/ closeRoleModal
    \/ \E name \in RoleName : handleSaveRole(name)
    \/ \E id \in RoleId : SignInAs(id) \/ handleDeleteRole(id)
    \/ \E perm \in Permission : toggleRolePermission(perm)
    \/ \E group \in Group : toggleGroupPermissions(group)
    \/ OtherTabSaves

RolesSpec == RolesInit /\ [][RolesNext]_rolesVars

-----------------------------------------------------------------------------
(* What every variable holds.                                              *)
RolesTypeOK ==
    /\ roles \in Seq(Role) /\ hr_roles \in Seq(Role)
    /\ roleForm \in RoleForm
    /\ userRole \in RoleId
    /\ edits \in 0..Edits

(* Adding a role changes the rights of nobody who has one, whatever its    *)
(* name: one whose name gives the identifier of another role (HR gives     *)
(* hr) stands behind it.                                                   *)
NewRoleGrantsNothing ==
    [][(roles' # roles /\ edits' # edits /\ roleForm.open
        /\ roleForm.editing = NoRole)
       => \A r \in Range(roles) :
             Granted(roles', r.id) = Granted(roles, r.id)]_rolesVars

=============================================================================
