------------------------------- MODULE MCAccess -------------------------------
(* Instance of Access for TLC: two permission lists, a token that may only    *)
(* manage administrators, and the symmetry of the requests.                   *)
EXTENDS AccessPart, TLC

AllAdmins == <<"admins", "*">>
AdminsManage == <<"admins", "manage">>
UsersManage == <<"users", "manage">>

MCPermissionSets == {{AllAdmins}, {UsersManage}}
MCTokenScopes == {AdminsManage}

Symmetry == Permutations(AdminCalls)

MCSpec == Acc!Spec
=============================================================================
