---------------------------- MODULE Permissions ----------------------------
(***************************************************************************)
(* Roles, what they may do, and who may read and change a network or run.  *)
(***************************************************************************)

Roles == {"admin", "user", "bot", "pending"}
Member == {"networks:view", "networks:modify", "runs:view", "runs:modify"}
Permission == Member \cup {"networks:manage_all", "runs:manage_all",
                           "users:manage", "system:manage"}

RolePermissions == [r \in Roles |-> CASE r = "admin" -> Permission
                                      [] r \in {"user", "bot"} -> Member
                                      [] OTHER -> {}]
HasPermission(user, permission) == permission \in RolePermissions[user.role]

\* A resource has an owner and a visibility; manage is the permission its kind asks for.
CanAccess(user, resource, manage) ==
    \/ resource.visibility = "public"
    \/ resource.owner = user.id
    \/ HasPermission(user, manage)
CanModify(user, resource, manage) ==
    resource.owner = user.id \/ HasPermission(user, manage)

============================================================================
