-------------------------------- MODULE Rbac --------------------------------
(***************************************************************************)
(* Roles, permissions and resource scope: the catalog seeded by migration  *)
(* 000009 and the pure policies of internal/rbac/policy.go.  Permissions   *)
(* are rows of the database, never a claim of a token; there is no         *)
(* administrator bypass.                                                   *)
(***************************************************************************)

Roles == {"ADMIN", "MANAGER", "TECHNICIAN"}

AdminOnlyPermissions == {"user:create", "user:update", "asset:delete"}

SharedPermissions ==
  {"user:read", "asset:create", "asset:read", "asset:update",
   "work_order:create", "work_order:read", "work_order:update",
   "work_order:assign", "work_order:status:update", "work_order:cancel",
   "audit:read"}

Permissions == AdminOnlyPermissions \cup SharedPermissions

\* role_permissions: the rows inserted by the catalog migration.
RolePermissions(role) ==
  CASE role = "ADMIN"      -> Permissions
    [] role = "MANAGER"    -> SharedPermissions
    [] role = "TECHNICIAN" -> {"asset:read", "work_order:read", "work_order:status:update"}

\* Which resources a role reaches once the coarse permission is granted.
AssignedScope(role, actor, assignee) ==
  \/ role \in {"ADMIN", "MANAGER"}
  \/ role = "TECHNICIAN" /\ actor = assignee
=============================================================================
