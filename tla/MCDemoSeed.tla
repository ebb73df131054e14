----------------------------- MODULE MCDemoSeed -----------------------------
(***************************************************************************)
(* A small instance of DemoSeed: an empty system in which seeds and        *)
(* bootstraps race, under the address of the demo administrator and under  *)
(* another; the first administrator creates an account in a demo address,  *)
(* renames and disables accounts.                                          *)
(***************************************************************************)
EXTENDS DemoSeed, TLC

Addresses == [role \in {"ADMIN", "MANAGER", "TECHNICIAN"} |->
                CASE role = "ADMIN" -> "a" [] role = "MANAGER" -> "m" [] OTHER -> "t"]

NoUsers == [u \in Users |-> Null]
NoAssets == [a \in Assets |-> Null]
NoOrders == [o \in Orders |-> Null]

Boot(email) == [op |-> "Bootstrap", actor |-> Null, role |-> "ADMIN", email |-> email,
                name |-> "demo", password |-> "demo"]
Create(role, email) == [op |-> "CreateUser", actor |-> 1, role |-> role, email |-> email,
                        name |-> "demo", password |-> "demo"]
Patch(id, email, active) ==
  [op |-> "PatchUser", actor |-> 1, id |-> id, email |-> email, name |-> Null,
   password |-> Null, active |-> active]

Beside ==
  {Boot("a"), Boot("x"), Create("TECHNICIAN", "m"), Patch(1, "x", Null), Patch(1, "a", Null),
   Patch(2, Null, FALSE), Patch(2, Null, TRUE), Patch(2, "t", Null)}

Interchangeable == Permutations(Sessions)
=============================================================================
