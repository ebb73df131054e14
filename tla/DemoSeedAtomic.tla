--------------------------- MODULE DemoSeedAtomic ---------------------------
(***************************************************************************)
(* What the demo seed promises beside the services of GoWorkAtomic: in one *)
(* step it adds the demo accounts that are missing, all of them or none,   *)
(* and never changes an account that exists.                               *)
(***************************************************************************)
EXTENDS GoWorkAtomic, Sequences, Functions

CONSTANT Demo   \* the demo accounts, the administrator first

Has(account) == \E u \in Users : users[u] # Null /\ users[u].email = account.email

Missing == {i \in DOMAIN Demo : ~Has(Demo[i])}

Seedable ==
  /\ \A u \in Users, i \in DOMAIN Demo :
       users[u] # Null /\ users[u].email = Demo[i].email =>
         users[u].active /\ users[u].role = Demo[i].role
  /\ 1 \in Missing => \A u \in Users : users[u] # Null => users[u].role # "ADMIN"

SeedDemo ==
  /\ Seedable
  /\ \E id \in [Missing -> {u \in Users : users[u] = Null}] :
       /\ IsInjective(id)
       /\ users' = [u \in Users |-> IF \E i \in Missing : id[i] = u
                                      THEN Demo[CHOOSE i \in Missing : id[i] = u]
                                      ELSE users[u]]
  /\ UNCHANGED <<assets, orders>>

SeedSpec == Init /\ [][Next \/ SeedDemo]_vars
=============================================================================
