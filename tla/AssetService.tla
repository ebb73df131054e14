---------------------------- MODULE AssetService ----------------------------
(***************************************************************************)
(* Assets: internal/assets/service.go (Create, Patch, Delete).  A change   *)
(* of status and a deletion lock the row FOR UPDATE before they look for   *)
(* orders, against the share lock of order creation.                       *)
(***************************************************************************)
EXTENDS Access

NewAsset(r) == [code |-> r.code, status |-> r.status, meta |-> r.meta]

CodeTaken(code) == \E a \in Assets : assets[a] \notin {Null, Gone} /\ assets[a].code = code

(***************************************************************************)
(* InsertAsset.  The unique index makes an insert wait for the transaction *)
(* that inserts or deletes the same code, and then refuses a code in use.  *)
(***************************************************************************)
InsertAsset(s) ==
  /\ At(s, "InsertAsset")
  /\ Grantable(s, CodeLock(req[s].code), "UPDATE")
  /\ \/ CodeTaken(req[s].code) /\ Rollback(s, "ASSET_CODE_CONFLICT")
     \/ /\ ~CodeTaken(req[s].code)
        /\ Lock(s, CodeLock(req[s].code), "UPDATE")
        /\ \E a \in Fresh(assets) : Write(s, a, NewAsset(req[s]), <<"ASSET_CREATED">>)

LockAssetMode == "UPDATE"

LockAsset(s) ==
  /\ At(s, "LockAsset")
  /\ LET id == req[s].id IN
       \/ assets[id] \in {Null, Gone} /\ Rollback(s, "ASSET_NOT_FOUND")
       \/ /\ assets[id] \notin {Null, Gone}
          /\ Lock(s, RowLock(id), LockAssetMode)
          /\ Hold(s, id, assets[id],
                  IF req[s].op = "DeleteAsset" THEN "AssetHasOrders" ELSE "PatchAsset")

\* The row the patch asks for: absent fields keep their values.
PatchedAsset(a, r) ==
  [a EXCEPT !.status = Patched(r.status, a.status),
            !.meta = [f \in AssetFields |-> Patched(r.meta[f], a.meta[f])]]

WriteAsset(s) ==
  Write(s, key[s], PatchedAsset(row[s], req[s]), <<"ASSET_UPDATED">>) /\ UNCHANGED held

\* The change itself: nothing, a check against orders first, or UpdateAsset.
PatchAsset(s) ==
  /\ At(s, "PatchAsset")
  /\ LET new == PatchedAsset(row[s], req[s]) IN
       \/ new = row[s] /\ Proceed(s, "Commit")
       \/ new # row[s] /\ Withdraws(row[s].status, new.status) /\ Proceed(s, "AssetHasOpenOrders")
       \/ new # row[s] /\ ~Withdraws(row[s].status, new.status) /\ WriteAsset(s)

HasOpenOrders(a) ==
  \E o \in Orders : orders[o] # Null /\ orders[o].asset = a /\ HoldsAsset(orders[o].status)

AssetHasOpenOrders(s) ==
  /\ At(s, "AssetHasOpenOrders")
  /\ \/ HasOpenOrders(key[s]) /\ Rollback(s, "ASSET_HAS_OPEN_WORK_ORDERS")
     \/ ~HasOpenOrders(key[s]) /\ WriteAsset(s)

\* Variant: a deletion only looks for orders that are still open.
OnlyOpenReferences(a) == HasOpenOrders(a)

Referenced(a) == \E o \in Orders : orders[o] # Null /\ orders[o].asset = a

\* The check a deletion makes itself, terminal orders included.
HasOrders(a) == Referenced(a)

AssetHasOrders(s) ==
  /\ At(s, "AssetHasOrders")
  /\ \/ HasOrders(key[s]) /\ Rollback(s, "ASSET_IN_USE")
     \/ ~HasOrders(key[s]) /\ Proceed(s, "DeleteAsset")

(***************************************************************************)
(* DeleteAsset.  The entry of the unique index stays claimed until commit, *)
(* and the foreign key of work_orders refuses the deletion of a row that   *)
(* is referenced: the backstop of the check above.                         *)
(***************************************************************************)
DeleteAsset(s) ==
  /\ At(s, "DeleteAsset")
  /\ \/ Referenced(key[s]) /\ Rollback(s, "FOREIGN_KEY_VIOLATION")
     \/ /\ ~Referenced(key[s])
        /\ Lock(s, CodeLock(row[s].code), "UPDATE")
        /\ Write(s, key[s], Gone, <<"ASSET_DELETED">>)

AssetStep(s) ==
  \/ InsertAsset(s) \/ LockAsset(s) \/ PatchAsset(s) \/ AssetHasOpenOrders(s)
  \/ AssetHasOrders(s) \/ DeleteAsset(s)
=============================================================================
