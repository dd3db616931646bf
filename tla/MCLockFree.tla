----------------------------- MODULE MCLockFree -----------------------------
(***************************************************************************)
(* The lock-free parts of the vendored queues that stand on their own, one *)
(* of them per behaviour: `part` says which one runs.                      *)
(***************************************************************************)
EXTENDS MpmcBoundedQueue, FreeListInv, RegistryInv, RotationInv

VARIABLE part

MCInit ==
  /\ part \in {"mpmc", "freelist", "registry", "rotation"}
  /\ Init /\ FreeListInit /\ RegistryInit /\ RotationInit
  /\ part # "registry" => DOMAIN rpc = CHOOSE cast \in RegistryCasts : TRUE
  /\ part # "rotation" => DOMAIN call = CHOOSE cast \in RotationCasts : TRUE

MCNext ==
  /\ UNCHANGED part
  /\ \/ part = "mpmc" /\ Next /\ UNCHANGED <<freeListVars, registryVars, rotationVars>>
     \/ part = "freelist" /\ FreeListNext /\ UNCHANGED <<vars, registryVars, rotationVars>>
     \/ part = "registry" /\ RegistryNext /\ UNCHANGED <<vars, freeListVars, rotationVars>>
     \/ part = "rotation" /\ RotationNext /\ UNCHANGED <<vars, freeListVars, registryVars>>

MCSpec == MCInit /\ [][MCNext]_<<part, vars, freeListVars, registryVars, rotationVars>>
=============================================================================
