--------------------------- MODULE Services_proofs ---------------------------
(***************************************************************************)
(* Theorems about the services side by side.                               *)
(***************************************************************************)
EXTENDS MCServices, RecordPatch_proofs, Bicep_proofs, Authorization_proofs, AzureCalls_proofs

(* Each service keeps to itself: a behaviour of the composition is one of  *)
(* every service (one that is not picked stands still), since no step of   *)
(* one touches the variables of another.  So the theorems about a service  *)
(* are theorems about the composition, in every instance of it.            *)
THEOREM ServicesStandAlone ==
  Spec => /\ PatchSpec /\ PatchFairness
          /\ CompilerSpec
          /\ OperationsSpec
          /\ PermissionsSpec
          /\ ArmSpec
          /\ ScopeInit /\ [][ScopeNext]_scopeVars
          /\ BundleInit /\ [][Examine]_source
<1>1. Init => /\ PatchInit /\ CompilerInit /\ OperationsInit /\ PermissionsInit /\ ArmInit
              /\ ScopeInit /\ BundleInit
  BY DEF Init
<1>2. [Next]_vars => [CompilerNext]_compilerVars
  BY DEF Next, vars
<1>3. [Next]_vars => [OperationsNext]_operationVars
  BY DEF Next, vars
<1>4. [Next]_vars => [PermissionsNext]_permissionVars
  BY DEF Next, vars
<1>5. [Next]_vars => [ArmNext]_armVars
  BY DEF Next, vars
<1>6. [Next]_vars => [ScopeNext]_scopeVars
  BY DEF Next, vars
<1>7. [Next]_vars => [Examine]_source
  BY DEF Next, vars
<1>8. [Next]_vars => [PatchNext]_patchVars
  BY DEF Next, vars
<1>. QED
  BY <1>1, <1>2, <1>3, <1>4, <1>5, <1>6, <1>7, <1>8, PTL
     DEF Spec, PatchSpec, CompilerSpec, OperationsSpec, PermissionsSpec, ArmSpec

(* The type invariant of the services, from that of each.                  *)
THEOREM ServicesAreTyped == Spec => []ServicesTypeOK
<1>1. PatchTypeOK /\ CompilerTypeOK /\ OperationsTypeOK /\ PermissionsTypeOK /\ ArmTypeOK => ServicesTypeOK
  BY DEF ServicesTypeOK
<1>. QED
  BY <1>1, ServicesStandAlone, PatchTypes, CompilerTypes, OperationsTyped, PermissionsAreTyped, ArmTypes, PTL
=============================================================================
