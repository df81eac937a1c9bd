----------------------------- MODULE MCServices -----------------------------
(* The services that share no state with one another, side by side: a      *)
(* behaviour picks one of them and runs it.                                *)
EXTENDS RecordPatch, BicepCompiler, Operations, Permissions, ArmClient,
        ScopePolicy, TemplatePolicy

CONSTANTS s1, s2, g1, g2, m1

VARIABLE service

vars == <<service, patchVars, compilerVars, operationVars, permissionVars,
          armVars, scopeVars, source>>

-----------------------------------------------------------------------------
(* A patch for every step of a record's life: the claim, both records of a *)
(* failed submission, and what reconcile writes, with "succeeded" for all  *)
(* of ARM's final states, which the table of transitions treats alike.     *)
SomePatches ==
  ClaimPatches \cup FailurePatches
  \cup {[status |-> "running", expected |-> {"submitting"}],
        [status |-> "succeeded", expected |-> {"running"}]}

(* Configurations: a complete one of a production server, each of its      *)
(* boundaries, and each of the mistakes that keep a server from starting.  *)
Configured ==
  [enabled |-> TRUE, production |-> TRUE, mutations |-> TRUE, verifyRbac |-> TRUE,
   cliPath |-> TRUE, requestTimeout |-> 0, remoteModules |-> FALSE, registries |-> FALSE,
   store |-> "azure-table", tableEndpoint |-> TRUE, lockTtl |-> 9, armTimeout |-> 2,
   digest |-> TRUE, clientId |-> "operator", deploymentClientId |-> "deployment",
   subscriptions |-> {s1}, groups |-> {}, managementGroups |-> {}, tenantDeployments |-> FALSE]

Boundaries ==
  {[Configured EXCEPT !.subscriptions = subscriptions, !.groups = groups,
      !.managementGroups = managementGroups, !.tenantDeployments = tenant] :
     subscriptions \in {{}, {s1}, {s1, s2}}, groups \in {{}, {g1}},
     managementGroups \in {{}, {m1}}, tenant \in BOOLEAN}

Servers ==
  Boundaries \cup
  {[Configured EXCEPT !.production = FALSE, !.verifyRbac = FALSE], [Configured EXCEPT !.enabled = FALSE], [Configured EXCEPT !.cliPath = FALSE],
   [Configured EXCEPT !.lockTtl = 8], [Configured EXCEPT !.deploymentClientId = "operator"],
   [Configured EXCEPT !.deploymentClientId = "missing"]}

(* A deployment role, one that has half of the required actions, one that  *)
(* excludes an action; the operator's, and a reader's.                     *)
RolePlaces ==
  {Tenant, ManagementGroup(m1), Subscription(s1), ResourceGroup(s1, g1), ResourceGroup(s2, g2)}

RoleAssignments ==
  [identity : {"deployment"}, place : RolePlaces, actions : {{"write", "whatIf"}, {"whatIf"}}, notActions : {{}}]
  \cup [identity : {"deployment"}, place : RolePlaces, actions : {{"write", "whatIf"}}, notActions : {{"write"}}]
  \cup [identity : {"operator"}, place : RolePlaces, actions : {{"read", "restart", "tag"}, {"read"}}, notActions : {{}}]

-----------------------------------------------------------------------------
(* Bundles: a main file that loads a file, and another file.               *)
FilePaths ==
  {<<"m">>, <<".", "m">>, <<"a", "m">>, <<"a", "", "m">>, <<"M">>, <<"B">>, <<"a", "..", "m">>,
   <<"a", "t">>, <<"t">>, <<"con">>, <<"a">>, <<"", "m">>, <<"a", "a", "m">>}

Loads ==
  {{}, {None}} \cup {{load} : load \in UNION {[1..n -> {"..", "a", "m"}] : n \in 1..3}}

SomeBundles ==
  {[mainFile |-> main, files |-> <<[path |-> path, loads |-> loads, modules |-> {}],
                                   [path |-> other, loads |-> {}, modules |-> {}]>>] :
     main \in {<<"m">>, <<"a", "m">>}, path \in FilePaths,
     other \in {<<"M">>, <<"B">>, <<"a", "m">>}, loads \in Loads}
  \cup
  {[mainFile |-> <<"m">>, files |-> <<[path |-> <<"m">>, loads |-> {}, modules |-> modules]>>] :
     modules \in SUBSET {"registry", "elsewhere", "alias", "ts"}}

(* Templates: one resource with resources or nested templates two levels   *)
(* deep, and one beside it.                                                *)
Plain(type) ==
  [type |-> type, parent |-> 0, within |-> "top", target |-> "none", scope |-> FALSE,
   external |-> FALSE, linked |-> FALSE, mode |-> "Incremental"]

Vm == Plain(<<"Microsoft.Compute", "virtualMachines">>)

Leaves ==
  {<<leaf>> : leaf \in
     {Vm, Plain(<<"extensions">>), Plain(<<"Microsoft.Compute", "virtualMachines", "extensions">>),
      Plain(<<"Microsoft.Resources", "deploymentScripts">>),
      [Vm EXCEPT !.scope = TRUE], [Vm EXCEPT !.external = TRUE], [Vm EXCEPT !.target = "computed"]}}

Under(resource, within, tree) ==
  <<resource>> \o
  [i \in DOMAIN tree |-> [tree[i] EXCEPT !.parent = @ + 1, !.within = IF @ = "top" THEN within ELSE @]]

Around(tree) ==
  {Under(Vm, "resources", tree), Under(Vm, "nested", tree),
   Under([Plain(Deployment) EXCEPT !.target = "s2"], "nested", tree),
   Under([Plain(Deployment) EXCEPT !.mode = "Complete"], "nested", tree),
   Under([Plain(Deployment) EXCEPT !.linked = TRUE], "resources", tree),
   Under(Plain(Deployment), "resources", tree)}

Nests == UNION {Around(leaf) : leaf \in Leaves}
Trees == Leaves \cup Nests \cup UNION {Around(nest) : nest \in Nests}

SomeTemplates ==
  {[schema |-> "resourceGroup", resources |-> tree \o leaf] : tree \in Trees, leaf \in Leaves}
  \cup
  {[schema |-> schema, resources |-> tree] : schema \in Schemas, tree \in Trees}

Denied ==
  {<<"Microsoft.Resources", "deploymentScripts">>,
   <<"Microsoft.Compute", "virtualMachines", "extensions">>}

-----------------------------------------------------------------------------
Init ==
  /\ service \in {"patch", "compiler", "operations", "permissions", "arm", "scopes", "sources"}
  /\ PatchInit /\ (service # "patch" => tables = {})
  /\ CompilerInit /\ OperationsInit /\ ArmInit /\ BundleInit
  /\ PermissionsInit /\ (service # "permissions" => granted = {})
  /\ ScopeInit /\ (service # "scopes" => config = Configured)

Next ==
  \/ /\ service = "patch" /\ PatchNext
     /\ UNCHANGED <<service, compilerVars, operationVars, permissionVars, armVars, scopeVars, source>>
  \/ /\ service = "compiler" /\ CompilerNext
     /\ UNCHANGED <<service, patchVars, operationVars, permissionVars, armVars, scopeVars, source>>
  \/ /\ service = "operations" /\ OperationsNext
     /\ UNCHANGED <<service, patchVars, compilerVars, permissionVars, armVars, scopeVars, source>>
  \/ /\ service = "permissions" /\ PermissionsNext
     /\ UNCHANGED <<service, patchVars, compilerVars, operationVars, armVars, scopeVars, source>>
  \/ /\ service = "arm" /\ ArmNext
     /\ UNCHANGED <<service, patchVars, compilerVars, operationVars, permissionVars, scopeVars, source>>
  \/ /\ service = "scopes" /\ ScopeNext
     /\ UNCHANGED <<service, patchVars, compilerVars, operationVars, permissionVars, armVars, source>>
  \/ /\ service = "sources" /\ Examine
     /\ UNCHANGED <<service, patchVars, compilerVars, operationVars, permissionVars, armVars, scopeVars>>

Spec ==
  /\ Init /\ [][Next]_vars
  /\ PatchFairness /\ CompilerFairness /\ OperationsFairness

(* The variables of the services have their types.                         *)
ServicesTypeOK ==
  PatchTypeOK /\ CompilerTypeOK /\ OperationsTypeOK /\ PermissionsTypeOK /\ ArmTypeOK
=============================================================================
