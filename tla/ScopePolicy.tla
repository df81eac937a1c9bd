---------------------------- MODULE ScopePolicy ----------------------------
(***************************************************************************)
(* Where the server deploys and what it says about it: the guardrails'     *)
(* scopes (src/services/guardrails.ts), the configuration they read        *)
(* (src/config/index.ts), the permissions of the deployment identity as    *)
(* the inventory evaluates them (src/services/inventory.ts) and the        *)
(* readiness contributors (src/readiness.ts).  The server starts with a    *)
(* configuration, and role assignments come and go in Azure.               *)
(***************************************************************************)
EXTENDS Naturals, FiniteSets

CONSTANTS
  Subscriptions,  (* that exist; all of them under every management group  *)
  Groups,         (* resource group names, in every subscription           *)
  ManagementGroups,
  Environments,   (* configurations as the environment gives them          *)
  Roles,          (* role assignments of the server's identities           *)
  MaxRoles        (* bound: role assignments at once                       *)

VARIABLES
  config,         (* the configuration of the running server               *)
  roles           (* the role assignments there are                        *)

scopeVars == <<config, roles>>

Missing == "missing"

(* There is a group to act on, and a configuration lists what there is.    *)
ASSUME ScopeAssumption ==
  /\ Groups # {} /\ Missing \notin Groups
  /\ \A c \in Environments :
       /\ c.subscriptions \subseteq Subscriptions
       /\ c.groups \subseteq Groups
       /\ c.managementGroups \subseteq ManagementGroups

(* A place that a deployment can be made at or reach.                      *)
Tenant == [kind |-> "tenant"]
ManagementGroup(m) == [kind |-> "managementGroup", group |-> m]
Subscription(s) == [kind |-> "subscription", subscription |-> s]
ResourceGroup(s, g) == [kind |-> "resourceGroup", subscription |-> s, group |-> g]

Places ==
  {Tenant} \cup {ManagementGroup(m) : m \in ManagementGroups}
  \cup {Subscription(s) : s \in Subscriptions}
  \cup {ResourceGroup(s, g) : s \in Subscriptions, g \in Groups}

-----------------------------------------------------------------------------
(* assertDeploymentConfiguration: the configurations the server starts     *)
(* with.  The scope-lock lease has to outlive four ARM requests.           *)
assertDeploymentConfiguration(c) ==
  c.enabled =>
    /\ c.cliPath
    /\ c.requestTimeout = 0
    /\ c.remoteModules => c.registries
    /\ c.store = "azure-table" => c.lockTtl > 4 * c.armTimeout
    /\ c.production =>
         /\ c.digest
         /\ c.clientId # Missing /\ c.deploymentClientId # Missing
         /\ c.clientId # c.deploymentClientId
         /\ c.store = "azure-table" /\ c.tableEndpoint
         /\ c.subscriptions # {} \/ c.managementGroups # {}

(* requireAllowedSubscription, assertResourceGroupAllowed: an empty list   *)
(* of subscriptions allows none, an empty list of groups allows all.       *)
requireAllowedSubscription(c, s) == s \in c.subscriptions
assertResourceGroupAllowed(c, g) == c.groups = {} \/ g \in c.groups

(* assertResourceIdInScope: for reading and for mutations, an empty list   *)
(* of subscriptions allows all.                                            *)
assertResourceIdInScope(c, s, g) ==
  (c.subscriptions = {} \/ s \in c.subscriptions) /\ assertResourceGroupAllowed(c, g)

(* Deviation: the groups of the allow-list do not close the subscription.  *)
resolveAnySubscription(c, input) ==
  CASE input.kind = "resourceGroup" ->
         requireAllowedSubscription(c, input.subscription)
         /\ input.group # Missing /\ assertResourceGroupAllowed(c, input.group)
    [] input.kind = "subscription" ->
         requireAllowedSubscription(c, input.subscription) /\ input.location # Missing
    [] input.kind = "managementGroup" ->
         input.group \in c.managementGroups /\ input.location # Missing
    [] input.kind = "tenant" -> c.tenantDeployments /\ input.location # Missing

(* resolveDeploymentScope accepts the input; PlaceOf is the scope's place. *)
resolveDeploymentScope(c, input) ==
  CASE input.kind = "resourceGroup" ->
         requireAllowedSubscription(c, input.subscription)
         /\ input.group # Missing /\ assertResourceGroupAllowed(c, input.group)
    [] input.kind = "subscription" ->
         requireAllowedSubscription(c, input.subscription)
         /\ c.groups = {} /\ input.location # Missing
    [] input.kind = "managementGroup" ->
         input.group \in c.managementGroups /\ input.location # Missing
    [] input.kind = "tenant" -> c.tenantDeployments /\ input.location # Missing

PlaceOf(input) ==
  CASE input.kind = "resourceGroup" -> ResourceGroup(input.subscription, input.group)
    [] input.kind = "subscription" -> Subscription(input.subscription)
    [] input.kind = "managementGroup" -> ManagementGroup(input.group)
    [] input.kind = "tenant" -> Tenant

Inputs ==
  [kind : {"resourceGroup", "subscription", "managementGroup", "tenant"},
   subscription : Subscriptions \cup {Missing},
   group : Groups \cup ManagementGroups \cup {Missing},
   location : {"region", Missing}]

(* The target of a nested deployment: the fields it has.                   *)
Targets ==
  [subscription : Subscriptions \cup {Missing}, group : Groups \cup {Missing},
   managementGroup : ManagementGroups \cup {Missing}]

assertCrossScopeTargetsAllowed(c, target) ==
  /\ target.subscription # Missing =>
       /\ requireAllowedSubscription(c, target.subscription)
       /\ c.groups # {} => target.group # Missing
  /\ target.group # Missing => assertResourceGroupAllowed(c, target.group)
  /\ target.managementGroup # Missing => target.managementGroup \in c.managementGroups

-----------------------------------------------------------------------------
(* permits: getEffectivePermissions returns the roles assigned at a scope  *)
(* or above it, and one of them has the action and does not exclude it.    *)
(* A pattern stands for the actions it matches (matchesAction).            *)
Above(place) ==
  {place, Tenant}
  \cup (IF place.kind \in {"subscription", "resourceGroup"}
        THEN {ManagementGroup(m) : m \in ManagementGroups} ELSE {})
  \cup (IF place.kind = "resourceGroup" THEN {Subscription(place.subscription)} ELSE {})

hasEffectivePermission(place, identity, action) ==
  \E role \in roles :
    /\ role.identity = identity /\ role.place \in Above(place)
    /\ action \in role.actions /\ action \notin role.notActions

hasEffectivePermissions(place, identity, actions) ==
  \A action \in actions : hasEffectivePermission(place, identity, action)

READ_ACTION == "read"
OPERATOR_ACTIONS == {"restart", "tag"}
DEPLOYMENT_REQUIRED_ACTIONS == {"write", "whatIf"}

(* operationScopes: the groups of the allow-list in each subscription, or  *)
(* the subscription as a whole.                                            *)
operationScopes(c, subscriptions) ==
  IF c.groups = {} THEN {Subscription(s) : s \in subscriptions}
  ELSE {ResourceGroup(s, g) : s \in subscriptions, g \in c.groups}

(* withCapabilities, of a subscription that listSubscriptions shows.       *)
visible(c) ==
  LET shown == {s \in Subscriptions : \E role \in roles :
                  role.identity = "operator" /\ \E p \in Places :
                    /\ role.place \in Above(p)
                    /\ p.kind \in {"subscription", "resourceGroup"} /\ p.subscription = s}
  IN IF c.subscriptions = {} THEN shown ELSE shown \cap c.subscriptions

readable(c, s) ==
  c.verifyRbac => \E p \in operationScopes(c, {s}) :
                    hasEffectivePermission(p, "operator", READ_ACTION)

deployable(c, s) ==
  /\ c.enabled /\ s \in c.subscriptions
  /\ c.verifyRbac => \E p \in operationScopes(c, {s}) :
       hasEffectivePermissions(p, "deployment", DEPLOYMENT_REQUIRED_ACTIONS)

-----------------------------------------------------------------------------
readProvider(c) ==
  LET readables == {s \in visible(c) : readable(c, s)} IN
  IF readables = {} THEN "notReady"
  ELSE IF c.verifyRbac /\ readables = visible(c) THEN "ready" ELSE "degraded"

mutationAuthorization(c) ==
  LET configured == IF c.subscriptions # {} THEN c.subscriptions
                    ELSE {s \in visible(c) : c.groups # {} \/ readable(c, s)}
  IN IF ~c.mutations THEN "ready"
     ELSE IF ~c.verifyRbac THEN "degraded"
     ELSE IF \E p \in operationScopes(c, configured) :
               hasEffectivePermissions(p, "operator", OPERATOR_ACTIONS)
     THEN "ready" ELSE "notReady"

(* Deviation: one action of the required ones is enough.                   *)
authorizationOfAny(c) ==
  IF ~c.enabled THEN "ready"
  ELSE IF \E p \in operationScopes(c, c.subscriptions) :
            \E action \in DEPLOYMENT_REQUIRED_ACTIONS :
              hasEffectivePermission(p, "deployment", action)
  THEN "ready" ELSE "notReady"

deploymentAuthorization(c) ==
  LET scopes == operationScopes(c, c.subscriptions)
                \cup {ManagementGroup(m) : m \in c.managementGroups}
                \cup (IF c.tenantDeployments THEN {Tenant} ELSE {})
  IN IF ~c.enabled THEN "ready"
     ELSE IF ~c.verifyRbac THEN "degraded"
     ELSE IF \E p \in scopes :
               hasEffectivePermissions(p, "deployment", DEPLOYMENT_REQUIRED_ACTIONS)
     THEN "ready" ELSE "notReady"

-----------------------------------------------------------------------------
ScopeInit ==
  /\ config \in {c \in Environments : assertDeploymentConfiguration(c)}
  /\ roles = {}

AssignRole ==
  /\ Cardinality(roles) < MaxRoles
  /\ \E role \in Roles : roles' = roles \cup {role}
  /\ UNCHANGED config

RemoveRole ==
  /\ \E role \in roles : roles' = roles \ {role}
  /\ UNCHANGED config

ScopeNext == AssignRole \/ RemoveRole

-----------------------------------------------------------------------------
(* The places that the configuration opens to deployments: the listed      *)
(* groups of the listed subscriptions, or if no group is listed all of     *)
(* each subscription; what is below a listed management group; and if      *)
(* tenant deployments are on, everything.                                  *)
Open(c, place) ==
  \/ c.tenantDeployments
  \/ \E m \in c.managementGroups : ManagementGroup(m) \in Above(place)
  \/ /\ place.kind \in {"subscription", "resourceGroup"}
     /\ place.subscription \in c.subscriptions
     /\ c.groups # {} => place.kind = "resourceGroup" /\ place.group \in c.groups

(* What a template can change that is deployed at a place, and what one of *)
(* its nested deployments can that names a target: a group without a       *)
(* subscription is one of the subscription it is deployed in.              *)
Reach(place) == {p \in Places : place \in Above(p)}

TargetPlaces(place, target) ==
  LET subscription == IF target.subscription # Missing THEN target.subscription
                      ELSE IF place.kind \in {"subscription", "resourceGroup"}
                      THEN place.subscription ELSE Missing
  IN (IF target.managementGroup = Missing THEN {} ELSE {ManagementGroup(target.managementGroup)})
     \cup (IF target.group = Missing \/ subscription = Missing THEN {}
           ELSE {ResourceGroup(subscription, target.group)})
     \cup (IF target.subscription = Missing \/ target.group # Missing THEN {}
           ELSE {Subscription(target.subscription)})

(* No accepted scope, and no accepted target of a nested deployment, lets  *)
(* a template change anything outside what the configuration opens         *)
(* (resolveDeploymentScope, assertCrossScopeTargetsAllowed).               *)
DeploysInsideBoundary ==
  LET c == config IN
  \A input \in Inputs : resolveDeploymentScope(c, input) =>
    LET place == PlaceOf(input) IN
    /\ \A p \in Reach(place) : Open(c, p)
    /\ \A target \in Targets : assertCrossScopeTargetsAllowed(c, target) =>
         \A at \in TargetPlaces(place, target) : \A p \in Reach(at) : Open(c, p)

(* Some deployment the guardrails accept is one the identity may make, at  *)
(* a place of the subscription if one is given.                            *)
CanDeploy(c, subscriptions) ==
  \E input \in Inputs :
    /\ resolveDeploymentScope(c, input)
    /\ \/ subscriptions = Subscriptions
       \/ input.kind \in {"subscription", "resourceGroup"} /\ input.subscription \in subscriptions
    /\ hasEffectivePermissions(PlaceOf(input), "deployment", DEPLOYMENT_REQUIRED_ACTIONS)

(* What the server says it can do, it can: with RBAC verified, deployments *)
(* that are ready can be made somewhere, a subscription listed as          *)
(* deployable can be deployed to, ready mutations have a place where the   *)
(* policy lets them act and the operator's roles do, and a ready provider  *)
(* can read something that the policy lets it show of each subscription    *)
(* (deploymentAuthorization, withCapabilities, mutationAuthorization,      *)
(* readProvider, against resolveDeploymentScope and                        *)
(* assertResourceIdInScope).                                               *)
ClaimsAreTrue ==
  LET c == config IN
  c.verifyRbac =>
    /\ c.enabled /\ deploymentAuthorization(c) = "ready" => CanDeploy(c, Subscriptions)
    /\ \A s \in visible(c) : deployable(c, s) => CanDeploy(c, {s})
    /\ c.mutations /\ mutationAuthorization(c) = "ready" =>
         \E s \in Subscriptions, g \in Groups :
           assertResourceIdInScope(c, s, g)
             /\ hasEffectivePermissions(ResourceGroup(s, g), "operator", OPERATOR_ACTIONS)
    /\ readProvider(c) = "ready" =>
         \A s \in visible(c) : \E g \in Groups :
           assertResourceIdInScope(c, s, g)
             /\ hasEffectivePermission(ResourceGroup(s, g), "operator", READ_ACTION)
=============================================================================
