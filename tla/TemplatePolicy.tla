--------------------------- MODULE TemplatePolicy ---------------------------
(***************************************************************************)
(* What the server accepts to deploy: the inspection of the compiled       *)
(* template (src/bicep/inspect.ts), beside that of its source.  The only   *)
(* step is to be given one or the other.                                   *)
(***************************************************************************)
EXTENDS BundlePolicy

CONSTANTS
  Templates,      (* the templates that are examined                       *)
  DeniedTypes,    (* ALWAYS_DENIED and the operator's denied types         *)
  MaxResources,   (* inspection limits                                     *)
  MaxNested,
  MaxDepth

(* A template's resources in the order in which the walk meets them, each  *)
(* with its place: beside the others ("top"), or within an earlier one (its*)
(* parent), among its resources or in its template ("nested").  A resource *)
(* has its type, a sequence of segments; the target it names for  *)
(* itself (none, a literal place, or "computed"); perhaps a scope of its   *)
(* own, or a property that names external content; and, if a deployment,   *)
(* its mode and whether it is only linked to the template that it deploys. *)
Resource ==
  [type : Path, parent : Nat, within : {"top", "resources", "nested"},
   target : STRING, scope : BOOLEAN, external : BOOLEAN,
   linked : BOOLEAN, mode : STRING]

Schemas == {"subscription", "managementGroup", "tenant", "resourceGroup", "none"}

ASSUME LimitAssumption == MaxResources \in Nat /\ MaxNested \in Nat /\ MaxDepth \in Nat

ASSUME TemplateAssumption ==
  \A t \in Templates :
    /\ t.schema \in Schemas
    /\ t.resources \in Seq(Resource)
    /\ \A i \in DOMAIN t.resources : LET r == t.resources[i] IN
         /\ r.type # None
         /\ r.within = "top" <=> r.parent = 0
         /\ r.parent < i

-----------------------------------------------------------------------------
Deployment == <<"Microsoft.Resources", "deployments">>
IsQualified(type) == Head(type) \in {"Microsoft.Resources", "Microsoft.Compute", "Microsoft.Authorization"}

(* scopeFromSchema: the first entry whose needle the schema contains.      *)
(* Every schema contains the needle of the last entry, or none at all.     *)
SCHEMA_SCOPES == <<"subscription", "managementGroup", "tenant", "resourceGroup">>
scopeFromSchema(schema) ==
  IF schema = "none" THEN "refused"
  ELSE SCHEMA_SCOPES[Min({i \in 1..4 : SCHEMA_SCOPES[i] \in {schema, "resourceGroup"}})]

(* assertNoExternalReferences, and the depth of the JSON text: a resource  *)
(* of the template is at depth 2 and its fields one deeper, a resource of  *)
(* a resource is two and one of a nested template four levels further down.*)
assertNoExternalReferences(resources) ==
  LET depth[i \in DOMAIN resources] ==
        CASE resources[i].within = "top"       -> 2
          [] resources[i].within = "resources" -> depth[resources[i].parent] + 2
          [] resources[i].within = "nested"    -> depth[resources[i].parent] + 4
  IN \A i \in DOMAIN resources : depth[i] + 1 <= MaxDepth /\ ~resources[i].external

(* Deviation: the type of a resource within a resource is taken as it is   *)
(* written.                                                                *)
writtenType(type, parent) == type

qualifiedType(type, parent) ==
  IF parent # None /\ ~IsQualified(type) THEN parent \o type ELSE type

(* The type with which the walk reaches a resource, given those of the     *)
(* resources before it.  It reaches the resources of a resource, and what  *)
(* a deployment nests; it passes over (None) what stands in the properties *)
(* of anything else.                                                       *)
typeReached(resources, known, i) ==
  LET r == resources[i] IN
  CASE r.within = "top"       -> qualifiedType(r.type, None)
    [] r.within = "resources" -> IF known[r.parent] = None THEN None
                                 ELSE qualifiedType(r.type, known[r.parent])
    [] r.within = "nested"    -> IF known[r.parent] = Deployment
                                 THEN qualifiedType(r.type, None) ELSE None

(* One resource of walkResources: it is counted, and checked.  The limit   *)
(* of depth of the walk itself never bites: the text is deeper than the    *)
(* resources.                                                              *)
visit(resources, state, i) ==
  LET r == resources[i]
      type == typeReached(resources, state.known, i)
      nests == type = Deployment
  IN IF type = None THEN state
     ELSE [known |-> [state.known EXCEPT ![i] = type],
           resourceCount |-> state.resourceCount + 1,
           nestedDeployments |-> IF nests THEN state.nestedDeployments + 1
                                 ELSE state.nestedDeployments,
           types |-> state.types \cup {type},
           crossScope |-> state.crossScope \cup ({r.target} \ {"none"}),
           ok |-> /\ state.ok
                  /\ state.resourceCount < MaxResources
                  /\ type \notin DeniedTypes
                  /\ r.target # "computed" /\ ~r.scope
                  /\ nests => /\ state.nestedDeployments < MaxNested
                             /\ ~r.linked /\ r.mode # "Complete"]

(* walkResources: depth first, which is the order of the resources, with   *)
(* the running totals in the state.                                        *)
walkResources(resources) ==
  FoldLeftDomain(LAMBDA state, i : visit(resources, state, i),
                 [known |-> [i \in DOMAIN resources |-> None], resourceCount |-> 0,
                  nestedDeployments |-> 0, types |-> {}, crossScope |-> {}, ok |-> TRUE],
                 resources)

inspectTemplate(t) ==
  LET state == walkResources(t.resources)
      scope == scopeFromSchema(t.schema)
  IN [ok |-> state.ok /\ assertNoExternalReferences(t.resources) /\ scope # "refused",
      state |-> state, templateScope |-> scope]

-----------------------------------------------------------------------------
ExamineTemplate ==
  /\ SourceIs("nothing")
  /\ source' \in [template : Templates]

Examine == ExamineBundle \/ ExamineTemplate

-----------------------------------------------------------------------------
(* What ARM makes of a template, level by level: the resources beside one  *)
(* another, each with the type by which ARM knows it, then those within    *)
(* them and those that their nested templates deploy, and so on.           *)
Entries(resources, within, parent, type) ==
  {[at |-> i, type |-> IF type # None /\ ~IsQualified(resources[i].type)
                       THEN type \o resources[i].type ELSE resources[i].type] :
     i \in {j \in DOMAIN resources : resources[j].within = within /\ resources[j].parent = parent}}

Below(resources, entry) ==
  Entries(resources, "resources", entry.at, entry.type) \cup
  IF entry.type = Deployment THEN Entries(resources, "nested", entry.at, None) ELSE {}

AllResources(resources) ==
  LET level[n \in 0..Len(resources)] ==
        IF n = 0 THEN Entries(resources, "top", 0, None)
        ELSE UNION {Below(resources, entry) : entry \in level[n - 1]}
  IN UNION {level[n] : n \in 0..Len(resources)}

(* What an accepted template has been seen to be: the counts, the types    *)
(* and the scope are the template's; no resource of it, at any depth and   *)
(* however its type is written, is of a denied type, targets a place that  *)
(* the guardrails do not get to see, names external content or, deployed,  *)
(* deletes what is absent.                                                 *)
Inspected(t) ==
  LET inspection == inspectTemplate(t)
      state == inspection.state
      all == AllResources(t.resources)
      deployments == {entry \in all : entry.type = Deployment}
      is(entry) == t.resources[entry.at]
  IN inspection.ok =>
       /\ state.resourceCount = Cardinality(all)
       /\ state.nestedDeployments = Cardinality(deployments)
       /\ state.types = {entry.type : entry \in all}
       /\ state.crossScope = {is(entry).target : entry \in all} \ {"none"}
       /\ inspection.templateScope = t.schema
       /\ Cardinality(all) <= MaxResources
       /\ \A entry \in all :
            /\ entry.type \notin DeniedTypes
            /\ is(entry).target # "computed" /\ ~is(entry).scope /\ ~is(entry).external
       /\ \A entry \in deployments : ~is(entry).linked /\ is(entry).mode # "Complete"

(* What was accepted has been inspected, all of it: nothing that ARM will  *)
(* make of an accepted template has escaped the walk that counts and       *)
(* checks its resources (inspectTemplate, walkResources).                  *)
InspectionIsComplete ==
  SourceIs("template") => Inspected(source.template)
=============================================================================
