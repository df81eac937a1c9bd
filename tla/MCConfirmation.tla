--------------------------- MODULE MCConfirmation ---------------------------
(***************************************************************************)
(* Instances of Confirmation for TLC.                                      *)
(***************************************************************************)
EXTENDS Confirmation, TLC

CONSTANTS p1, p2

Request(principal, secret, scope) ==
  [principal |-> principal, source |-> "main", scope |-> scope,
   params |-> [plain |-> "v", secret |-> secret]]

(* Two callers with the same plan; a rollback may change the secret.       *)
SomeRequests == {Request(p1, "s1", "here"), Request(p2, "s1", "here")}
OneRequest == {Request(p1, "s1", "here")}

(* The source deploys from a scope called "here" to "there".  The policy   *)
(* narrows while the compiler stays, or is upgraded, or moves elsewhere.   *)
Nested == [main |-> {"there"}]
Roomy == [allowed |-> {"here", "there"}, cli |-> "old"]
Narrow == [allowed |-> {"here"}, cli |-> "old"]
Upgraded == [Narrow EXCEPT !.cli = "new"]
Elsewhere == [allowed |-> {"there"}, cli |-> "old"]
PolicyNarrows == {Roomy, Narrow}
PolicyAndCompilerChange == {Roomy, Upgraded, Elsewhere}
OneConfiguration == {Roomy}

OneId == {<<1>>}

InOrder == {<<1, 2, 3>>}

MixedOrder == {<<2, 3, 1>>}

(* Sound: the callers send the same, and no definition names one.          *)
Symmetric == Permutations(Calls) \cup Permutations({p1, p2})
=============================================================================
