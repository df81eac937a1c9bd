---------------------------- MODULE BicepCompiler ----------------------------
(***************************************************************************)
(* Compilation of a bundle (src/bicep/compiler.ts, src/bicep/process.ts,   *)
(* src/bicep/materialize.ts): the memoised verification of the CLI, the    *)
(* bounded queue, the temporary directory and what becomes of the output.  *)
(***************************************************************************)
EXTENDS Naturals, FiniteSets

CONSTANTS
  Compiles,        (* calls of compile that may be in flight at once       *)
  MaxConcurrency,  (* builds that run at once                              *)
  MaxWaiting       (* calls that may wait for them (4 * MaxConcurrency)    *)

ASSUME CompilerAssumption ==
  /\ MaxConcurrency \in Nat \ {0}
  /\ MaxWaiting \in Nat

VARIABLES
  verification,  (* the memoised promise of describe                       *)
  compile,       (* where each call is, and what its build has given       *)
  cancelled,     (* calls whose caller has gone                            *)
  slots,         (* calls that hold a place among the running builds       *)
  files          (* what each call has in its temporary directory          *)

compilerVars == <<verification, compile, cancelled, slots, files>>

Verified == {"available", "unavailable", "rejected"}
Output   == {"none", "template", "diagnostics", "error"}
Written  == {"none", "partial", "whole"}

Go(c, place) == compile' = [compile EXCEPT ![c] = [@ EXCEPT !.at = place]]
Finish(c, place, output) == compile' = [compile EXCEPT ![c] = [at |-> place, output |-> output]]

-----------------------------------------------------------------------------
(* The bundle's source is policy-checked first (TemplatePolicy).           *)
BeginCompile(c) ==
  /\ compile[c].at = "idle"
  /\ Finish(c, "describe", "none")
  /\ UNCHANGED <<verification, cancelled, slots, files>>

CompileCancelled(c) ==
  /\ compile[c].at \in {"describe", "queue", "materialize", "build"}
  /\ cancelled' = cancelled \cup {c}
  /\ UNCHANGED <<verification, compile, slots, files>>

(* BoundedQueue.run admits a call while there is room to run or to wait.   *)
HasRoom ==
  \/ Cardinality(slots) < MaxConcurrency
  \/ Cardinality({c \in Compiles : compile[c].at = "queue"}) < MaxWaiting

(* describe, and the way into the queue: the first call starts the         *)
(* verification, and every call waits for that one, or until it is         *)
(* cancelled itself.                                                       *)
describe(c) ==
  /\ compile[c].at = "describe"
  /\ IF verification = "none"
     THEN verification' = "pending" /\ UNCHANGED compile
     ELSE /\ UNCHANGED verification
          /\ \/ verification = "available" /\ HasRoom /\ Go(c, "queue")
             \/ verification = "available" /\ ~HasRoom /\ Finish(c, "returned", "error")
             \/ verification \in {"unavailable", "rejected"} /\ Finish(c, "returned", "error")
             \/ c \in cancelled /\ Finish(c, "returned", "error")
  /\ UNCHANGED <<cancelled, slots, files>>

(* verify: missing, not executable, of another digest or failing to report *)
(* its version is unavailable; a digest that cannot be read, a probe       *)
(* directory that cannot be made or a process that cannot be run rejects.  *)
(* Either way the outcome is the promise's for good.                       *)
verify ==
  /\ verification = "pending"
  /\ verification' \in Verified
  /\ UNCHANGED <<compile, cancelled, slots, files>>

(* Deviation: the queue does not count the builds that run.                *)
StartBuildAnyway(c) ==
  /\ compile[c].at = "queue"
  /\ slots' = slots \cup {c}
  /\ Go(c, "materialize")
  /\ UNCHANGED <<verification, cancelled, files>>

(* BoundedQueue.run: a place is free.                                      *)
StartBuild(c) ==
  /\ compile[c].at = "queue"
  /\ Cardinality(slots) < MaxConcurrency
  /\ slots' = slots \cup {c}
  /\ Go(c, "materialize")
  /\ UNCHANGED <<verification, cancelled, files>>

(* The caller goes while it waits for its turn.                            *)
LeaveQueue(c) ==
  /\ compile[c].at = "queue"
  /\ c \in cancelled
  /\ Finish(c, "returned", "error")
  /\ UNCHANGED <<verification, cancelled, slots, files>>

-----------------------------------------------------------------------------
(* Deviation: what was written before a write failed is left there.        *)
MaterializeAndLeave(c) ==
  /\ compile[c].at = "materialize"
  /\ \/ /\ files[c] = "none"
        /\ files' = [files EXCEPT ![c] = "partial"]
        /\ UNCHANGED compile
     \/ /\ files[c] = "partial"
        /\ files' = [files EXCEPT ![c] = "whole"]
        /\ Go(c, "build")
     \/ /\ files[c] # "whole"
        /\ Finish(c, "release", "error")
        /\ UNCHANGED files
  /\ UNCHANGED <<verification, cancelled, slots>>

(* materializeBundle: a fresh directory, then file after file.  Once it    *)
(* exists, whatever fails goes through the clean-up.                       *)
Materialize(c) ==
  /\ compile[c].at = "materialize"
  /\ \/ /\ files[c] = "none"
        /\ files' = [files EXCEPT ![c] = "partial"]
        /\ UNCHANGED compile
     \/ /\ files[c] = "partial"
        /\ files' = [files EXCEPT ![c] = "whole"]
        /\ Go(c, "build")
     \/ /\ files[c] = "none"
        /\ Finish(c, "release", "error")
        /\ UNCHANGED files
     \/ /\ files[c] = "partial"
        /\ Finish(c, "clean", "error")
        /\ UNCHANGED files
  /\ UNCHANGED <<verification, cancelled, slots>>

(* What becomes of the process: it ends by itself or is stopped, its exit  *)
(* code is zero, a diagnostic is an error, output is cut off, and its      *)
(* standard output is a JSON object or something else.                     *)
Processes ==
  [stopped : {"no", "timeout", "caller"}, zero : BOOLEAN, errors : BOOLEAN, cut : BOOLEAN,
   stdout : {"object", "other"}]

(* Deviation: a process that its caller has stopped is reported as any     *)
(* that has ended.                                                         *)
reportTimeout(process) ==
  [timedOut |-> process.stopped = "timeout", succeeded |-> process.zero,
   errors |-> process.errors, truncated |-> process.cut, stdout |-> process.stdout]

(* PlatformProcessRunner.run: it reports a process that has taken too long *)
(* and one whose caller has gone alike.                                    *)
report(process) ==
  [timedOut |-> process.stopped \in {"timeout", "caller"}, succeeded |-> process.zero,
   errors |-> process.errors, truncated |-> process.cut, stdout |-> process.stdout]

(* runBuild, once the process has ended: a template only from a build that *)
(* was neither stopped nor cut off nor found fault with.                   *)
outcome(result) ==
  IF result.timedOut THEN "error"
  ELSE IF ~result.succeeded \/ result.errors THEN "diagnostics"
  ELSE IF result.truncated \/ result.stdout # "object" THEN "error"
  ELSE "template"

(* A process with which nothing is wrong.                                  *)
Faultless ==
  [stopped |-> "no", zero |-> TRUE, errors |-> FALSE, cut |-> FALSE, stdout |-> "object"]

(* The CLI runs in the directory until it ends, or is stopped because of   *)
(* its time limit or because the caller has gone; what it has printed by   *)
(* then may be anything.  A process that cannot be run rejects.            *)
RunBuild(c) ==
  /\ compile[c].at = "build"
  /\ \/ \E process \in Processes :
          /\ c \in cancelled => process.stopped # "no"
          /\ process.stopped = "caller" => c \in cancelled
          /\ compile' = [compile EXCEPT ![c] =
               [at |-> "clean", output |-> outcome(report(process)),
                faultless |-> process = Faultless]]
     \/ Finish(c, "clean", "error")
  /\ UNCHANGED <<verification, cancelled, slots, files>>

(* cleanupBundle: best effort; a directory that resists is forgotten and   *)
(* left to the reaping of the temporary directory.                         *)
Cleanup(c) ==
  /\ compile[c].at = "clean"
  /\ files' = [files EXCEPT ![c] = "none"]
  /\ Finish(c, "release", compile[c].output)
  /\ UNCHANGED <<verification, cancelled, slots>>

(* Deviation: a build that failed keeps its place in the queue.            *)
ReleaseOnSuccess(c) ==
  /\ compile[c].at = "release"
  /\ slots' = IF compile[c].output = "error" THEN slots ELSE slots \ {c}
  /\ Go(c, "returned")
  /\ UNCHANGED <<verification, cancelled, files>>

(* The queue runs the next call, whatever became of this one.              *)
ReleaseSlot(c) ==
  /\ compile[c].at = "release"
  /\ slots' = slots \ {c}
  /\ Go(c, "returned")
  /\ UNCHANGED <<verification, cancelled, files>>

EndCompile(c) ==
  /\ compile[c].at = "returned"
  /\ Finish(c, "idle", "none")
  /\ cancelled' = cancelled \ {c}
  /\ UNCHANGED <<verification, slots, files>>

-----------------------------------------------------------------------------
CompilerInit ==
  /\ verification = "none"
  /\ compile = [c \in Compiles |-> [at |-> "idle", output |-> "none"]]
  /\ cancelled = {}
  /\ slots = {}
  /\ files = [c \in Compiles |-> "none"]

CompileStep(c) ==
  \/ describe(c) \/ StartBuild(c) \/ LeaveQueue(c)
  \/ Materialize(c) \/ RunBuild(c) \/ Cleanup(c) \/ ReleaseSlot(c)

CompilerNext ==
  \/ \E c \in Compiles :
       BeginCompile(c) \/ CompileCancelled(c) \/ CompileStep(c) \/ EndCompile(c)
  \/ verify

CompilerSpec == CompilerInit /\ [][CompilerNext]_compilerVars

(* The file system answers and the CLI has a time limit; a place in the    *)
(* queue is given in turn.                                                 *)
CompilerFairness ==
  /\ WF_compilerVars(verify)
  /\ \A c \in Compiles : WF_compilerVars(CompileStep(c)) /\ SF_compilerVars(StartBuild(c))

-----------------------------------------------------------------------------
CompilerTypeOK ==
  /\ verification \in {"none", "pending"} \cup Verified
  /\ \A c \in Compiles :
       /\ compile[c].at \in {"idle", "describe", "queue", "materialize", "build",
                             "clean", "release", "returned"}
       /\ compile[c].output \in Output
  /\ cancelled \subseteq Compiles
  /\ slots \subseteq Compiles
  /\ Cardinality(slots) <= MaxConcurrency
  /\ files \in [Compiles -> Written]

(* A call that returns holds no place in the queue, and its directory has  *)
(* been removed or its removal has been tried, whichever write, build or   *)
(* cancellation came first (materializeBundle, withMaterializedBundle).    *)
NothingLeftBehind ==
  \A c \in Compiles :
    compile[c].at \in {"idle", "returned"} =>
      c \notin slots /\ files[c] = "none"

(* A template comes from a CLI that the verification found available, run  *)
(* on all of the bundle's files for a caller who was there until the end:  *)
(* it ended by itself with exit code zero and no diagnostic that is an     *)
(* error, and what it printed is an object in full (materializeBundle,     *)
(* PlatformProcessRunner.run, runBuild).                                   *)
TemplateIsWhole ==
  \A c \in Compiles :
    compile[c].output = "template" =>
      /\ verification = "available"
      /\ compile[c].at = "clean" =>
           /\ files[c] = "whole"
           /\ c \notin cancelled
           /\ compile[c].faultless

(* A compilation returns: no failed build, cancelled wait or full queue    *)
(* takes a place away from the others for good.                            *)
CompilesReturn ==
  \A c \in Compiles : compile[c].at = "describe" ~> compile[c].at = "returned"
=============================================================================
