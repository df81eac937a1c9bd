---------------------------- MODULE Bicep_proofs ----------------------------
(***************************************************************************)
(* Theorems about BicepCompiler, for every number of calls and every size  *)
(* of the queue, about BundlePolicy, for every bundle, and about           *)
(* TemplatePolicy, for every template.                                     *)
(***************************************************************************)
EXTENDS BicepCompiler, TemplatePolicy, FiniteSetTheorems, WellFoundedInduction, TLAPS

-----------------------------------------------------------------------------
(* The compiler.                                                           *)

Building == {"materialize", "build", "clean", "release"}
Outside  == {"idle", "describe", "queue", "returned"}

Compilation ==
  [at : Building \cup Outside, output : Output]
  \cup [at : {"clean"}, output : Output, faultless : BOOLEAN]

(* What is known of a call at each of its places: it holds a slot exactly  *)
(* while it builds, has files only between its first write and the         *)
(* clean-up, and gets past the queue only with a verified CLI.             *)
CompileInv(c) ==
  /\ c \in slots <=> compile[c].at \in Building
  /\ compile[c].at \in Outside \cup {"release"} => files[c] = "none"
  /\ compile[c].at = "build" => files[c] = "whole"
  /\ compile[c].at \in {"queue"} \cup Building => verification = "available"
  /\ compile[c].at \notin {"clean", "release", "returned"} => compile[c].output = "none"
  /\ compile[c].output = "template" =>
       /\ verification = "available"
       /\ compile[c].at = "clean" =>
            files[c] = "whole" /\ c \notin cancelled /\ compile[c].faultless

CompilerTyped ==
  /\ verification \in {"none", "pending"} \cup Verified
  /\ compile \in [Compiles -> Compilation]
  /\ cancelled \subseteq Compiles
  /\ slots \subseteq Compiles
  /\ IsFiniteSet(slots) /\ Cardinality(slots) <= MaxConcurrency
  /\ files \in [Compiles -> Written]

CompilerInv == CompilerTyped /\ \A c \in Compiles : CompileInv(c)

LEMMA CompilerInitially == CompilerInit => CompilerInv
<1>1. SUFFICES ASSUME CompilerInit PROVE CompilerInv
  OBVIOUS
<1>2. IsFiniteSet(slots) /\ Cardinality(slots) <= MaxConcurrency
  BY <1>1, FS_EmptySet, CompilerAssumption DEF CompilerInit
<1>3. CompilerTyped
  BY <1>1, <1>2 DEF CompilerInit, CompilerTyped, Compilation, Outside, Output, Written
<1>. QED
  BY <1>1, <1>3 DEF CompilerInit, CompilerInv, CompileInv, Building, Outside

(* What becomes of a process that has ended.                               *)
LEMMA FaultlessOnly ==
  ASSUME NEW process \in Processes
  PROVE  /\ outcome(report(process)) \in {"error", "diagnostics", "template"}
         /\ outcome(report(process)) = "template" => process = Faultless
  BY DEF Processes, report, outcome, Faultless

(* The fields of a call that moves on, and of one that is given an output. *)
LEMMA Moved ==
  ASSUME NEW d \in Compilation, NEW place \in (Building \cup Outside) \ {"clean"}
  PROVE  d.at # "clean" =>
           /\ [d EXCEPT !.at = place] \in Compilation
           /\ [d EXCEPT !.at = place].at = place
           /\ [d EXCEPT !.at = place].output = d.output
  BY DEF Compilation, Building, Outside

(* A call's step leaves the other calls as they are.                       *)
LEMMA OneCompileMoves ==
  ASSUME CompilerInv, NEW c \in Compiles,
         NEW next \in Compilation, NEW written \in Written,
         compile' = [compile EXCEPT ![c] = next],
         files' = [files EXCEPT ![c] = written],
         UNCHANGED verification, cancelled' \subseteq cancelled \cup {c},
         \/ slots' = slots
         \/ slots' = slots \ {c}
         \/ slots' = slots \cup {c} /\ c \notin slots /\ Cardinality(slots) < MaxConcurrency,
         CompileInv(c)'
  PROVE  CompilerInv'
<1>. USE DEF CompilerInv, CompilerTyped
<1>1. IsFiniteSet(slots') /\ Cardinality(slots') <= MaxConcurrency
  <2>1. CASE slots' = slots
    BY <2>1
  <2>2. CASE slots' = slots \ {c}
    <3>1. Cardinality(slots') <= Cardinality(slots) /\ IsFiniteSet(slots')
      BY <2>2, FS_Subset
    <3>2. Cardinality(slots') \in Nat /\ Cardinality(slots) \in Nat /\ MaxConcurrency \in Nat
      BY <3>1, FS_CardinalityType, CompilerAssumption
    <3>. QED
      BY <3>1, <3>2
  <2>3. CASE slots' = slots \cup {c} /\ c \notin slots /\ Cardinality(slots) < MaxConcurrency
    <3>1. Cardinality(slots') = Cardinality(slots) + 1 /\ IsFiniteSet(slots')
      BY <2>3, FS_AddElement
    <3>2. Cardinality(slots) \in Nat /\ MaxConcurrency \in Nat
      BY FS_CardinalityType, CompilerAssumption
    <3>. QED
      BY <2>3, <3>1, <3>2
  <2>. QED
    BY <2>1, <2>2, <2>3
<1>2. CompilerTyped'
  BY <1>1
<1>3. ASSUME NEW other \in Compiles \ {c} PROVE CompileInv(other)'
  <2>1. /\ compile'[other] = compile[other]
        /\ files'[other] = files[other]
        /\ other \in slots' <=> other \in slots
    OBVIOUS
  <2>. QED
    BY <2>1 DEF CompileInv
<1>. QED
  BY <1>2, <1>3

LEMMA CompilerPreserved == CompilerInv /\ [CompilerNext]_compilerVars => CompilerInv'
<1>1. SUFFICES ASSUME CompilerInv, [CompilerNext]_compilerVars PROVE CompilerInv'
  OBVIOUS
<1>2. CASE UNCHANGED compilerVars
  BY <1>1, <1>2 DEF CompilerInv, CompilerTyped, CompileInv, compilerVars
<1>3. CASE verify
  BY <1>1, <1>3 DEF verify, CompilerInv, CompilerTyped, CompileInv
<1>4. ASSUME NEW c \in Compiles,
             BeginCompile(c) \/ CompileCancelled(c) \/ CompileStep(c) \/ EndCompile(c)
      PROVE  CompilerInv'
  <2>1. /\ compile[c] \in Compilation /\ files[c] \in Written
        /\ CompileInv(c) /\ CompilerTyped
        /\ compile = [compile EXCEPT ![c] = compile[c]]
        /\ files = [files EXCEPT ![c] = files[c]]
    BY <1>1 DEF CompilerInv, CompilerTyped
  <2>2. /\ compile[c].at \in Building \cup Outside
        /\ compile[c].output \in Output
    BY <2>1 DEF Compilation, Building, Outside
  <2>3. \A place \in Building \cup Outside, output \in Output :
          [at |-> place, output |-> output] \in Compilation
    BY DEF Compilation
  <2>. USE DEF Go, Finish
  <2>4. CASE BeginCompile(c)
    <3>1. [at |-> "describe", output |-> "none"] \in Compilation /\ files[c] \in Written
      BY <2>1, <2>2, <2>3, <2>4, Moved DEF BeginCompile, Building, Outside, Output, Written
    <3>2. /\ compile' = [compile EXCEPT ![c] = [at |-> "describe", output |-> "none"]]
          /\ files' = [files EXCEPT ![c] = files[c]]
      BY <2>1, <2>4 DEF BeginCompile
    <3>3. /\ UNCHANGED verification /\ cancelled' \subseteq cancelled \cup {c}
          /\ \/ slots' = slots
             \/ slots' = slots \ {c}
             \/ slots' = slots \cup {c} /\ c \notin slots /\ Cardinality(slots) < MaxConcurrency
      BY <2>1, <2>4 DEF BeginCompile, CompileInv, CompilerTyped, Building
    <3>4. compile'[c] = [at |-> "describe", output |-> "none"] /\ files'[c] = files[c]
      BY <2>1, <3>2 DEF CompilerTyped
    <3>5. CompileInv(c)'
      BY <2>1, <2>2, <2>4, <3>3, <3>4, Moved DEF BeginCompile, CompileInv, Building, Outside
    <3>. QED
      BY <1>1, <3>1, <3>2, <3>3, <3>5, OneCompileMoves
  <2>5. CASE CompileCancelled(c)
    <3>1. compile[c] \in Compilation /\ files[c] \in Written
      BY <2>1, <2>2, <2>3, <2>5, Moved DEF CompileCancelled, Building, Outside, Output, Written
    <3>2. /\ compile' = [compile EXCEPT ![c] = compile[c]]
          /\ files' = [files EXCEPT ![c] = files[c]]
      BY <2>1, <2>5 DEF CompileCancelled
    <3>3. /\ UNCHANGED verification /\ cancelled' \subseteq cancelled \cup {c}
          /\ \/ slots' = slots
             \/ slots' = slots \ {c}
             \/ slots' = slots \cup {c} /\ c \notin slots /\ Cardinality(slots) < MaxConcurrency
      BY <2>1, <2>5 DEF CompileCancelled, CompileInv, CompilerTyped, Building
    <3>4. compile'[c] = compile[c] /\ files'[c] = files[c]
      BY <2>1, <3>2 DEF CompilerTyped
    <3>5. CompileInv(c)'
      BY <2>1, <2>2, <2>5, <3>3, <3>4, Moved DEF CompileCancelled, CompileInv, Building, Outside
    <3>. QED
      BY <1>1, <3>1, <3>2, <3>3, <3>5, OneCompileMoves
  <2>6. CASE describe(c)
    <3>1. CASE verification = "none"
      BY <1>1, <3>1, <2>6 DEF describe, CompilerInv, CompilerTyped, CompileInv
    <3>2. CASE verification = "available" /\ Go(c, "queue") /\ verification' = verification
      <4>1. [compile[c] EXCEPT !.at = "queue"] \in Compilation /\ files[c] \in Written
        BY <2>1, <2>2, <2>3, <2>6, <3>2, Moved DEF describe, Building, Outside, Output, Written
      <4>2. /\ compile' = [compile EXCEPT ![c] = [compile[c] EXCEPT !.at = "queue"]]
            /\ files' = [files EXCEPT ![c] = files[c]]
        BY <2>1, <2>6, <3>2 DEF describe
      <4>3. /\ UNCHANGED verification /\ cancelled' \subseteq cancelled \cup {c}
            /\ \/ slots' = slots
               \/ slots' = slots \ {c}
               \/ slots' = slots \cup {c} /\ c \notin slots /\ Cardinality(slots) < MaxConcurrency
        BY <2>1, <2>6, <3>2 DEF describe, CompileInv, CompilerTyped, Building
      <4>4. compile'[c] = [compile[c] EXCEPT !.at = "queue"] /\ files'[c] = files[c]
        BY <2>1, <4>2 DEF CompilerTyped
      <4>5. CompileInv(c)'
        BY <2>1, <2>2, <2>6, <3>2, <4>3, <4>4, Moved DEF describe, CompileInv, Building, Outside
      <4>. QED
        BY <1>1, <4>1, <4>2, <4>3, <4>5, OneCompileMoves
    <3>3. CASE Finish(c, "returned", "error") /\ verification' = verification
      <4>1. [at |-> "returned", output |-> "error"] \in Compilation /\ files[c] \in Written
        BY <2>1, <2>2, <2>3, <2>6, <3>3, Moved DEF describe, Building, Outside, Output, Written
      <4>2. /\ compile' = [compile EXCEPT ![c] = [at |-> "returned", output |-> "error"]]
            /\ files' = [files EXCEPT ![c] = files[c]]
        BY <2>1, <2>6, <3>3 DEF describe
      <4>3. /\ UNCHANGED verification /\ cancelled' \subseteq cancelled \cup {c}
            /\ \/ slots' = slots
               \/ slots' = slots \ {c}
               \/ slots' = slots \cup {c} /\ c \notin slots /\ Cardinality(slots) < MaxConcurrency
        BY <2>1, <2>6, <3>3 DEF describe, CompileInv, CompilerTyped, Building
      <4>4. compile'[c] = [at |-> "returned", output |-> "error"] /\ files'[c] = files[c]
        BY <2>1, <4>2 DEF CompilerTyped
      <4>5. CompileInv(c)'
        BY <2>1, <2>2, <2>6, <3>3, <4>3, <4>4, Moved DEF describe, CompileInv, Building, Outside
      <4>. QED
        BY <1>1, <4>1, <4>2, <4>3, <4>5, OneCompileMoves
    <3>. QED
      BY <2>6, <3>1, <3>2, <3>3 DEF describe
  <2>7. CASE StartBuild(c)
    <3>1. [compile[c] EXCEPT !.at = "materialize"] \in Compilation /\ files[c] \in Written
      BY <2>1, <2>2, <2>3, <2>7, Moved DEF StartBuild, Building, Outside, Output, Written
    <3>2. /\ compile' = [compile EXCEPT ![c] = [compile[c] EXCEPT !.at = "materialize"]]
          /\ files' = [files EXCEPT ![c] = files[c]]
      BY <2>1, <2>7 DEF StartBuild
    <3>3. /\ UNCHANGED verification /\ cancelled' \subseteq cancelled \cup {c}
          /\ \/ slots' = slots
             \/ slots' = slots \ {c}
             \/ slots' = slots \cup {c} /\ c \notin slots /\ Cardinality(slots) < MaxConcurrency
      BY <2>1, <2>7 DEF StartBuild, CompileInv, CompilerTyped, Building
    <3>4. compile'[c] = [compile[c] EXCEPT !.at = "materialize"] /\ files'[c] = files[c]
      BY <2>1, <3>2 DEF CompilerTyped
    <3>5. CompileInv(c)'
      <4>1. /\ compile[c].at = "queue" /\ c \in slots'
            /\ compile'[c].at = "materialize" /\ compile'[c].output = compile[c].output
        BY <2>1, <2>7, <3>4, Moved DEF StartBuild, Building, Outside
      <4>. QED
        BY <2>1, <3>3, <3>4, <4>1 DEF CompileInv, Building, Outside
    <3>. QED
      BY <1>1, <3>1, <3>2, <3>3, <3>5, OneCompileMoves
  <2>8. CASE LeaveQueue(c)
    <3>1. [at |-> "returned", output |-> "error"] \in Compilation /\ files[c] \in Written
      BY <2>1, <2>2, <2>3, <2>8, Moved DEF LeaveQueue, Building, Outside, Output, Written
    <3>2. /\ compile' = [compile EXCEPT ![c] = [at |-> "returned", output |-> "error"]]
          /\ files' = [files EXCEPT ![c] = files[c]]
      BY <2>1, <2>8 DEF LeaveQueue
    <3>3. /\ UNCHANGED verification /\ cancelled' \subseteq cancelled \cup {c}
          /\ \/ slots' = slots
             \/ slots' = slots \ {c}
             \/ slots' = slots \cup {c} /\ c \notin slots /\ Cardinality(slots) < MaxConcurrency
      BY <2>1, <2>8 DEF LeaveQueue, CompileInv, CompilerTyped, Building
    <3>4. compile'[c] = [at |-> "returned", output |-> "error"] /\ files'[c] = files[c]
      BY <2>1, <3>2 DEF CompilerTyped
    <3>5. CompileInv(c)'
      BY <2>1, <2>2, <2>8, <3>3, <3>4, Moved DEF LeaveQueue, CompileInv, Building, Outside
    <3>. QED
      BY <1>1, <3>1, <3>2, <3>3, <3>5, OneCompileMoves
  <2>9. CASE Materialize(c)
    <3>1. CASE files[c] = "none" /\ files' = [files EXCEPT ![c] = "partial"] /\ UNCHANGED compile
      <4>1. compile[c] \in Compilation /\ "partial" \in Written
        BY <2>1, <2>2, <2>3, <2>9, <3>1, Moved DEF Materialize, Building, Outside, Output, Written
      <4>2. /\ compile' = [compile EXCEPT ![c] = compile[c]]
            /\ files' = [files EXCEPT ![c] = "partial"]
        BY <2>1, <2>9, <3>1 DEF Materialize
      <4>3. /\ UNCHANGED verification /\ cancelled' \subseteq cancelled \cup {c}
            /\ \/ slots' = slots
               \/ slots' = slots \ {c}
               \/ slots' = slots \cup {c} /\ c \notin slots /\ Cardinality(slots) < MaxConcurrency
        BY <2>1, <2>9, <3>1 DEF Materialize, CompileInv, CompilerTyped, Building
      <4>4. compile'[c] = compile[c] /\ files'[c] = "partial"
        BY <2>1, <4>2 DEF CompilerTyped
      <4>5. CompileInv(c)'
        BY <2>1, <2>2, <2>9, <3>1, <4>3, <4>4, Moved DEF Materialize, CompileInv, Building, Outside
      <4>. QED
        BY <1>1, <4>1, <4>2, <4>3, <4>5, OneCompileMoves
    <3>2. CASE files[c] = "partial" /\ files' = [files EXCEPT ![c] = "whole"] /\ Go(c, "build")
      <4>1. [compile[c] EXCEPT !.at = "build"] \in Compilation /\ "whole" \in Written
        BY <2>1, <2>2, <2>3, <2>9, <3>2, Moved DEF Materialize, Building, Outside, Output, Written
      <4>2. /\ compile' = [compile EXCEPT ![c] = [compile[c] EXCEPT !.at = "build"]]
            /\ files' = [files EXCEPT ![c] = "whole"]
        BY <2>1, <2>9, <3>2 DEF Materialize
      <4>3. /\ UNCHANGED verification /\ cancelled' \subseteq cancelled \cup {c}
            /\ \/ slots' = slots
               \/ slots' = slots \ {c}
               \/ slots' = slots \cup {c} /\ c \notin slots /\ Cardinality(slots) < MaxConcurrency
        BY <2>1, <2>9, <3>2 DEF Materialize, CompileInv, CompilerTyped, Building
      <4>4. compile'[c] = [compile[c] EXCEPT !.at = "build"] /\ files'[c] = "whole"
        BY <2>1, <4>2 DEF CompilerTyped
      <4>5. CompileInv(c)'
        BY <2>1, <2>2, <2>9, <3>2, <4>3, <4>4, Moved DEF Materialize, CompileInv, Building, Outside
      <4>. QED
        BY <1>1, <4>1, <4>2, <4>3, <4>5, OneCompileMoves
    <3>3. CASE files[c] = "none" /\ Finish(c, "release", "error") /\ UNCHANGED files
      <4>1. [at |-> "release", output |-> "error"] \in Compilation /\ files[c] \in Written
        BY <2>1, <2>2, <2>3, <2>9, <3>3, Moved DEF Materialize, Building, Outside, Output, Written
      <4>2. /\ compile' = [compile EXCEPT ![c] = [at |-> "release", output |-> "error"]]
            /\ files' = [files EXCEPT ![c] = files[c]]
        BY <2>1, <2>9, <3>3 DEF Materialize
      <4>3. /\ UNCHANGED verification /\ cancelled' \subseteq cancelled \cup {c}
            /\ \/ slots' = slots
               \/ slots' = slots \ {c}
               \/ slots' = slots \cup {c} /\ c \notin slots /\ Cardinality(slots) < MaxConcurrency
        BY <2>1, <2>9, <3>3 DEF Materialize, CompileInv, CompilerTyped, Building
      <4>4. compile'[c] = [at |-> "release", output |-> "error"] /\ files'[c] = files[c]
        BY <2>1, <4>2 DEF CompilerTyped
      <4>5. CompileInv(c)'
        BY <2>1, <2>2, <2>9, <3>3, <4>3, <4>4, Moved DEF Materialize, CompileInv, Building, Outside
      <4>. QED
        BY <1>1, <4>1, <4>2, <4>3, <4>5, OneCompileMoves
    <3>4. CASE files[c] = "partial" /\ Finish(c, "clean", "error") /\ UNCHANGED files
      <4>1. [at |-> "clean", output |-> "error"] \in Compilation /\ files[c] \in Written
        BY <2>1, <2>2, <2>3, <2>9, <3>4, Moved DEF Materialize, Building, Outside, Output, Written
      <4>2. /\ compile' = [compile EXCEPT ![c] = [at |-> "clean", output |-> "error"]]
            /\ files' = [files EXCEPT ![c] = files[c]]
        BY <2>1, <2>9, <3>4 DEF Materialize
      <4>3. /\ UNCHANGED verification /\ cancelled' \subseteq cancelled \cup {c}
            /\ \/ slots' = slots
               \/ slots' = slots \ {c}
               \/ slots' = slots \cup {c} /\ c \notin slots /\ Cardinality(slots) < MaxConcurrency
        BY <2>1, <2>9, <3>4 DEF Materialize, CompileInv, CompilerTyped, Building
      <4>4. compile'[c] = [at |-> "clean", output |-> "error"] /\ files'[c] = files[c]
        BY <2>1, <4>2 DEF CompilerTyped
      <4>5. CompileInv(c)'
        BY <2>1, <2>2, <2>9, <3>4, <4>3, <4>4, Moved DEF Materialize, CompileInv, Building, Outside
      <4>. QED
        BY <1>1, <4>1, <4>2, <4>3, <4>5, OneCompileMoves
    <3>. QED
      BY <2>9, <3>1, <3>2, <3>3, <3>4 DEF Materialize
  <2>10. CASE RunBuild(c)
    <3>1. ASSUME NEW process \in Processes,
                 c \in cancelled => process.stopped # "no",
                 compile' = [compile EXCEPT ![c] =
                   [at |-> "clean", output |-> outcome(report(process)),
                    faultless |-> process = Faultless]]
          PROVE  CompilerInv'
      <4>. DEFINE output == outcome(report(process))
      <4>1. output \in Output \ {"none"} /\ (output = "template" => process = Faultless)
        BY <3>1, FaultlessOnly DEF Output
      <4>. HIDE DEF output
      <4>. DEFINE faultless == process = Faultless
      <4>. DEFINE next == [at |-> "clean", output |-> output, faultless |-> faultless]
      <4>2. next \in Compilation /\ files[c] \in Written
        BY <2>1, <4>1 DEF Compilation
      <4>3. /\ compile' = [compile EXCEPT ![c] = next] /\ files' = [files EXCEPT ![c] = files[c]]
            /\ UNCHANGED <<verification, cancelled, slots>>
        BY <2>1, <2>10, <3>1 DEF RunBuild, output
      <4>4. compile'[c].at = "clean" /\ compile'[c].output = output
              /\ compile'[c].faultless = faultless /\ files'[c] = files[c]
        BY <2>1, <4>3 DEF CompilerTyped
      <4>. HIDE DEF next
      <4>5. CompileInv(c)'
        <5>1. output = "template" => process = Faultless /\ c \notin cancelled
          BY <3>1, <4>1 DEF Faultless
        <5>. QED
          BY <2>1, <2>10, <4>1, <4>3, <4>4, <5>1 DEF RunBuild, CompileInv, Building, Outside
      <4>6. cancelled' \subseteq cancelled \cup {c}
        BY <2>1, <4>3 DEF CompilerTyped
      <4>. QED
        BY <1>1, <4>2, <4>3, <4>5, <4>6, OneCompileMoves
    <3>2. CASE Finish(c, "clean", "error")
      <4>1. [at |-> "clean", output |-> "error"] \in Compilation /\ files[c] \in Written
        BY <2>1, <2>2, <2>3, <2>10, <3>2, Moved DEF RunBuild, Building, Outside, Output, Written
      <4>2. /\ compile' = [compile EXCEPT ![c] = [at |-> "clean", output |-> "error"]]
            /\ files' = [files EXCEPT ![c] = files[c]]
        BY <2>1, <2>10, <3>2 DEF RunBuild
      <4>3. /\ UNCHANGED verification /\ cancelled' \subseteq cancelled \cup {c}
            /\ \/ slots' = slots
               \/ slots' = slots \ {c}
               \/ slots' = slots \cup {c} /\ c \notin slots /\ Cardinality(slots) < MaxConcurrency
        BY <2>1, <2>10, <3>2 DEF RunBuild, CompileInv, CompilerTyped, Building
      <4>4. compile'[c] = [at |-> "clean", output |-> "error"] /\ files'[c] = files[c]
        BY <2>1, <4>2 DEF CompilerTyped
      <4>5. CompileInv(c)'
        BY <2>1, <2>2, <2>10, <3>2, <4>3, <4>4, Moved DEF RunBuild, CompileInv, Building, Outside
      <4>. QED
        BY <1>1, <4>1, <4>2, <4>3, <4>5, OneCompileMoves
    <3>. QED
      BY <2>10, <3>1, <3>2 DEF RunBuild
  <2>11. CASE Cleanup(c)
    <3>1. [at |-> "release", output |-> compile[c].output] \in Compilation /\ "none" \in Written
      BY <2>1, <2>2, <2>3, <2>11, Moved DEF Cleanup, Building, Outside, Output, Written
    <3>2. /\ compile' = [compile EXCEPT ![c] = [at |-> "release", output |-> compile[c].output]]
          /\ files' = [files EXCEPT ![c] = "none"]
      BY <2>1, <2>11 DEF Cleanup
    <3>3. /\ UNCHANGED verification /\ cancelled' \subseteq cancelled \cup {c}
          /\ \/ slots' = slots
             \/ slots' = slots \ {c}
             \/ slots' = slots \cup {c} /\ c \notin slots /\ Cardinality(slots) < MaxConcurrency
      BY <2>1, <2>11 DEF Cleanup, CompileInv, CompilerTyped, Building
    <3>4. compile'[c] = [at |-> "release", output |-> compile[c].output] /\ files'[c] = "none"
      BY <2>1, <3>2 DEF CompilerTyped
    <3>5. CompileInv(c)'
      BY <2>1, <2>2, <2>11, <3>3, <3>4, Moved DEF Cleanup, CompileInv, Building, Outside
    <3>. QED
      BY <1>1, <3>1, <3>2, <3>3, <3>5, OneCompileMoves
  <2>12. CASE ReleaseSlot(c)
    <3>1. [compile[c] EXCEPT !.at = "returned"] \in Compilation /\ files[c] \in Written
      BY <2>1, <2>2, <2>3, <2>12, Moved DEF ReleaseSlot, Building, Outside, Output, Written
    <3>2. /\ compile' = [compile EXCEPT ![c] = [compile[c] EXCEPT !.at = "returned"]]
          /\ files' = [files EXCEPT ![c] = files[c]]
      BY <2>1, <2>12 DEF ReleaseSlot
    <3>3. /\ UNCHANGED verification /\ cancelled' \subseteq cancelled \cup {c}
          /\ \/ slots' = slots
             \/ slots' = slots \ {c}
             \/ slots' = slots \cup {c} /\ c \notin slots /\ Cardinality(slots) < MaxConcurrency
      BY <2>1, <2>12 DEF ReleaseSlot, CompileInv, CompilerTyped, Building
    <3>4. compile'[c] = [compile[c] EXCEPT !.at = "returned"] /\ files'[c] = files[c]
      BY <2>1, <3>2 DEF CompilerTyped
    <3>5. CompileInv(c)'
      <4>1. /\ compile[c].at = "release" /\ c \notin slots'
            /\ compile'[c].at = "returned" /\ compile'[c].output = compile[c].output
        BY <2>1, <2>12, <3>4, Moved DEF ReleaseSlot, Building, Outside
      <4>. QED
        BY <2>1, <3>3, <3>4, <4>1 DEF CompileInv, Building, Outside
    <3>. QED
      BY <1>1, <3>1, <3>2, <3>3, <3>5, OneCompileMoves
  <2>13. CASE EndCompile(c)
    <3>1. [at |-> "idle", output |-> "none"] \in Compilation /\ files[c] \in Written
      BY <2>1, <2>2, <2>3, <2>13, Moved DEF EndCompile, Building, Outside, Output, Written
    <3>2. /\ compile' = [compile EXCEPT ![c] = [at |-> "idle", output |-> "none"]]
          /\ files' = [files EXCEPT ![c] = files[c]]
      BY <2>1, <2>13 DEF EndCompile
    <3>3. /\ UNCHANGED verification /\ cancelled' \subseteq cancelled \cup {c}
          /\ \/ slots' = slots
             \/ slots' = slots \ {c}
             \/ slots' = slots \cup {c} /\ c \notin slots /\ Cardinality(slots) < MaxConcurrency
      BY <2>1, <2>13 DEF EndCompile, CompileInv, CompilerTyped, Building
    <3>4. compile'[c] = [at |-> "idle", output |-> "none"] /\ files'[c] = files[c]
      BY <2>1, <3>2 DEF CompilerTyped
    <3>5. CompileInv(c)'
      BY <2>1, <2>2, <2>13, <3>3, <3>4, Moved DEF EndCompile, CompileInv, Building, Outside
    <3>. QED
      BY <1>1, <3>1, <3>2, <3>3, <3>5, OneCompileMoves
  <2>. QED
    BY <1>4, <2>4, <2>5, <2>6, <2>7, <2>8, <2>9, <2>10, <2>11, <2>12, <2>13 DEF CompileStep
<1>. QED
  BY <1>1, <1>2, <1>3, <1>4 DEF CompilerNext

(* The invariant of the compiler: a call holds a slot exactly while it is  *)
(* inside, and files exactly while it builds (compile, runBuild).          *)
THEOREM CompilerInvariant == CompilerSpec => []CompilerInv
  BY CompilerInitially, CompilerPreserved, PTL DEF CompilerSpec

(* A call that returns has neither a slot nor files left, for every size   *)
(* of the queue (withMaterializedBundle, BoundedQueue.run).                *)
THEOREM CallsCleanUp == CompilerSpec => []NothingLeftBehind
<1>1. CompilerInv => NothingLeftBehind
  BY DEF CompilerInv, CompileInv, NothingLeftBehind, Building, Outside
<1>. QED
  BY <1>1, CompilerInvariant, PTL

(* A template comes only from a process that ended by itself without a     *)
(* fault, over the whole bundle, for a caller who was still there          *)
(* (PlatformProcessRunner.run, runBuild).                                  *)
THEOREM TemplatesAreWhole == CompilerSpec => []TemplateIsWhole
<1>1. CompilerInv => TemplateIsWhole
  BY DEF CompilerInv, CompileInv, TemplateIsWhole
<1>. QED
  BY <1>1, CompilerInvariant, PTL

(* No more builds run at once than MaxConcurrency, and what is known of    *)
(* each call has its type.                                                 *)
THEOREM CompilerTypes == CompilerSpec => []CompilerTypeOK
<1>1. CompilerInv => CompilerTypeOK
  BY DEF CompilerInv, CompilerTyped, CompilerTypeOK, Compilation, Building, Outside
<1>. QED
  BY <1>1, CompilerInvariant, PTL

-----------------------------------------------------------------------------
(* Bundles.  What a fold computes for every sequence is proved by taking   *)
(* the first position at which it would go wrong.                          *)

(* A set of numbers that is not empty has a least one.                     *)
LEMMA LeastExists ==
  ASSUME NEW numbers, numbers \subseteq Nat, numbers # {}
  PROVE  \E least \in numbers : \A n \in Nat : n < least => n \notin numbers
<1>. DEFINE less == {ss \in Nat \X Nat : ss[1] < ss[2]}
<1>1. IsWellFoundedOn(less, Nat)
  BY NatLessThanWellFounded DEF OpToRel
<1>. HIDE DEF less
<1>2. PICK least \in numbers : \A n \in numbers : <<n, least>> \notin less
  BY <1>1, WFMin
<1>3. ASSUME NEW n \in Nat, n < least PROVE n \notin numbers
  BY <1>2, <1>3 DEF less
<1>. QED
  BY <1>2, <1>3

(* The values a fold from the left goes through, one for each set of the   *)
(* first positions: an induction over the length, by a least counterexample*)
FoldValues(it, V, f, base, seq, n) ==
  /\ it \in [SUBSET (1..n) -> V]
  /\ it[{}] = base
  /\ \A u \in SUBSET (1..n) : u # {} =>
       /\ Max(u) \in u
       /\ it[u] = f[<<it[u \ {Max(u)}], seq[Max(u)]>>]

LEMMA MaxIs ==
  ASSUME NEW n \in Nat, NEW u \in SUBSET (1..n), n \in u
  PROVE  Max(u) = n
<1>1. \A y \in u : n >= y
  OBVIOUS
<1>2. \A x \in u : (\A y \in u : x >= y) => x = n
  OBVIOUS
<1>. QED
  BY <1>1, <1>2 DEF Max

LEMMA FoldExists ==
  ASSUME NEW V, NEW S, NEW f \in [V \X S -> V], NEW base \in V, NEW seq \in Seq(S)
  PROVE  \E it : FoldValues(it, V, f, base, seq, Len(seq))
<1>. DEFINE Missing == {n \in 0..Len(seq) : ~\E it : FoldValues(it, V, f, base, seq, n)}
<1>1. SUFFICES ASSUME Missing # {} PROVE FALSE
  <2>1. Missing = {}
    BY <1>1
  <2>2. Len(seq) \in 0..Len(seq)
    OBVIOUS
  <2>. QED
    BY <2>1, <2>2
<1>2. PICK n \in Missing : \A m \in Nat : m < n => m \notin Missing
  <2>. HIDE DEF Missing
  <2>1. Missing \subseteq Nat
    BY DEF Missing
  <2>. QED
    BY <1>1, <2>1, LeastExists
<1>3. n # 0
  <2>1. FoldValues([u \in SUBSET (1..0) |-> base], V, f, base, seq, 0)
    <3>1. SUBSET (1..0) = {{}}
      OBVIOUS
    <3>. QED
      BY <3>1 DEF FoldValues
  <2>2. 0 \notin Missing
    BY <2>1
  <2>. QED
    BY <1>2, <2>2
<1>4. /\ n \in Nat /\ n - 1 \in Nat /\ n - 1 \in 0..Len(seq) /\ n \in 1..Len(seq)
      /\ n = (n - 1) + 1
  BY <1>2, <1>3
<1>5. PICK it : FoldValues(it, V, f, base, seq, n - 1)
  BY <1>2, <1>4
<1>. DEFINE it2 == [u \in SUBSET (1..n) |-> IF n \in u THEN f[<<it[u \ {n}], seq[n]>>] ELSE it[u]]
<1>6. \A u \in SUBSET (1..n) :
        /\ u \ {n} \in SUBSET (1..(n - 1))
        /\ n \notin u => u \in SUBSET (1..(n - 1))
        /\ n \in u => Max(u) = n
  <2>1. \A x \in 1..n : x # n => x \in 1..(n - 1)
    BY <1>4
  <2>2. \A u \in SUBSET (1..n) : n \in u => Max(u) = n
    BY <1>4, MaxIs
  <2>3. \A u \in SUBSET (1..n) : u \ {n} \subseteq 1..(n - 1) /\ (n \notin u => u \subseteq 1..(n - 1))
    BY <2>1
  <2>. QED
    BY <2>2, <2>3
<1>7. seq[n] \in S
  BY <1>4
<1>8. \A u \in SUBSET (1..n) : it2[u] \in V
  BY <1>5, <1>6, <1>7 DEF FoldValues
<1>9. it2[{}] = base
  BY <1>5 DEF FoldValues
<1>10. ASSUME NEW u \in SUBSET (1..n), u # {}
       PROVE  Max(u) \in u /\ it2[u] = f[<<it2[u \ {Max(u)}], seq[Max(u)]>>]
  <2>1. CASE n \in u
    <3>1. it2[u] = f[<<it[u \ {n}], seq[n]>>] /\ it2[u \ {n}] = it[u \ {n}]
      BY <2>1
    <3>. QED
      BY <1>6, <2>1, <3>1
  <2>2. CASE n \notin u
    <3>1. Max(u) \in u /\ it[u] = f[<<it[u \ {Max(u)}], seq[Max(u)]>>]
      BY <1>5, <1>6, <1>10, <2>2 DEF FoldValues
    <3>2. it2[u] = it[u] /\ it2[u \ {Max(u)}] = it[u \ {Max(u)}]
      BY <2>2
    <3>. QED
      BY <3>1, <3>2
  <2>. QED
    BY <2>1, <2>2
<1>11. it2 \in [SUBSET (1..n) -> V]
  BY <1>8
<1>12. FoldValues(it2, V, f, base, seq, n)
  <2>. HIDE DEF it2
  <2>. QED
    BY <1>9, <1>10, <1>11 DEF FoldValues
<1>. QED
  BY <1>2, <1>12

(* The sets of the first positions, one after the other.                   *)
LEMMA FirstPositions ==
  ASSUME NEW k \in Nat, k # 0
  PROVE  /\ 1..k # {} /\ Max(1..k) = k
         /\ (1..k) \ {k} = 1..(k - 1)
<1>1. k \in 1..k /\ (1..k) \ {k} = 1..(k - 1)
  OBVIOUS
<1>2. Max(1..k) = k
  BY <1>1, MaxIs
<1>. QED
  BY <1>1, <1>2

(* cleanedPath, segment by segment.                                        *)
Cleaning(g, path) ==
  /\ g[0] = None
  /\ \A k \in 1..Len(path) :
       g[k] = IF path[k] \in Here THEN g[k - 1] ELSE Append(g[k - 1], path[k])
  /\ cleanedPath(path) = g[Len(path)]

LEMMA CleaningExists ==
  ASSUME NEW path \in Path
  PROVE  \E g : Cleaning(g, path)
<1>. DEFINE f == [p \in Path \X Segment |->
                    IF p[2] \in Here THEN p[1] ELSE Append(p[1], p[2])]
            D == 1..Len(path)
            Is(h) == h = [u \in SUBSET DOMAIN path |->
                      IF u = {} THEN None
                      ELSE IF path[Max(u)] \in Here THEN h[u \ {Max(u)}]
                           ELSE Append(h[u \ {Max(u)}], path[Max(u)])]
<1>1. /\ f \in [Path \X Segment -> Path]
      /\ None \in Path
      /\ DOMAIN path = D
      /\ \A i \in D : path[i] \in Segment
  <2>1. None \in Path /\ DOMAIN path = D /\ \A i \in D : path[i] \in Segment
    BY DEF Path, None
  <2>2. ASSUME NEW p \in Path, NEW x \in Segment PROVE Append(p, x) \in Path
    BY DEF Path
  <2>3. \A p \in Path \X Segment : p[1] \in Path /\ p[2] \in Segment
    OBVIOUS
  <2>4. \A p \in Path \X Segment : f[p] \in Path
    BY <2>2, <2>3
  <2>. QED
    BY <2>1, <2>4
<1>2. PICK it : FoldValues(it, Path, f, None, path, Len(path))
  <2>. HIDE DEF f
  <2>. QED
    BY <1>1, FoldExists DEF Path
<1>3. Is(it)
  <2>1. ASSUME NEW u \in SUBSET D, u # {}
        PROVE  it[u] = IF path[Max(u)] \in Here THEN it[u \ {Max(u)}]
                       ELSE Append(it[u \ {Max(u)}], path[Max(u)])
    <3>1. /\ Max(u) \in D /\ u \ {Max(u)} \in SUBSET D
          /\ it[u] = f[<<it[u \ {Max(u)}], path[Max(u)]>>]
      BY <1>2, <2>1 DEF FoldValues
    <3>2. it[u \ {Max(u)}] \in Path
      BY <1>2, <3>1 DEF FoldValues
    <3>3. path[Max(u)] \in Segment
      BY <1>1, <3>1
    <3>. QED
      BY <3>1, <3>2, <3>3
  <2>2. it = [u \in SUBSET D |-> it[u]] /\ it[{}] = None
    BY <1>2 DEF FoldValues
  <2>. QED
    BY <1>1, <2>1, <2>2
<1>4. PICK h : Is(h) /\ cleanedPath(path) = h[DOMAIN path]
  BY <1>3 DEF cleanedPath, FoldLeft, MapThenFoldSet
<1>5. \A u \in SUBSET D :
        h[u] = IF u = {} THEN None
               ELSE IF path[Max(u)] \in Here THEN h[u \ {Max(u)}]
                    ELSE Append(h[u \ {Max(u)}], path[Max(u)])
  BY <1>1, <1>4
<1>. DEFINE g == [k \in 0..Len(path) |-> h[1..k]]
<1>6. g[0] = None
  <2>1. 1..0 = {} /\ {} \in SUBSET D /\ 0 \in 0..Len(path)
    BY DEF Path
  <2>. QED
    BY <1>5, <2>1
<1>7. ASSUME NEW k \in 1..Len(path)
      PROVE  g[k] = IF path[k] \in Here THEN g[k - 1] ELSE Append(g[k - 1], path[k])
  <2>1. k \in Nat /\ k # 0 /\ k \in 0..Len(path) /\ k - 1 \in 0..Len(path) /\ 1..k \in SUBSET D
    BY DEF Path
  <2>2. 1..k # {} /\ Max(1..k) = k /\ (1..k) \ {k} = 1..(k - 1)
    BY <2>1, FirstPositions
  <2>3. h[1..k] = IF path[k] \in Here THEN h[1..(k - 1)] ELSE Append(h[1..(k - 1)], path[k])
    BY <1>5, <2>1, <2>2
  <2>. QED
    BY <2>1, <2>3
<1>8. cleanedPath(path) = g[Len(path)]
  <2>1. Len(path) \in 0..Len(path)
    BY DEF Path
  <2>. QED
    BY <1>1, <1>4, <2>1
<1>9. Cleaning(g, path)
  <2>. HIDE DEF g
  <2>. QED
    BY <1>6, <1>7, <1>8 DEF Cleaning
<1>. QED
  BY <1>9

(* What is true before a fold, and after each of its steps, is true at its *)
(* end: the induction of the lemmas below, again by a least counterexample.*)
LEMMA FirstBad ==
  ASSUME NEW n \in Nat, NEW bad, bad \subseteq 0..n, bad # {}, 0 \notin bad
  PROVE  \E k \in bad : k \in 1..n /\ k - 1 \in 0..n /\ k - 1 \notin bad
<1>1. PICK k \in bad : \A m \in Nat : m < k => m \notin bad
  <2>1. bad \subseteq Nat
    OBVIOUS
  <2>. QED
    BY <2>1, LeastExists
<1>2. k \in 1..n
  OBVIOUS
<1>3. k - 1 \in Nat /\ k - 1 < k /\ k - 1 \in 0..n
  BY <1>2
<1>. QED
  BY <1>1, <1>2, <1>3

(* A cleaned path has segments of the path only, and none of no meaning.   *)
LEMMA CleanedIsClean ==
  ASSUME NEW path \in Path
  PROVE  /\ cleanedPath(path) \in Path
         /\ \A i \in DOMAIN cleanedPath(path) :
              /\ cleanedPath(path)[i] \notin Here
              /\ \E j \in DOMAIN path : cleanedPath(path)[i] = path[j]
<1>. DEFINE Good(p) ==
              /\ p \in Path
              /\ \A i \in DOMAIN p : p[i] \notin Here /\ \E j \in DOMAIN path : p[i] = path[j]
<1>1. PICK g : Cleaning(g, path)
  BY CleaningExists
<1>. DEFINE bad == {k \in 0..Len(path) : ~Good(g[k])}
<1>2. Len(path) \in Nat /\ \A k \in 1..Len(path) : k \in DOMAIN path /\ path[k] \in Segment
  BY DEF Path
<1>3. 0 \notin bad
  <2>1. None \in Path /\ DOMAIN None = {}
    BY DEF None, Path
  <2>2. g[0] = None
    BY <1>1 DEF Cleaning
  <2>. QED
    BY <2>1, <2>2
<1>4. ASSUME NEW p, Good(p), NEW k \in 1..Len(path), path[k] \notin Here
      PROVE  Good(Append(p, path[k]))
  <2>. DEFINE q == Append(p, path[k])
  <2>1. /\ q \in Path
        /\ Len(q) = Len(p) + 1 /\ Len(p) \in Nat
        /\ DOMAIN q = 1..(Len(p) + 1) /\ DOMAIN p = 1..Len(p)
        /\ \A i \in 1..Len(p) : q[i] = p[i]
        /\ q[Len(p) + 1] = path[k]
    BY <1>2, <1>4 DEF Path
  <2>2. \A i \in DOMAIN q : i \in 1..Len(p) \/ i = Len(p) + 1
    BY <2>1
  <2>. QED
    BY <1>2, <1>4, <2>1, <2>2
<1>5. ASSUME NEW k \in 1..Len(path), Good(g[k - 1])
      PROVE  Good(g[k])
  <2>1. g[k] = IF path[k] \in Here THEN g[k - 1] ELSE Append(g[k - 1], path[k])
    BY <1>1 DEF Cleaning
  <2>. HIDE DEF Good
  <2>. QED
    BY <1>4, <1>5, <2>1
<1>6. bad = {}
  <2>. HIDE DEF Good
  <2>1. SUFFICES ASSUME bad # {} PROVE FALSE
    OBVIOUS
  <2>2. bad \subseteq 0..Len(path)
    OBVIOUS
  <2>. HIDE DEF bad
  <2>3. PICK k \in bad : k \in 1..Len(path) /\ k - 1 \in 0..Len(path) /\ k - 1 \notin bad
    BY <1>2, <1>3, <2>1, <2>2, FirstBad
  <2>. QED
    BY <1>5, <2>3 DEF bad
<1>7. Good(g[Len(path)])
  <2>. HIDE DEF Good
  <2>1. Len(path) \in 0..Len(path)
    BY <1>2
  <2>. QED
    BY <1>6, <2>1
<1>. QED
  BY <1>1, <1>7 DEF Cleaning

(* A path that has no such segment is clean.                               *)
LEMMA CleanedStays ==
  ASSUME NEW path \in Path, \A i \in DOMAIN path : path[i] \notin Here
  PROVE  cleanedPath(path) = path
<1>1. PICK g : Cleaning(g, path)
  BY CleaningExists
<1>. DEFINE bad == {k \in 0..Len(path) : g[k] # SubSeq(path, 1, k)}
<1>2. Len(path) \in Nat /\ \A k \in 1..Len(path) : path[k] \notin Here
  BY DEF Path
<1>3. 0 \notin bad
  <2>1. SubSeq(path, 1, 0) = <<>>
    BY DEF Path
  <2>. QED
    BY <1>1, <2>1 DEF Cleaning, None
<1>4. ASSUME NEW k \in 1..Len(path), g[k - 1] = SubSeq(path, 1, k - 1)
      PROVE  g[k] = SubSeq(path, 1, k)
  <2>1. g[k] = Append(g[k - 1], path[k])
    BY <1>1, <1>2 DEF Cleaning
  <2>2. Append(SubSeq(path, 1, k - 1), path[k]) = SubSeq(path, 1, k)
    BY DEF Path
  <2>. QED
    BY <1>4, <2>1, <2>2
<1>5. bad = {}
  <2>1. SUFFICES ASSUME bad # {} PROVE FALSE
    OBVIOUS
  <2>2. bad \subseteq 0..Len(path)
    OBVIOUS
  <2>. HIDE DEF bad
  <2>3. PICK k \in bad : k \in 1..Len(path) /\ k - 1 \in 0..Len(path) /\ k - 1 \notin bad
    BY <1>2, <1>3, <2>1, <2>2, FirstBad
  <2>. QED
    BY <1>4, <2>3 DEF bad
<1>6. g[Len(path)] = SubSeq(path, 1, Len(path))
  <2>1. Len(path) \in 0..Len(path)
    BY <1>2
  <2>. QED
    BY <1>5, <2>1
<1>7. SubSeq(path, 1, Len(path)) = path
  BY DEF Path
<1>. QED
  BY <1>1, <1>6, <1>7 DEF Cleaning

(* resolveWithinBundle, segment by segment.                                *)
Walked == [segments : Path, left : BOOLEAN]
Walking(g, fromFile, relative) ==
  /\ g[0] = [segments |-> Front(fromFile), left |-> FALSE]
  /\ \A k \in 1..Len(relative) : g[k] = Walk(g[k - 1], relative[k])
  /\ resolveWithinBundle(fromFile, relative) =
       IF g[Len(relative)].left THEN None ELSE g[Len(relative)].segments

(* The operations on sequences that the folds are made of.                 *)
LEMMA FrontIsSeq ==
  ASSUME NEW S, NEW p \in Seq(S)
  PROVE  Front(p) \in Seq(S)
<1>1. CASE p = <<>>
  <2>1. Front(p) = <<>>
    BY <1>1 DEF Front
  <2>. QED
    BY <2>1
<1>2. CASE p # <<>>
  BY <1>2 DEF Front
<1>. QED
  BY <1>1, <1>2

LEMMA WalkTyped ==
  ASSUME NEW at \in Walked, NEW segment \in Segment
  PROVE  Walk(at, segment) \in Walked
<1>1. at.segments \in Path /\ at.left \in BOOLEAN
  BY DEF Walked
<1>2. Append(at.segments, segment) \in Path /\ Front(at.segments) \in Path
  BY <1>1, FrontIsSeq DEF Path
<1>3. /\ [at EXCEPT !.segments = Append(@, segment)] \in Walked
      /\ [at EXCEPT !.segments = Front(@)] \in Walked
  BY <1>1, <1>2 DEF Walked
<1>4. [at EXCEPT !.left = TRUE] \in Walked
  BY <1>1 DEF Walked
<1>. QED
  BY <1>3, <1>4 DEF Walk

LEMMA WalkingExists ==
  ASSUME NEW fromFile \in Path, NEW relative \in Path
  PROVE  \E g : Walking(g, fromFile, relative)
<1>. DEFINE f == [p \in Walked \X Segment |-> Walk(p[1], p[2])]
            base == [segments |-> Front(fromFile), left |-> FALSE]
            D == 1..Len(relative)
            Is(h) == h = [u \in SUBSET DOMAIN relative |->
                      IF u = {} THEN base
                      ELSE Walk(h[u \ {Max(u)}], relative[Max(u)])]
<1>1. /\ f \in [Walked \X Segment -> Walked]
      /\ base \in Walked
      /\ DOMAIN relative = D
      /\ \A i \in D : relative[i] \in Segment
  <2>1. DOMAIN relative = D /\ \A i \in D : relative[i] \in Segment
    BY DEF Path
  <2>2. \A p \in Walked \X Segment : f[p] \in Walked
    BY WalkTyped
  <2>3. Front(fromFile) \in Path
    BY FrontIsSeq DEF Path
  <2>4. base \in Walked
    BY <2>3 DEF Walked
  <2>. QED
    BY <2>1, <2>2, <2>4
<1>2. PICK it : FoldValues(it, Walked, f, base, relative, Len(relative))
  <2>. HIDE DEF f, base
  <2>. QED
    BY <1>1, FoldExists DEF Path
<1>3. Is(it)
  <2>. HIDE DEF base
  <2>1. ASSUME NEW u \in SUBSET D, u # {}
        PROVE  it[u] = Walk(it[u \ {Max(u)}], relative[Max(u)])
    <3>1. /\ Max(u) \in D /\ u \ {Max(u)} \in SUBSET D
          /\ it[u] = f[<<it[u \ {Max(u)}], relative[Max(u)]>>]
      BY <1>2, <2>1 DEF FoldValues
    <3>2. it[u \ {Max(u)}] \in Walked
      BY <1>2, <3>1 DEF FoldValues
    <3>3. relative[Max(u)] \in Segment
      BY <1>1, <3>1
    <3>. QED
      BY <3>1, <3>2, <3>3
  <2>2. it = [u \in SUBSET D |-> it[u]] /\ it[{}] = base
    BY <1>2 DEF FoldValues
  <2>. QED
    BY <1>1, <2>1, <2>2
<1>4. PICK h : /\ Is(h)
               /\ resolveWithinBundle(fromFile, relative) =
                    IF h[DOMAIN relative].left THEN None ELSE h[DOMAIN relative].segments
  <2>. DEFINE end == FoldLeft(Walk, base, relative)
  <2>1. resolveWithinBundle(fromFile, relative) = IF end.left THEN None ELSE end.segments
    BY DEF resolveWithinBundle
  <2>2. PICK h : Is(h) /\ end = h[DOMAIN relative]
    <3>. HIDE DEF base
    <3>. QED
      BY <1>3 DEF FoldLeft, MapThenFoldSet
  <2>. HIDE DEF end, Is
  <2>. QED
    BY <2>1, <2>2
<1>. HIDE DEF base
<1>5. \A u \in SUBSET D :
        h[u] = IF u = {} THEN base ELSE Walk(h[u \ {Max(u)}], relative[Max(u)])
  BY <1>1, <1>4
<1>. DEFINE g == [k \in 0..Len(relative) |-> h[1..k]]
<1>6. g[0] = base
  <2>1. 1..0 = {} /\ {} \in SUBSET D /\ 0 \in 0..Len(relative)
    BY DEF Path
  <2>. QED
    BY <1>5, <2>1
<1>7. ASSUME NEW k \in 1..Len(relative)
      PROVE  g[k] = Walk(g[k - 1], relative[k])
  <2>1. k \in Nat /\ k # 0 /\ k \in 0..Len(relative) /\ k - 1 \in 0..Len(relative) /\ 1..k \in SUBSET D
    BY DEF Path
  <2>2. 1..k # {} /\ Max(1..k) = k /\ (1..k) \ {k} = 1..(k - 1)
    BY <2>1, FirstPositions
  <2>3. h[1..k] = Walk(h[1..(k - 1)], relative[k])
    BY <1>5, <2>1, <2>2
  <2>. QED
    BY <2>1, <2>3
<1>8. g[Len(relative)] = h[DOMAIN relative]
  <2>1. Len(relative) \in 0..Len(relative)
    BY DEF Path
  <2>. QED
    BY <1>1, <2>1
<1>9. Walking(g, fromFile, relative)
  <2>. HIDE DEF g
  <2>. QED
    BY <1>4, <1>6, <1>7, <1>8 DEF Walking, base
<1>. QED
  BY <1>9

(* FileSystem, segment by segment.                                         *)
Find(at, segment) ==
  IF segment \in Here THEN at
  ELSE IF segment = Up THEN IF at = None THEN None ELSE Front(at)
  ELSE Append(at, segment)

Finding(g, fromFile, relative) ==
  /\ g[0] = Root \o Front(fromFile)
  /\ \A k \in 1..Len(relative) : g[k] = Find(g[k - 1], relative[k])
  /\ FileSystem(fromFile, relative) = g[Len(relative)]

(* Where it looks: among the paths that may begin with the root.           *)
Found == Segment \cup {"root"}

LEMMA FindTyped ==
  ASSUME NEW at \in Seq(Found), NEW segment \in Segment
  PROVE  Find(at, segment) \in Seq(Found)
<1>1. Front(at) \in Seq(Found) /\ None \in Seq(Found)
  BY FrontIsSeq DEF None
<1>2. Append(at, segment) \in Seq(Found)
  BY DEF Found
<1>. QED
  BY <1>1, <1>2 DEF Find

LEMMA FindingExists ==
  ASSUME NEW fromFile \in Path, NEW relative \in Path
  PROVE  \E g : Finding(g, fromFile, relative)
<1>. DEFINE f == [p \in Seq(Found) \X Segment |-> Find(p[1], p[2])]
            base == Root \o Front(fromFile)
            D == 1..Len(relative)
            Is(h) == h = [u \in SUBSET DOMAIN relative |->
                      IF u = {} THEN base
                      ELSE Find(h[u \ {Max(u)}], relative[Max(u)])]
<1>1. /\ f \in [Seq(Found) \X Segment -> Seq(Found)]
      /\ base \in Seq(Found)
      /\ DOMAIN relative = D
      /\ \A i \in D : relative[i] \in Segment
  <2>1. DOMAIN relative = D /\ \A i \in D : relative[i] \in Segment
    BY DEF Path
  <2>2. \A p \in Seq(Found) \X Segment : f[p] \in Seq(Found)
    BY FindTyped
  <2>3. Front(fromFile) \in Path
    BY FrontIsSeq DEF Path
  <2>4. base \in Seq(Found)
    <3>1. Root \in Seq(Found) /\ Path \subseteq Seq(Found)
      BY DEF Root, Found, Path
    <3>. QED
      BY <2>3, <3>1
  <2>. QED
    BY <2>1, <2>2, <2>4
<1>2. PICK it : FoldValues(it, Seq(Found), f, base, relative, Len(relative))
  <2>. HIDE DEF f, base
  <2>. QED
    BY <1>1, FoldExists DEF Path
<1>3. Is(it)
  <2>. HIDE DEF base
  <2>1. ASSUME NEW u \in SUBSET D, u # {}
        PROVE  it[u] = Find(it[u \ {Max(u)}], relative[Max(u)])
    <3>1. /\ Max(u) \in D /\ u \ {Max(u)} \in SUBSET D
          /\ it[u] = f[<<it[u \ {Max(u)}], relative[Max(u)]>>]
      BY <1>2, <2>1 DEF FoldValues
    <3>2. it[u \ {Max(u)}] \in Seq(Found)
      BY <1>2, <3>1 DEF FoldValues
    <3>3. relative[Max(u)] \in Segment
      BY <1>1, <3>1
    <3>. QED
      BY <3>1, <3>2, <3>3
  <2>2. it = [u \in SUBSET D |-> it[u]] /\ it[{}] = base
    BY <1>2 DEF FoldValues
  <2>. QED
    BY <1>1, <2>1, <2>2
<1>4. PICK h : Is(h) /\ FileSystem(fromFile, relative) = h[DOMAIN relative]
  BY <1>3 DEF FileSystem, FoldLeft, MapThenFoldSet, Find
<1>. HIDE DEF base
<1>5. \A u \in SUBSET D :
        h[u] = IF u = {} THEN base ELSE Find(h[u \ {Max(u)}], relative[Max(u)])
  BY <1>1, <1>4
<1>. DEFINE g == [k \in 0..Len(relative) |-> h[1..k]]
<1>6. g[0] = base
  <2>1. 1..0 = {} /\ {} \in SUBSET D /\ 0 \in 0..Len(relative)
    BY DEF Path
  <2>. QED
    BY <1>5, <2>1
<1>7. ASSUME NEW k \in 1..Len(relative)
      PROVE  g[k] = Find(g[k - 1], relative[k])
  <2>1. k \in Nat /\ k # 0 /\ k \in 0..Len(relative) /\ k - 1 \in 0..Len(relative) /\ 1..k \in SUBSET D
    BY DEF Path
  <2>2. 1..k # {} /\ Max(1..k) = k /\ (1..k) \ {k} = 1..(k - 1)
    BY <2>1, FirstPositions
  <2>3. h[1..k] = Find(h[1..(k - 1)], relative[k])
    BY <1>5, <2>1, <2>2
  <2>. QED
    BY <2>1, <2>3
<1>8. g[Len(relative)] = h[DOMAIN relative]
  <2>1. Len(relative) \in 0..Len(relative)
    BY DEF Path
  <2>. QED
    BY <1>1, <2>1
<1>9. Finding(g, fromFile, relative)
  <2>. HIDE DEF g
  <2>. QED
    BY <1>4, <1>6, <1>7, <1>8 DEF Finding, base
<1>. QED
  BY <1>9

(* A sequence behind another: its front, and its extension.                *)
LEMMA FrontFacts ==
  ASSUME NEW S, NEW p \in Seq(S), p # <<>>
  PROVE  /\ Front(p) \in Seq(S)
         /\ Len(Front(p)) = Len(p) - 1
         /\ \A i \in 1..(Len(p) - 1) : Front(p)[i] = p[i]
<1>1. Len(p) \in Nat /\ Len(p) # 0
  OBVIOUS
<1>. QED
  BY <1>1 DEF Front

LEMMA SameSeq ==
  ASSUME NEW S, NEW p \in Seq(S), NEW q \in Seq(S), Len(p) = Len(q),
         \A i \in 1..Len(p) : p[i] = q[i]
  PROVE  p = q
  OBVIOUS

LEMMA ConcatFacts ==
  ASSUME NEW S, NEW p \in Seq(S), NEW q \in Seq(S)
  PROVE  /\ p \o q \in Seq(S)
         /\ Len(p) \in Nat /\ Len(q) \in Nat
         /\ Len(p \o q) = Len(p) + Len(q)
         /\ \A i \in 1..(Len(p) + Len(q)) :
              (p \o q)[i] = IF i <= Len(p) THEN p[i] ELSE q[i - Len(p)]
  OBVIOUS

LEMMA FrontBehind ==
  ASSUME NEW S, NEW p \in Seq(S), NEW q \in Seq(S), q # <<>>
  PROVE  p \o q # <<>> /\ Front(p \o q) = p \o Front(q)
<1>1. PICK r : r = p \o q
  OBVIOUS
<1>2. PICK f : f = Front(q)
  OBVIOUS
<1>3. PICK m \in Nat : m = Len(p)
  OBVIOUS
<1>4. PICK n \in Nat : n = Len(q) /\ n # 0
  OBVIOUS
<1>5. /\ r \in Seq(S) /\ Len(r) = m + n
      /\ \A i \in 1..(m + n) : r[i] = IF i <= m THEN p[i] ELSE q[i - m]
  BY <1>1, <1>3, <1>4, ConcatFacts
<1>6. /\ f \in Seq(S) /\ Len(f) = n - 1
      /\ \A i \in 1..(n - 1) : f[i] = q[i]
  BY <1>2, <1>4, FrontFacts
<1>7. PICK s : s = p \o f
  OBVIOUS
<1>8. /\ s \in Seq(S) /\ Len(s) = m + n - 1
      /\ \A i \in 1..(m + n - 1) : s[i] = IF i <= m THEN p[i] ELSE f[i - m]
  <2>1. /\ s \in Seq(S) /\ Len(s) = Len(p) + Len(f)
        /\ \A i \in 1..(Len(p) + Len(f)) :
             s[i] = IF i <= Len(p) THEN p[i] ELSE f[i - Len(p)]
    BY <1>6, <1>7, ConcatFacts
  <2>2. Len(p) + Len(f) = m + n - 1
    BY <1>3, <1>6
  <2>. QED
    BY <1>3, <2>1, <2>2
<1>9. r # <<>>
  BY <1>4, <1>5
<1>10. /\ Front(r) \in Seq(S) /\ Len(Front(r)) = m + n - 1
       /\ \A i \in 1..(m + n - 1) : Front(r)[i] = r[i]
  <2>1. /\ Front(r) \in Seq(S) /\ Len(Front(r)) = Len(r) - 1
        /\ \A i \in 1..(Len(r) - 1) : Front(r)[i] = r[i]
    BY <1>5, <1>9, FrontFacts
  <2>2. Len(r) - 1 = m + n - 1
    BY <1>5
  <2>. QED
    BY <2>1, <2>2
<1>11. ASSUME NEW i \in 1..(m + n - 1)
       PROVE  s[i] = r[i]
  <2>1. i \in 1..(m + n) /\ i \in Int
    OBVIOUS
  <2>2. CASE i <= m
    BY <1>5, <1>8, <2>1, <2>2
  <2>3. CASE i > m
    <3>1. i - m \in 1..(n - 1) /\ ~(i <= m)
      BY <2>3
    <3>2. s[i] = f[i - m] /\ r[i] = q[i - m]
      BY <1>5, <1>8, <2>1, <3>1
    <3>. QED
      BY <1>6, <3>1, <3>2
  <2>. QED
    BY <2>1, <2>2, <2>3
<1>12. Front(r) = s
  BY <1>8, <1>10, <1>11, SameSeq
<1>. QED
  BY <1>1, <1>2, <1>7, <1>9, <1>12

LEMMA BelowRoot ==
  ASSUME NEW p \in Path, NEW x \in Segment
  PROVE  /\ Append(Root \o p, x) = Root \o Append(p, x)
         /\ p # <<>> => Root \o p # <<>> /\ Front(Root \o p) = Root \o Front(p)
<1>1. Root \in Seq(Found) /\ p \in Seq(Found) /\ x \in Found
  BY DEF Root, Found, Path
<1>2. Append(Root \o p, x) = Root \o Append(p, x)
  BY <1>1
<1>3. p # <<>> => Root \o p # <<>> /\ Front(Root \o p) = Root \o Front(p)
  BY <1>1, FrontBehind
<1>. QED
  BY <1>2, <1>3

(* A path that does not leave the bundle is found by the file system where *)
(* resolveWithinBundle says, below the bundle's directory.                 *)
LEMMA ResolvedIsFound ==
  ASSUME NEW fromFile \in Path, NEW relative \in Path,
         resolveWithinBundle(fromFile, relative) # None
  PROVE  /\ resolveWithinBundle(fromFile, relative) \in Path
         /\ FileSystem(fromFile, relative) = Root \o resolveWithinBundle(fromFile, relative)
<1>1. PICK g : Walking(g, fromFile, relative)
  BY WalkingExists
<1>2. PICK h : Finding(h, fromFile, relative)
  BY FindingExists
<1>. DEFINE Good(at, place) ==
              /\ at \in Walked
              /\ ~at.left => place = Root \o at.segments
            bad == {k \in 0..Len(relative) : ~Good(g[k], h[k])}
<1>3. /\ Len(relative) \in Nat /\ Len(relative) \in 0..Len(relative)
      /\ \A k \in 1..Len(relative) : relative[k] \in Segment
  BY DEF Path
<1>4. Root \in Seq(Found) /\ Path \subseteq Seq(Found) /\ Segment \subseteq Found
  BY DEF Root, Found, Path
<1>5. Root \o None = Root /\ Root # None
  BY DEF Root, None
<1>6. 0 \notin bad
  <2>. DEFINE start == [segments |-> Front(fromFile), left |-> FALSE]
  <2>1. Front(fromFile) \in Path
    BY FrontIsSeq DEF Path
  <2>2. start \in Walked /\ start.segments = Front(fromFile)
    BY <2>1 DEF Walked
  <2>3. g[0] = start /\ h[0] = Root \o Front(fromFile)
    BY <1>1, <1>2 DEF Walking, Finding
  <2>. HIDE DEF start
  <2>. QED
    BY <2>2, <2>3
<1>7. ASSUME NEW at, NEW place, NEW segment \in Segment, Good(at, place)
      PROVE  Good(Walk(at, segment), Find(place, segment))
  <2>1. Walk(at, segment) \in Walked
    BY <1>7, WalkTyped
  <2>2. at.segments \in Path /\ at.segments \in Seq(Found)
    BY <1>4, <1>7 DEF Walked
  <2>3. SUFFICES ASSUME ~Walk(at, segment).left
                 PROVE  Find(place, segment) = Root \o Walk(at, segment).segments
    BY <2>1
  <2>4. CASE at.left
    BY <2>3, <2>4 DEF Walk
  <2>5. CASE ~at.left /\ segment \in Here
    BY <1>7, <2>5 DEF Walk, Find
  <2>6. CASE ~at.left /\ segment \notin Here /\ segment # Up
    <3>1. Walk(at, segment).segments = Append(at.segments, segment)
      BY <1>7, <2>6 DEF Walk, Walked
    <3>2. Find(place, segment) = Append(Root \o at.segments, segment)
      BY <1>7, <2>6 DEF Find
    <3>3. Append(Root \o at.segments, segment) = Root \o Append(at.segments, segment)
      BY <2>2, BelowRoot
    <3>. QED
      BY <3>1, <3>2, <3>3
  <2>7. CASE ~at.left /\ segment \notin Here /\ segment = Up
    <3>1. at.segments # None
      BY <1>7, <2>3, <2>7 DEF Walk, Walked
    <3>2. Walk(at, segment).segments = Front(at.segments)
      BY <1>7, <2>7, <3>1 DEF Walk, Walked
    <3>3. place = Root \o at.segments /\ place # None
      BY <1>7, <2>2, <2>7, <3>1, BelowRoot DEF None
    <3>4. Find(place, segment) = Front(Root \o at.segments)
      BY <2>7, <3>3 DEF Find
    <3>. QED
      BY <2>2, <3>1, <3>2, <3>4, BelowRoot DEF None
  <2>. QED
    BY <2>4, <2>5, <2>6, <2>7
<1>8. ASSUME NEW k \in 1..Len(relative), Good(g[k - 1], h[k - 1])
      PROVE  Good(g[k], h[k])
  <2>1. g[k] = Walk(g[k - 1], relative[k]) /\ h[k] = Find(h[k - 1], relative[k])
    BY <1>1, <1>2 DEF Walking, Finding
  <2>. HIDE DEF Good
  <2>. QED
    BY <1>3, <1>7, <1>8, <2>1
<1>9. bad = {}
  <2>. HIDE DEF Good
  <2>1. SUFFICES ASSUME bad # {} PROVE FALSE
    OBVIOUS
  <2>2. bad \subseteq 0..Len(relative)
    OBVIOUS
  <2>. HIDE DEF bad
  <2>3. PICK k \in bad : k \in 1..Len(relative) /\ k - 1 \in 0..Len(relative) /\ k - 1 \notin bad
    BY <1>3, <1>6, <2>1, <2>2, FirstBad
  <2>. QED
    BY <1>8, <2>3 DEF bad
<1>10. Good(g[Len(relative)], h[Len(relative)])
  <2>. HIDE DEF Good
  <2>. QED
    BY <1>3, <1>9
<1>11. ~g[Len(relative)].left
  BY <1>1 DEF Walking
<1>12. resolveWithinBundle(fromFile, relative) = g[Len(relative)].segments
  BY <1>1, <1>11 DEF Walking
<1>. QED
  BY <1>2, <1>10, <1>11, <1>12 DEF Finding, Walked

(* Paths that differ in case only still do so below the root.              *)
LEMMA SameBelowRoot ==
  ASSUME NEW p \in Path, NEW q \in Path, LowerPath(p) = LowerPath(q)
  PROVE  LowerPath(Root \o p) = LowerPath(Root \o q)
<1>1. DOMAIN p = DOMAIN q
  <2>1. DOMAIN LowerPath(p) = DOMAIN p /\ DOMAIN LowerPath(q) = DOMAIN q
    BY DEF LowerPath
  <2>. QED
    BY <2>1
<1>2. Len(p) = Len(q)
  BY <1>1 DEF Path
<1>3. \A i \in 1..Len(p) : Lower(p[i]) = Lower(q[i])
  <2>1. \A i \in 1..Len(p) : LowerPath(p)[i] = Lower(p[i]) /\ LowerPath(q)[i] = Lower(q[i])
    BY <1>2 DEF LowerPath, Path
  <2>. QED
    BY <2>1
<1>4. Root \in Seq(Found) /\ p \in Seq(Found) /\ q \in Seq(Found)
  BY DEF Root, Found, Path
<1>5. DOMAIN (Root \o p) = DOMAIN (Root \o q)
  BY <1>2, <1>4
<1>6. \A i \in DOMAIN (Root \o p) : Lower((Root \o p)[i]) = Lower((Root \o q)[i])
  <2>1. ASSUME NEW i \in 1..Len(Root) PROVE (Root \o p)[i] = (Root \o q)[i]
    BY <1>2, <1>4
  <2>2. ASSUME NEW i \in DOMAIN (Root \o p), i \notin 1..Len(Root)
        PROVE  /\ i - Len(Root) \in 1..Len(p)
               /\ (Root \o p)[i] = p[i - Len(Root)]
               /\ (Root \o q)[i] = q[i - Len(Root)]
    BY <1>2, <1>4, <2>2
  <2>. QED
    BY <1>3, <2>1, <2>2
<1>. QED
  BY <1>5, <1>6 DEF LowerPath

(* A path in its normal form is left as it is: a bundle that has been      *)
(* normalised is not changed, nor refused, by being normalised again.      *)
LEMMA NormalFormStays ==
  ASSUME NEW path \in Path, normalizeBundlePath(path) # None
  PROVE  /\ normalizeBundlePath(path) \in Path
         /\ normalizeBundlePath(normalizeBundlePath(path)) = normalizeBundlePath(path)
<1>1. PICK c : c = cleanedPath(path)
  OBVIOUS
<1>2. /\ normalizeBundlePath(path) = c
      /\ Up \notin ToSet(path)
      /\ ~(\/ c = None \/ Len(c) > MaxPathDepth
           \/ "con" \in ToSet(c)
           \/ Lower(Last(c)) \notin {"m", "t"})
  BY <1>1 DEF normalizeBundlePath
<1>3. /\ c \in Path
      /\ \A i \in DOMAIN c : c[i] \notin Here /\ \E j \in DOMAIN path : c[i] = path[j]
  BY <1>1, CleanedIsClean
<1>4. cleanedPath(c) = c
  BY <1>3, CleanedStays
<1>5. 1 \in DOMAIN c /\ Head(c) = c[1]
  BY <1>2, <1>3 DEF Path, None
<1>6. Head(c) # ""
  BY <1>3, <1>5 DEF Here
<1>7. Up \notin ToSet(c)
  BY <1>2, <1>3 DEF ToSet
<1>8. normalizeBundlePath(c) = c
  BY <1>2, <1>4, <1>6, <1>7 DEF normalizeBundlePath
<1>. QED
  BY <1>2, <1>3, <1>8

(* As many names as there are places: no two places have the same name.    *)
LEMMA OneNameEach ==
  ASSUME NEW n \in Nat, NEW name, DOMAIN name = 1..n,
         name = [i \in 1..n |-> name[i]],
         Cardinality({name[i] : i \in 1..n}) = n
  PROVE  \A i, j \in 1..n : name[i] = name[j] => i = j
<1>. DEFINE names == {name[i] : i \in 1..n}
<1>1. IsFiniteSet(1..n) /\ Cardinality(1..n) = n
  BY FS_Interval
<1>2. name \in Surjection(1..n, names)
  BY DEF Surjection
<1>3. name \in Injection(1..n, names)
  <2>. HIDE DEF names
  <2>1. Cardinality(1..n) = Cardinality(names)
    BY <1>1 DEF names
  <2>. QED
    BY <1>1, <1>2, <2>1, FS_SurjSameCardinalityImpliesInj
<1>. QED
  BY <1>3 DEF Injection, IsInjective

(* A file as a caller sends it.                                            *)
File == [path : Path, loads : SUBSET Path, modules : SUBSET Segment]

(* What an accepted bundle's files are.                                    *)
FilesOf(bundle, kept) ==
  /\ DOMAIN kept = 1..Len(bundle.files)
  /\ \A i \in DOMAIN kept :
       /\ kept[i].path # None
       /\ kept[i].path = normalizeBundlePath(bundle.files[i].path)
       /\ kept[i].loads = bundle.files[i].loads
       /\ bundle.files[i] \in File
  /\ Cardinality({LowerPath(kept[i].path) : i \in DOMAIN kept}) = Len(bundle.files)
  /\ assertFileLoadsAllowed(kept)

(* What BundleIsClosed asks of one of them.                                *)
ClosedAt(kept, i) ==
  /\ normalizeBundlePath(kept[i].path) = kept[i].path
  /\ \A j \in DOMAIN kept : LowerPath(kept[i].path) = LowerPath(kept[j].path) => i = j
  /\ IsBicep(kept[i].path) =>
       \A target \in kept[i].loads : \E j \in DOMAIN kept :
         LowerPath(FileSystem(kept[i].path, target)) = LowerPath(Root \o kept[j].path)

LEMMA AcceptedFiles ==
  ASSUME NEW bundle, bundle.files \in Seq(File), acceptBundle(bundle),
         NEW kept, kept = normalizeBundle(bundle).files
  PROVE  FilesOf(bundle, kept)
<1>. DEFINE paths == [i \in DOMAIN bundle.files |-> normalizeBundlePath(bundle.files[i].path)]
<1>1. /\ kept = [i \in DOMAIN paths |-> [bundle.files[i] EXCEPT !.path = paths[i]]]
      /\ None \notin ToSet(paths)
      /\ Cardinality({LowerPath(paths[i]) : i \in DOMAIN paths}) = Len(paths)
      /\ assertFileLoadsAllowed(kept)
  BY DEF acceptBundle, normalizeBundle
<1>2. /\ DOMAIN bundle.files = 1..Len(bundle.files)
      /\ \A i \in 1..Len(bundle.files) : bundle.files[i] \in File
      /\ Len(bundle.files) \in Nat
  OBVIOUS
<1>3. DOMAIN paths = 1..Len(bundle.files) /\ Len(paths) = Len(bundle.files)
  BY <1>2
<1>4. ASSUME NEW i \in 1..Len(bundle.files)
      PROVE  /\ kept[i].path = paths[i]
             /\ kept[i].loads = bundle.files[i].loads
             /\ paths[i] # None
             /\ paths[i] = normalizeBundlePath(bundle.files[i].path)
  <2>1. bundle.files[i] \in File
    BY <1>2
  <2>2. kept[i] = [bundle.files[i] EXCEPT !.path = paths[i]]
    BY <1>1, <1>3
  <2>3. paths[i] # None
    BY <1>1, <1>3 DEF ToSet
  <2>4. paths[i] = normalizeBundlePath(bundle.files[i].path)
    BY <1>2
  <2>. HIDE DEF paths
  <2>. QED
    BY <2>1, <2>2, <2>3, <2>4 DEF File
<1>5. DOMAIN kept = 1..Len(bundle.files)
  BY <1>1, <1>3
<1>. HIDE DEF paths
<1>6. {LowerPath(kept[i].path) : i \in DOMAIN kept} = {LowerPath(paths[i]) : i \in DOMAIN paths}
  BY <1>3, <1>4, <1>5
<1>. QED
  BY <1>1, <1>2, <1>3, <1>4, <1>5, <1>6 DEF FilesOf

LEMMA AcceptedIsClosed ==
  ASSUME NEW bundle, NEW kept, FilesOf(bundle, kept), bundle.files \in Seq(File), NEW i \in DOMAIN kept
  PROVE  ClosedAt(kept, i)
<1>1. /\ DOMAIN kept = 1..Len(bundle.files)
      /\ \A k \in DOMAIN kept :
           /\ kept[k].path # None
           /\ kept[k].path = normalizeBundlePath(bundle.files[k].path)
           /\ kept[k].loads = bundle.files[k].loads
           /\ bundle.files[k] \in File
      /\ Cardinality({LowerPath(kept[k].path) : k \in DOMAIN kept}) = Len(bundle.files)
      /\ assertFileLoadsAllowed(kept)
  BY DEF FilesOf
<1>2. ASSUME NEW k \in DOMAIN kept
      PROVE  /\ kept[k].path \in Path
             /\ normalizeBundlePath(kept[k].path) = kept[k].path
             /\ kept[k].loads \subseteq Path
  <2>1. bundle.files[k].path \in Path /\ bundle.files[k].loads \subseteq Path
    BY <1>1 DEF File
  <2>. QED
    BY <1>1, <2>1, NormalFormStays
<1>3. ASSUME NEW j \in DOMAIN kept, LowerPath(kept[i].path) = LowerPath(kept[j].path)
      PROVE  i = j
  <2>. DEFINE name == [k \in 1..Len(bundle.files) |-> LowerPath(kept[k].path)]
  <2>1. Len(bundle.files) \in Nat
    OBVIOUS
  <2>2. {name[k] : k \in 1..Len(bundle.files)} = {LowerPath(kept[k].path) : k \in DOMAIN kept}
    BY <1>1
  <2>3. name[i] = name[j] /\ i \in 1..Len(bundle.files) /\ j \in 1..Len(bundle.files)
    BY <1>1, <1>3
  <2>4. DOMAIN name = 1..Len(bundle.files) /\ name = [k \in 1..Len(bundle.files) |-> name[k]]
    OBVIOUS
  <2>. HIDE DEF name
  <2>5. Cardinality({name[k] : k \in 1..Len(bundle.files)}) = Len(bundle.files)
    BY <1>1, <2>2
  <2>. QED
    BY <2>1, <2>3, <2>4, <2>5, OneNameEach
<1>4. ASSUME IsBicep(kept[i].path), NEW target \in kept[i].loads
      PROVE  \E j \in DOMAIN kept :
               LowerPath(FileSystem(kept[i].path, target)) = LowerPath(Root \o kept[j].path)
  <2>. DEFINE resolved == resolveWithinBundle(kept[i].path, target)
  <2>1. PICK j \in DOMAIN kept : LowerPath(resolved) = LowerPath(kept[j].path)
    BY <1>1, <1>4 DEF assertFileLoadsAllowed
  <2>2. kept[i].path \in Path /\ target \in Path /\ kept[j].path \in Path /\ kept[j].path # None
    BY <1>1, <1>2, <1>4
  <2>3. resolved # None
    <3>1. DOMAIN LowerPath(resolved) = DOMAIN LowerPath(kept[j].path)
      BY <2>1
    <3>2. DOMAIN resolved = DOMAIN kept[j].path
      BY <3>1 DEF LowerPath
    <3>3. 1 \in DOMAIN kept[j].path
      BY <2>2 DEF Path, None
    <3>. HIDE DEF resolved
    <3>. QED
      BY <3>2, <3>3 DEF None
  <2>4. resolved \in Path /\ FileSystem(kept[i].path, target) = Root \o resolved
    BY <2>2, <2>3, ResolvedIsFound
  <2>. HIDE DEF resolved
  <2>. QED
    BY <2>1, <2>2, <2>4, SameBelowRoot
<1>. QED
  BY <1>2, <1>3, <1>4 DEF ClosedAt

(* Of every bundle, whatever its files, paths and loads: an accepted one   *)
(* has no file outside, and none of its files that are named .bicep in     *)
(* lower case loads one that is not in it (normalizeBundle,                *)
(* resolveWithinBundle, assertFileLoadsAllowed).                           *)
THEOREM BundlesAreClosed ==
  BundleInit /\ [][Examine]_source => []BundleIsClosed
<1>. DEFINE Inv == SourceIs("bundle") => source.bundle \in Bundles
<1>1. BundleInit => Inv
  BY DEF BundleInit, SourceIs
<1>2. Inv /\ [Examine]_source => Inv'
  BY DEF Examine, ExamineBundle, ExamineTemplate, SourceIs
<1>3. Inv => BundleIsClosed
  <2>. SUFFICES ASSUME Inv, SourceIs("bundle"), acceptBundle(source.bundle),
                       NEW kept, kept = normalizeBundle(source.bundle).files,
                       NEW i \in DOMAIN kept
                PROVE  ClosedAt(kept, i)
    BY DEF BundleIsClosed, ClosedAt
  <2>1. source.bundle.files \in Seq(File)
    BY BundleAssumption DEF File
  <2>2. FilesOf(source.bundle, kept)
    BY <2>1, AcceptedFiles
  <2>. QED
    BY <2>1, <2>2, AcceptedIsClosed
<1>. QED
  BY <1>1, <1>2, <1>3, PTL

-----------------------------------------------------------------------------
(* The inspection of templates.  The fold of walkResources is followed     *)
(* resource by resource.                                                   *)

(* The resources of a template as the caller of the walk knows them.       *)
InOrder(resources) ==
  /\ resources \in Seq(Resource)
  /\ \A i \in 1..Len(resources) :
       /\ resources[i].type # None
       /\ resources[i].within = "top" <=> resources[i].parent = 0
       /\ resources[i].parent < i

Totals(n) ==
  [known : [1..n -> Path], resourceCount : Nat, nestedDeployments : Nat,
   types : SUBSET Path, crossScope : SUBSET STRING, ok : BOOLEAN]

Untouched(n) ==
  [known |-> [i \in 1..n |-> None], resourceCount |-> 0, nestedDeployments |-> 0,
   types |-> {}, crossScope |-> {}, ok |-> TRUE]

(* The fields of a resource, and that its parent is one of those before it.*)
LEMMA ResourceFields ==
  ASSUME NEW resources, InOrder(resources), NEW i \in 1..Len(resources)
  PROVE  /\ Len(resources) \in Nat /\ DOMAIN resources = 1..Len(resources)
         /\ resources[i] \in Resource
         /\ resources[i].type \in Path /\ resources[i].type # None
         /\ resources[i].target \in STRING
         /\ resources[i].within \in {"top", "resources", "nested"}
         /\ resources[i].within = "top" => resources[i].parent = 0
         /\ resources[i].within # "top" =>
              /\ resources[i].parent \in 1..Len(resources)
              /\ resources[i].parent < i
<1>1. Len(resources) \in Nat /\ DOMAIN resources = 1..Len(resources)
  BY DEF InOrder
<1>2. resources[i] \in Resource
  BY DEF InOrder
<1>3. /\ resources[i].type \in Path /\ resources[i].target \in STRING
      /\ resources[i].within \in {"top", "resources", "nested"}
      /\ resources[i].parent \in Nat
  BY <1>2 DEF Resource
<1>4. /\ resources[i].type # None
      /\ resources[i].within = "top" <=> resources[i].parent = 0
      /\ resources[i].parent < i
  BY DEF InOrder
<1>. QED
  BY <1>1, <1>2, <1>3, <1>4

LEMMA QualifiedIsPath ==
  ASSUME NEW type \in Path, type # None, NEW parent \in Path
  PROVE  qualifiedType(type, parent) \in Path /\ qualifiedType(type, parent) # None
<1>1. parent \o type \in Path
  BY DEF Path
<1>2. Len(parent \o type) = Len(parent) + Len(type) /\ Len(type) \in Nat /\ Len(parent) \in Nat
  BY DEF Path
<1>3. Len(type) # 0
  BY DEF Path, None
<1>4. parent \o type # None
  BY <1>2, <1>3 DEF None
<1>. QED
  BY <1>1, <1>4 DEF qualifiedType

LEMMA ReachedIsPath ==
  ASSUME NEW resources, InOrder(resources), NEW i \in 1..Len(resources),
         NEW known \in [1..Len(resources) -> Path]
  PROVE  typeReached(resources, known, i) \in Path
<1>1. None \in Path
  BY DEF None, Path
<1>2. CASE resources[i].within = "top"
  BY <1>1, <1>2, ResourceFields, QualifiedIsPath DEF typeReached
<1>3. CASE resources[i].within = "resources"
  <2>1. known[resources[i].parent] \in Path
    BY <1>3, ResourceFields
  <2>. QED
    BY <1>1, <1>3, <2>1, ResourceFields, QualifiedIsPath DEF typeReached
<1>4. CASE resources[i].within = "nested"
  BY <1>1, <1>4, ResourceFields, QualifiedIsPath DEF typeReached
<1>. QED
  BY <1>2, <1>3, <1>4, ResourceFields

LEMMA VisitTyped ==
  ASSUME NEW resources, InOrder(resources), NEW i \in 1..Len(resources),
         NEW state \in Totals(Len(resources))
  PROVE  visit(resources, state, i) \in Totals(Len(resources))
<1>. DEFINE type == typeReached(resources, state.known, i)
            next == visit(resources, state, i)
<1>1. /\ state.known \in [1..Len(resources) -> Path] /\ state.resourceCount \in Nat
      /\ state.nestedDeployments \in Nat /\ state.types \subseteq Path
      /\ state.crossScope \subseteq STRING
  BY DEF Totals
<1>2. type \in Path /\ resources[i].target \in STRING
  BY <1>1, ReachedIsPath, ResourceFields
<1>3. CASE type = None
  BY <1>3 DEF visit
<1>4. CASE type # None
  <2>. HIDE DEF type
  <2>1. /\ [state.known EXCEPT ![i] = type] \in [1..Len(resources) -> Path]
        /\ state.resourceCount + 1 \in Nat
        /\ (IF type = Deployment THEN state.nestedDeployments + 1 ELSE state.nestedDeployments) \in Nat
        /\ state.types \cup {type} \subseteq Path
        /\ state.crossScope \cup ({resources[i].target} \ {"none"}) \subseteq STRING
    BY <1>1, <1>2
  <2>2. \A ok \in BOOLEAN :
          [known |-> [state.known EXCEPT ![i] = type],
           resourceCount |-> state.resourceCount + 1,
           nestedDeployments |-> IF type = Deployment THEN state.nestedDeployments + 1
                                 ELSE state.nestedDeployments,
           types |-> state.types \cup {type},
           crossScope |-> state.crossScope \cup ({resources[i].target} \ {"none"}),
           ok |-> ok] \in Totals(Len(resources))
    BY <2>1 DEF Totals
  <2>. QED
    BY <1>4, <2>2 DEF visit, type
<1>. QED
  BY <1>3, <1>4

(* walkResources, resource by resource.                                    *)
Visiting(g, resources) ==
  /\ g[0] = Untouched(Len(resources))
  /\ \A k \in 1..Len(resources) : g[k] = visit(resources, g[k - 1], k)
  /\ walkResources(resources) = g[Len(resources)]

LEMMA VisitingExists ==
  ASSUME NEW resources, InOrder(resources)
  PROVE  \E g : Visiting(g, resources)
<1>. DEFINE n == Len(resources)
            D == 1..n
            V == Totals(n)
            order == [i \in DOMAIN resources |-> i]
            f == [p \in V \X D |-> visit(resources, p[1], p[2])]
            base == Untouched(n)
            Is(h) == h = [u \in SUBSET DOMAIN order |->
                      IF u = {} THEN base
                      ELSE visit(resources, h[u \ {Max(u)}], order[Max(u)])]
<1>1. /\ n \in Nat /\ DOMAIN resources = D
      /\ order \in Seq(D) /\ DOMAIN order = D /\ Len(order) = n
      /\ \A i \in D : order[i] = i
  BY DEF InOrder
<1>2. base \in V
  <2>1. None \in Path
    BY DEF None, Path
  <2>. QED
    BY <2>1 DEF Totals, Untouched
<1>3. f \in [V \X D -> V]
  <2>1. \A p \in V \X D : p[1] \in V /\ p[2] \in D
    OBVIOUS
  <2>2. \A s \in V : \A i \in D : visit(resources, s, i) \in V
    BY VisitTyped
  <2>3. \A p \in V \X D : f[p] \in V
    BY <2>1, <2>2
  <2>. QED
    BY <2>3
<1>4. PICK it : FoldValues(it, V, f, base, order, n)
  <2>. HIDE DEF f, base, V, order, D, n
  <2>. QED
    BY <1>1, <1>2, <1>3, FoldExists
<1>5. Is(it)
  <2>. HIDE DEF base
  <2>1. ASSUME NEW u \in SUBSET D, u # {}
        PROVE  it[u] = visit(resources, it[u \ {Max(u)}], order[Max(u)])
    <3>1. /\ Max(u) \in D /\ u \ {Max(u)} \in SUBSET D
          /\ it[u] = f[<<it[u \ {Max(u)}], order[Max(u)]>>]
      BY <1>4, <2>1 DEF FoldValues
    <3>2. it[u \ {Max(u)}] \in V
      BY <1>4, <3>1 DEF FoldValues
    <3>3. order[Max(u)] \in D
      BY <1>1, <3>1
    <3>. QED
      BY <3>1, <3>2, <3>3
  <2>2. it = [u \in SUBSET D |-> it[u]] /\ it[{}] = base
    BY <1>4 DEF FoldValues
  <2>. QED
    BY <1>1, <2>1, <2>2
<1>6. PICK h : Is(h) /\ walkResources(resources) = h[DOMAIN order]
  <2>1. base = [known |-> [i \in DOMAIN resources |-> None], resourceCount |-> 0,
                nestedDeployments |-> 0, types |-> {}, crossScope |-> {}, ok |-> TRUE]
    BY <1>1 DEF Untouched
  <2>2. walkResources(resources) =
          FoldLeft(LAMBDA state, i : visit(resources, state, i), base, order)
    BY <2>1 DEF walkResources, FoldLeftDomain
  <2>. HIDE DEF base, order
  <2>. QED
    BY <1>5, <2>2 DEF FoldLeft, MapThenFoldSet
<1>. HIDE DEF base
<1>7. \A u \in SUBSET D :
        h[u] = IF u = {} THEN base ELSE visit(resources, h[u \ {Max(u)}], order[Max(u)])
  <2>. HIDE DEF order
  <2>. QED
    BY <1>1, <1>6
<1>. DEFINE g == [k \in 0..n |-> h[1..k]]
<1>8. g[0] = base
  <2>1. 1..0 = {} /\ {} \in SUBSET D /\ 0 \in 0..n
    BY <1>1
  <2>. QED
    BY <1>7, <2>1
<1>9. ASSUME NEW k \in D
      PROVE  g[k] = visit(resources, g[k - 1], k)
  <2>1. k \in Nat /\ k # 0 /\ k \in 0..n /\ k - 1 \in 0..n /\ 1..k \in SUBSET D
    BY <1>1
  <2>2. 1..k # {} /\ Max(1..k) = k /\ (1..k) \ {k} = 1..(k - 1)
    BY <2>1, FirstPositions
  <2>3. h[1..k] = visit(resources, h[1..(k - 1)], order[k])
    <3>. HIDE DEF order
    <3>. QED
      BY <1>7, <2>1, <2>2
  <2>4. order[k] = k
    BY <1>1
  <2>. HIDE DEF order
  <2>. QED
    BY <2>1, <2>3, <2>4
<1>10. g[n] = h[DOMAIN order]
  <2>1. n \in 0..n
    BY <1>1
  <2>. QED
    BY <1>1, <2>1
<1>11. Visiting(g, resources)
  <2>. HIDE DEF g
  <2>. QED
    BY <1>6, <1>8, <1>9, <1>10 DEF Visiting, base
<1>. QED
  BY <1>11

(* What the walk has established after the first k resources: the types of *)
(* those that it reached, counts and collections over exactly those, and   *)
(* unless it refuses, that each of them is allowed.                        *)
Seen(resources, s) == {i \in 1..Len(resources) : s.known[i] # None}
Nesting(resources, s) == {i \in 1..Len(resources) : s.known[i] = Deployment}

Allowed(r, type) ==
  /\ type \notin DeniedTypes
  /\ r.target # "computed" /\ ~r.scope
  /\ type = Deployment => ~r.linked /\ r.mode # "Complete"

WalkInv(resources, s, k) ==
  /\ s \in Totals(Len(resources))
  /\ \A i \in 1..Len(resources) : i > k => s.known[i] = None
  /\ \A i \in 1..Len(resources) : i <= k => s.known[i] = typeReached(resources, s.known, i)
  /\ s.resourceCount = Cardinality(Seen(resources, s))
  /\ s.nestedDeployments = Cardinality(Nesting(resources, s))
  /\ s.types = {s.known[i] : i \in Seen(resources, s)}
  /\ s.crossScope = {resources[i].target : i \in Seen(resources, s)} \ {"none"}
  /\ s.ok => /\ s.resourceCount <= MaxResources
             /\ \A i \in Seen(resources, s) : Allowed(resources[i], s.known[i])

LEMMA UntouchedInv ==
  ASSUME NEW resources, InOrder(resources)
  PROVE  WalkInv(resources, Untouched(Len(resources)), 0)
<1>. DEFINE s == Untouched(Len(resources))
<1>1. s \in Totals(Len(resources))
  <2>1. None \in Path
    BY DEF None, Path
  <2>. QED
    BY <2>1 DEF Totals, Untouched
<1>2. /\ s.known = [i \in 1..Len(resources) |-> None] /\ s.resourceCount = 0
      /\ s.nestedDeployments = 0 /\ s.types = {} /\ s.crossScope = {}
  BY DEF Untouched
<1>3. None # Deployment
  BY DEF None, Deployment
<1>. HIDE DEF s
<1>4. Seen(resources, s) = {} /\ Nesting(resources, s) = {}
  BY <1>2, <1>3 DEF Seen, Nesting
<1>5. \A i \in 1..Len(resources) : ~(i <= 0)
  BY DEF InOrder
<1>. QED
  BY <1>1, <1>2, <1>4, <1>5, FS_EmptySet, LimitAssumption DEF WalkInv, s

(* What is known of the parents of the first resources does not change     *)
(* when a later one is reached.                                            *)
LEMMA ReachedBefore ==
  ASSUME NEW resources, InOrder(resources), NEW i \in 1..Len(resources),
         NEW known \in [1..Len(resources) -> Path],
         NEW later \in [1..Len(resources) -> Path],
         \A j \in 1..Len(resources) : j < i => later[j] = known[j]
  PROVE  typeReached(resources, later, i) = typeReached(resources, known, i)
<1>1. resources[i].within # "top" => later[resources[i].parent] = known[resources[i].parent]
  BY ResourceFields
<1>. QED
  BY <1>1, ResourceFields DEF typeReached

LEMMA VisitKeeps ==
  ASSUME NEW resources, InOrder(resources), NEW k \in 1..Len(resources),
         NEW s, WalkInv(resources, s, k - 1)
  PROVE  WalkInv(resources, visit(resources, s, k), k)
<1>. DEFINE n == Len(resources)
            D == 1..n
            type == typeReached(resources, s.known, k)
            r == resources[k]
            next == visit(resources, s, k)
<1>1. /\ n \in Nat /\ k \in Nat /\ \A i \in D : i \in Nat
      /\ \A i \in D : (i > k - 1 <=> i = k \/ i > k) /\ (i <= k <=> i = k \/ i <= k - 1)
  BY DEF InOrder
<1>2. /\ s \in Totals(n) /\ s.known \in [D -> Path]
      /\ s.resourceCount \in Nat /\ s.nestedDeployments \in Nat
  BY DEF WalkInv, Totals
<1>3. next \in Totals(n) /\ next.known \in [D -> Path]
  BY <1>2, VisitTyped DEF Totals
<1>4. s.known[k] = None
  BY <1>1 DEF WalkInv
<1>5. CASE type = None
  <2>1. next = s
    BY <1>5 DEF visit
  <2>2. \A i \in D : i > k => s.known[i] = None
    BY <1>1 DEF WalkInv
  <2>3. \A i \in D : i <= k => s.known[i] = typeReached(resources, s.known, i)
    BY <1>1, <1>4, <1>5 DEF WalkInv
  <2>. HIDE DEF next, type
  <2>4. WalkInv(resources, s, k)
    BY <2>2, <2>3 DEF WalkInv
  <2>. QED
    BY <2>1, <2>4 DEF next
<1>6. CASE type # None
  <2>1. /\ next.known = [s.known EXCEPT ![k] = type]
        /\ next.resourceCount = s.resourceCount + 1
        /\ next.nestedDeployments = IF type = Deployment THEN s.nestedDeployments + 1
                                    ELSE s.nestedDeployments
        /\ next.types = s.types \cup {type}
        /\ next.crossScope = s.crossScope \cup ({r.target} \ {"none"})
    BY <1>6 DEF visit
  <2>2. next.ok => s.ok /\ s.resourceCount < MaxResources /\ Allowed(r, type)
    BY <1>6 DEF visit, Allowed
  <2>. HIDE DEF next, type
  <2>3. \A i \in D : next.known[i] = IF i = k THEN type ELSE s.known[i]
    BY <1>2, <2>1
  <2>4. \A i \in D : i > k => next.known[i] = None
    BY <1>1, <2>3 DEF WalkInv
  <2>5. ASSUME NEW i \in D, i <= k PROVE next.known[i] = typeReached(resources, next.known, i)
    <3>1. \A j \in D : j < i => next.known[j] = s.known[j]
      BY <1>1, <2>3, <2>5
    <3>2. typeReached(resources, next.known, i) = typeReached(resources, s.known, i)
      BY <1>2, <1>3, <3>1, ReachedBefore
    <3>3. CASE i = k
      BY <2>3, <3>2, <3>3 DEF type
    <3>4. CASE i <= k - 1
      BY <1>1, <2>3, <3>2, <3>4 DEF WalkInv
    <3>. QED
      BY <1>1, <2>5, <3>3, <3>4
  <2>6. Seen(resources, next) = Seen(resources, s) \cup {k} /\ k \notin Seen(resources, s)
    BY <1>4, <1>6, <2>3 DEF Seen
  <2>7. /\ Nesting(resources, next) =
             IF type = Deployment THEN Nesting(resources, s) \cup {k} ELSE Nesting(resources, s)
        /\ k \notin Nesting(resources, s)
    <3>1. None # Deployment
      BY DEF None, Deployment
    <3>. QED
      BY <1>4, <2>3, <3>1 DEF Nesting
  <2>8. IsFiniteSet(Seen(resources, s)) /\ IsFiniteSet(Nesting(resources, s))
    <3>1. IsFiniteSet(D)
      BY <1>1, FS_Interval
    <3>2. Seen(resources, s) \in SUBSET D /\ Nesting(resources, s) \in SUBSET D
      BY DEF Seen, Nesting
    <3>. QED
      BY <3>1, <3>2, FS_Subset
  <2>9. next.resourceCount = Cardinality(Seen(resources, next))
    BY <2>1, <2>6, <2>8, FS_AddElement DEF WalkInv
  <2>10. next.nestedDeployments = Cardinality(Nesting(resources, next))
    <3>1. s.nestedDeployments = Cardinality(Nesting(resources, s))
      BY DEF WalkInv
    <3>2. Cardinality(Nesting(resources, s) \cup {k}) = Cardinality(Nesting(resources, s)) + 1
      BY <2>7, <2>8, FS_AddElement
    <3>. QED
      BY <2>1, <2>7, <3>1, <3>2
  <2>11. next.types = {next.known[i] : i \in Seen(resources, next)}
    <3>1. {next.known[i] : i \in Seen(resources, next)} = {s.known[i] : i \in Seen(resources, s)} \cup {type}
      <4>1. \A i \in Seen(resources, s) : i \in D /\ i # k
        BY <2>6 DEF Seen
      <4>. QED
        BY <2>3, <2>6, <4>1
    <3>. QED
      BY <2>1, <3>1 DEF WalkInv
  <2>12. next.crossScope = {resources[i].target : i \in Seen(resources, next)} \ {"none"}
    BY <2>1, <2>6 DEF WalkInv
  <2>13. next.ok => /\ next.resourceCount <= MaxResources
                   /\ \A i \in Seen(resources, next) : Allowed(resources[i], next.known[i])
    <3>. SUFFICES ASSUME next.ok
                  PROVE  /\ next.resourceCount <= MaxResources
                         /\ \A i \in Seen(resources, next) : Allowed(resources[i], next.known[i])
      OBVIOUS
    <3>1. s.ok /\ s.resourceCount < MaxResources /\ Allowed(r, type)
      BY <2>2
    <3>2. next.resourceCount <= MaxResources
      BY <1>2, <2>1, <3>1, LimitAssumption
    <3>3. ASSUME NEW i \in Seen(resources, next) PROVE Allowed(resources[i], next.known[i])
      <4>1. CASE i = k
        BY <2>3, <3>1, <4>1
      <4>2. CASE i # k
        <5>1. i \in Seen(resources, s) /\ i \in D
          BY <2>6, <4>2 DEF Seen
        <5>. QED
          BY <2>3, <3>1, <4>2, <5>1 DEF WalkInv
      <4>. QED
        BY <4>1, <4>2
    <3>. QED
      BY <3>2, <3>3
  <2>14. WalkInv(resources, next, k)
    BY <1>3, <2>4, <2>5, <2>9, <2>10, <2>11, <2>12, <2>13 DEF WalkInv
  <2>. QED
    BY <2>14 DEF next
<1>. QED
  BY <1>5, <1>6

(* So it is after the last one.                                            *)
LEMMA WalkedInv ==
  ASSUME NEW resources, InOrder(resources)
  PROVE  WalkInv(resources, walkResources(resources), Len(resources))
<1>1. PICK g : Visiting(g, resources)
  BY VisitingExists
<1>. DEFINE n == Len(resources)
            Wrong == {k \in 0..n : ~WalkInv(resources, g[k], k)}
<1>2. n \in Nat
  BY DEF InOrder
<1>3. Wrong = {}
  <2>1. SUFFICES ASSUME Wrong # {} PROVE FALSE
    OBVIOUS
  <2>2. PICK k \in Wrong : \A j \in Nat : j < k => j \notin Wrong
    <3>1. Wrong \subseteq Nat
      BY <1>2
    <3>. HIDE DEF Wrong
    <3>. QED
      BY <2>1, <3>1, LeastExists
  <2>3. k # 0
    BY <1>1, <2>2, UntouchedInv DEF Visiting
  <2>4. k \in 1..n /\ k - 1 \in Nat /\ k - 1 < k /\ k - 1 \in 0..n
    BY <1>2, <2>2, <2>3
  <2>5. WalkInv(resources, g[k - 1], k - 1)
    BY <2>2, <2>4
  <2>6. g[k] = visit(resources, g[k - 1], k)
    BY <1>1, <2>4 DEF Visiting
  <2>7. WalkInv(resources, g[k], k)
    BY <2>4, <2>5, <2>6, VisitKeeps
  <2>. QED
    BY <2>2, <2>7
<1>. QED
  BY <1>1, <1>2, <1>3 DEF Visiting

(* What ARM makes of a template, level by level.                           *)
EntrySet(resources) == [at : 1..Len(resources), type : Path]

Leveling(level, resources) ==
  /\ level[0] = Entries(resources, "top", 0, None)
  /\ \A n \in 1..Len(resources) :
       level[n] = UNION {Below(resources, entry) : entry \in level[n - 1]}
  /\ AllResources(resources) = UNION {level[n] : n \in 0..Len(resources)}

LEMMA EntriesTyped ==
  ASSUME NEW resources, InOrder(resources), NEW within, NEW parent, NEW type \in Path
  PROVE  Entries(resources, within, parent, type) \subseteq EntrySet(resources)
<1>1. ASSUME NEW i \in DOMAIN resources
      PROVE  /\ i \in 1..Len(resources) /\ resources[i].type \in Path
             /\ type \o resources[i].type \in Path
  <2>1. i \in 1..Len(resources)
    BY DEF InOrder
  <2>2. resources[i].type \in Path
    BY <2>1, ResourceFields
  <2>. QED
    BY <2>1, <2>2 DEF Path
<1>2. SUFFICES ASSUME NEW e \in Entries(resources, within, parent, type)
                PROVE  e \in EntrySet(resources)
  OBVIOUS
<1>3. PICK i \in DOMAIN resources :
        e = [at |-> i, type |-> IF type # None /\ ~IsQualified(resources[i].type)
                                THEN type \o resources[i].type ELSE resources[i].type]
  BY <1>2 DEF Entries
<1>4. (IF type # None /\ ~IsQualified(resources[i].type)
       THEN type \o resources[i].type ELSE resources[i].type) \in Path
  BY <1>1
<1>5. i \in 1..Len(resources)
  BY <1>1
<1>. QED
  BY <1>3, <1>4, <1>5 DEF EntrySet

LEMMA BelowTyped ==
  ASSUME NEW resources, InOrder(resources), NEW entry \in EntrySet(resources)
  PROVE  Below(resources, entry) \subseteq EntrySet(resources)
<1>1. entry.type \in Path /\ None \in Path
  BY DEF EntrySet, Path, None
<1>. QED
  BY <1>1, EntriesTyped DEF Below

LEMMA LevelsExist ==
  ASSUME NEW resources, InOrder(resources)
  PROVE  \E level : Leveling(level, resources)
<1>. DEFINE n == Len(resources)
            D == 1..n
            V == SUBSET EntrySet(resources)
            order == [i \in D |-> i]
            Next2(entries) == UNION {Below(resources, entry) : entry \in entries}
            base == Entries(resources, "top", 0, None)
            f == [p \in V \X D |-> Next2(p[1])]
            Is(level) == level = [k \in 0..n |-> IF k = 0 THEN base ELSE Next2(level[k - 1])]
<1>1. n \in Nat /\ order \in Seq(D) /\ Len(order) = n
  BY DEF InOrder
<1>2. base \in V
  <2>1. None \in Path
    BY DEF None, Path
  <2>. QED
    BY <2>1, EntriesTyped
<1>3. f \in [V \X D -> V]
  <2>1. \A entries \in V : Next2(entries) \in V
    BY BelowTyped
  <2>2. \A p \in V \X D : p[1] \in V
    OBVIOUS
  <2>. HIDE DEF V, Next2
  <2>. QED
    BY <2>1, <2>2
<1>4. PICK it : FoldValues(it, V, f, base, order, n)
  <2>. HIDE DEF f, base, V, order, D, n
  <2>. QED
    BY <1>1, <1>2, <1>3, FoldExists
<1>. DEFINE lv == [k \in 0..n |-> it[1..k]]
<1>5. lv[0] = base
  <2>1. 1..0 = {} /\ 0 \in 0..n
    BY <1>1
  <2>2. it[{}] = base
    BY <1>4 DEF FoldValues
  <2>. HIDE DEF base
  <2>. QED
    BY <2>1, <2>2
<1>6. ASSUME NEW k \in D PROVE lv[k] = Next2(lv[k - 1])
  <2>1. k \in Nat /\ k # 0 /\ k \in 0..n /\ k - 1 \in 0..n
        /\ 1..k \in SUBSET D /\ 1..(k - 1) \in SUBSET D
    BY <1>1
  <2>2. 1..k # {} /\ Max(1..k) = k /\ (1..k) \ {k} = 1..(k - 1)
    BY <2>1, FirstPositions
  <2>3. it[1..k] = f[<<it[1..(k - 1)], order[k]>>] /\ it[1..(k - 1)] \in V
    <3>. HIDE DEF f, base, V, order
    <3>. QED
      BY <1>4, <2>1, <2>2 DEF FoldValues
  <2>4. order[k] \in D
    OBVIOUS
  <2>5. it[1..k] = Next2(it[1..(k - 1)])
    <3>. HIDE DEF Next2, V, order
    <3>. QED
      BY <2>3, <2>4
  <2>. HIDE DEF Next2
  <2>. QED
    BY <2>1, <2>5
<1>7. Is(lv)
  <2>1. \A k \in 0..n : lv[k] = IF k = 0 THEN base ELSE Next2(lv[k - 1])
    <3>1. \A k \in 0..n : k # 0 => k \in D
      BY <1>1
    <3>. HIDE DEF lv, base, Next2
    <3>. QED
      BY <1>5, <1>6, <3>1
  <2>2. lv = [k \in 0..n |-> lv[k]]
    OBVIOUS
  <2>. HIDE DEF lv, base, Next2
  <2>. QED
    BY <2>1, <2>2
<1>. HIDE DEF lv
<1>8. PICK level : Is(level) /\ AllResources(resources) = UNION {level[k] : k \in 0..n}
  BY <1>7 DEF AllResources
<1>9. Leveling(level, resources)
  <2>1. 0 \in 0..n /\ \A k \in D : k \in 0..n /\ k # 0
    BY <1>1
  <2>2. \A k \in 0..n : level[k] = IF k = 0 THEN base ELSE Next2(level[k - 1])
    <3>. HIDE DEF base, Next2
    <3>. QED
      BY <1>8
  <2>3. level[0] = base /\ \A k \in D : level[k] = Next2(level[k - 1])
    <3>. HIDE DEF base, Next2
    <3>. QED
      BY <2>1, <2>2
  <2>. QED
    BY <1>8, <2>3 DEF Leveling
<1>. QED
  BY <1>9

(* The type with which the walk reaches a resource is the one by which ARM *)
(* knows it.                                                               *)
Reached(resources, known) ==
  /\ known \in [1..Len(resources) -> Path]
  /\ \A i \in 1..Len(resources) : known[i] = typeReached(resources, known, i)

EntriesAt(known, places) == {[at |-> i, type |-> known[i]] : i \in places}

EntriesReached(resources, known) ==
  EntriesAt(known, {i \in 1..Len(resources) : known[i] # None})

LEMMA TopIsReached ==
  ASSUME NEW resources, InOrder(resources), NEW known, Reached(resources, known)
  PROVE  \A i \in 1..Len(resources) : resources[i].within = "top" =>
           known[i] = resources[i].type
  BY ResourceFields DEF Reached, typeReached, qualifiedType

LEMMA BelowIsReached ==
  ASSUME NEW resources, InOrder(resources), NEW known, Reached(resources, known),
         NEW p \in 1..Len(resources), known[p] # None
  PROVE  Below(resources, [at |-> p, type |-> known[p]]) =
           {[at |-> i, type |-> known[i]] :
              i \in {j \in 1..Len(resources) : /\ known[j] # None
                                             /\ resources[j].within # "top"
                                             /\ resources[j].parent = p}}
<1>. DEFINE entry == [at |-> p, type |-> known[p]]
            D == 1..Len(resources)
            kin(within) == {j \in D : resources[j].within = within /\ resources[j].parent = p}
<1>1. D = DOMAIN resources /\ known \in [D -> Path]
  BY DEF InOrder, Reached
<1>2. entry.at = p /\ entry.type = known[p]
  OBVIOUS
<1>3. Entries(resources, "resources", p, known[p]) =
        {[at |-> i, type |-> qualifiedType(resources[i].type, known[p])] : i \in kin("resources")}
  BY <1>1 DEF Entries, qualifiedType
<1>4. Entries(resources, "nested", p, None) =
        {[at |-> i, type |-> resources[i].type] : i \in kin("nested")}
  BY <1>1 DEF Entries
<1>5. ASSUME NEW i \in kin("resources")
      PROVE  known[i] = qualifiedType(resources[i].type, known[p]) /\ known[i] # None
  <2>1. known[i] = qualifiedType(resources[i].type, known[p])
    BY DEF Reached, typeReached
  <2>2. resources[i].type \in Path /\ resources[i].type # None /\ known[p] \in Path
    BY <1>1, ResourceFields
  <2>. QED
    BY <2>1, <2>2, QualifiedIsPath
<1>6. ASSUME NEW i \in kin("nested")
      PROVE  known[i] = IF known[p] = Deployment THEN resources[i].type ELSE None
  BY DEF Reached, typeReached, qualifiedType
<1>7. \A i \in kin("nested") : resources[i].type # None
  BY ResourceFields
<1>8. \A j \in D : resources[j].within # "top" <=> resources[j].within \in {"resources", "nested"}
  BY ResourceFields
<1>. DEFINE children == {j \in D : known[j] # None /\ resources[j].within # "top" /\ resources[j].parent = p}
<1>9. CASE known[p] = Deployment
  <2>1. children = kin("resources") \cup kin("nested")
    BY <1>5, <1>6, <1>7, <1>8, <1>9
  <2>2. Below(resources, entry) =
          {[at |-> i, type |-> known[i]] : i \in kin("resources")} \cup
          {[at |-> i, type |-> known[i]] : i \in kin("nested")}
    <3>. HIDE DEF kin, entry
    <3>. QED
      BY <1>2, <1>3, <1>4, <1>5, <1>6, <1>9 DEF Below
  <2>. HIDE DEF kin, children
  <2>. QED
    BY <2>1, <2>2 DEF children
<1>10. CASE known[p] # Deployment
  <2>1. children = kin("resources")
    BY <1>5, <1>6, <1>8, <1>10
  <2>2. Below(resources, entry) = {[at |-> i, type |-> known[i]] : i \in kin("resources")}
    <3>. HIDE DEF kin, entry
    <3>. QED
      BY <1>2, <1>3, <1>5, <1>10 DEF Below
  <2>. HIDE DEF kin, children
  <2>. QED
    BY <2>1, <2>2 DEF children
<1>. QED
  BY <1>9, <1>10

(* Whatever ARM makes of a template, level by level, is what the walk goes *)
(* over in its own order: nothing that is not reached is deployed,         *)
(* by the level, and nothing that is reached is not, by the place.         *)
LEMMA LevelsAreReached ==
  ASSUME NEW resources, InOrder(resources), NEW known, Reached(resources, known),
         NEW level, Leveling(level, resources)
  PROVE  \A n \in 0..Len(resources) : level[n] \subseteq EntriesReached(resources, known)
<1>. DEFINE Wrong == {n \in 0..Len(resources) : ~(level[n] \subseteq EntriesReached(resources, known))}
<1>1. SUFFICES ASSUME Wrong # {} PROVE FALSE
  OBVIOUS
<1>2. Len(resources) \in Nat /\ DOMAIN resources = 1..Len(resources)
  BY DEF InOrder
<1>3. PICK n \in Wrong : \A m \in Nat : m < n => m \notin Wrong
  <2>1. Wrong \subseteq Nat
    BY <1>2
  <2>. HIDE DEF Wrong
  <2>. QED
    BY <1>1, <2>1, LeastExists
<1>4. CASE n = 0
  <2>1. ASSUME NEW e \in level[0] PROVE e \in EntriesReached(resources, known)
    <3>1. PICK i \in 1..Len(resources) :
            /\ resources[i].within = "top"
            /\ e = [at |-> i, type |-> resources[i].type]
      BY <1>2, <2>1 DEF Leveling, Entries
    <3>2. known[i] = resources[i].type /\ resources[i].type # None
      BY <3>1, TopIsReached, ResourceFields
    <3>. QED
      BY <3>1, <3>2 DEF EntriesReached, EntriesAt
  <2>. QED
    BY <1>4, <2>1
<1>5. CASE n # 0
  <2>1. n \in 1..Len(resources) /\ n - 1 \in 0..Len(resources) /\ n - 1 \in Nat /\ n - 1 < n
    BY <1>2, <1>5
  <2>2. level[n - 1] \subseteq EntriesReached(resources, known)
    BY <1>3, <2>1
  <2>3. level[n] = UNION {Below(resources, entry) : entry \in level[n - 1]}
    BY <2>1 DEF Leveling
  <2>4. ASSUME NEW entry \in level[n - 1]
        PROVE  Below(resources, entry) \subseteq EntriesReached(resources, known)
    <3>1. PICK p \in 1..Len(resources) : known[p] # None /\ entry = [at |-> p, type |-> known[p]]
      BY <2>2, <2>4 DEF EntriesReached, EntriesAt
    <3>2. Below(resources, entry) =
            {[at |-> i, type |-> known[i]] :
               i \in {j \in 1..Len(resources) : /\ known[j] # None
                                              /\ resources[j].within # "top"
                                              /\ resources[j].parent = p}}
      BY <3>1, BelowIsReached
    <3>. QED
      BY <3>2 DEF EntriesReached, EntriesAt
  <2>5. level[n] \subseteq EntriesReached(resources, known)
    BY <2>3, <2>4
  <2>. QED
    BY <1>3, <2>5
<1>. QED
  BY <1>4, <1>5

LEMMA ReachedAreLeveled ==
  ASSUME NEW resources, InOrder(resources), NEW known, Reached(resources, known),
         NEW level, Leveling(level, resources)
  PROVE  \A i \in 1..Len(resources) : known[i] # None =>
           \E m \in 0..(i - 1) : [at |-> i, type |-> known[i]] \in level[m]
<1>. DEFINE Leveled(i) == \E m \in 0..(i - 1) : [at |-> i, type |-> known[i]] \in level[m]
            Lost == {i \in 1..Len(resources) : known[i] # None /\ ~Leveled(i)}
<1>1. SUFFICES ASSUME Lost # {} PROVE FALSE
  OBVIOUS
<1>2. Len(resources) \in Nat /\ DOMAIN resources = 1..Len(resources)
  BY DEF InOrder
<1>3. PICK i \in Lost : \A m \in Nat : m < i => m \notin Lost
  <2>1. Lost \subseteq Nat
    BY <1>2
  <2>. HIDE DEF Lost
  <2>. QED
    BY <1>1, <2>1, LeastExists
<1>4. i \in 1..Len(resources) /\ i \in Nat /\ known[i] # None /\ ~Leveled(i)
  BY <1>2, <1>3
<1>5. CASE resources[i].within = "top"
  <2>1. known[i] = resources[i].type /\ resources[i].parent = 0
    BY <1>4, <1>5, TopIsReached, ResourceFields
  <2>2. [at |-> i, type |-> known[i]] \in level[0]
    BY <1>2, <1>4, <1>5, <2>1 DEF Leveling, Entries
  <2>3. 0 \in 0..(i - 1)
    BY <1>4
  <2>. QED
    BY <1>4, <2>2, <2>3
<1>6. CASE resources[i].within # "top"
  <2>. DEFINE p == resources[i].parent
  <2>1. p \in 1..Len(resources) /\ p < i /\ p \in Nat
    BY <1>2, <1>4, <1>6, ResourceFields
  <2>2. known[p] # None
    <3>1. known[i] = typeReached(resources, known, i)
      BY <1>4 DEF Reached
    <3>2. Deployment # None
      BY DEF Deployment, None
    <3>3. resources[i].within \in {"resources", "nested"}
      BY <1>4, <1>6, ResourceFields
    <3>. QED
      BY <1>4, <3>1, <3>2, <3>3 DEF typeReached
  <2>3. Leveled(p)
    <3>. HIDE DEF Leveled
    <3>. QED
      BY <1>3, <2>1, <2>2
  <2>4. PICK m \in 0..(p - 1) : [at |-> p, type |-> known[p]] \in level[m]
    BY <2>3
  <2>5. m + 1 \in 1..Len(resources) /\ (m + 1) - 1 = m /\ m + 1 \in 0..(i - 1)
    BY <1>2, <1>4, <2>1, <2>4
  <2>6. [at |-> i, type |-> known[i]] \in Below(resources, [at |-> p, type |-> known[p]])
    <3>1. Below(resources, [at |-> p, type |-> known[p]]) =
            {[at |-> j, type |-> known[j]] :
               j \in {j \in 1..Len(resources) : /\ known[j] # None
                                              /\ resources[j].within # "top"
                                              /\ resources[j].parent = p}}
      BY <2>1, <2>2, BelowIsReached
    <3>. QED
      BY <1>4, <1>6, <3>1
  <2>7. [at |-> i, type |-> known[i]] \in level[m + 1]
    BY <2>4, <2>5, <2>6 DEF Leveling
  <2>. QED
    BY <1>4, <2>5, <2>7
<1>. QED
  BY <1>5, <1>6

LEMMA AllAreReached ==
  ASSUME NEW resources, InOrder(resources), NEW known, Reached(resources, known)
  PROVE  AllResources(resources) = EntriesReached(resources, known)
<1>1. PICK level : Leveling(level, resources)
  BY LevelsExist
<1>2. AllResources(resources) = UNION {level[n] : n \in 0..Len(resources)}
  BY <1>1 DEF Leveling
<1>3. AllResources(resources) \subseteq EntriesReached(resources, known)
  BY <1>1, <1>2, LevelsAreReached
<1>4. ASSUME NEW e \in EntriesReached(resources, known) PROVE e \in AllResources(resources)
  <2>1. PICK i \in 1..Len(resources) : known[i] # None /\ e = [at |-> i, type |-> known[i]]
    BY <1>4 DEF EntriesReached, EntriesAt
  <2>2. PICK m \in 0..(i - 1) : e \in level[m]
    BY <1>1, <2>1, ReachedAreLeveled
  <2>3. Len(resources) \in Nat /\ m \in 0..Len(resources)
    BY <2>1 DEF InOrder
  <2>. QED
    BY <1>2, <2>2, <2>3
<1>. QED
  BY <1>3, <1>4

(* There are as many entries as places.                                    *)
LEMMA OneEntryEach ==
  ASSUME NEW n \in Nat, NEW known, NEW places \in SUBSET (1..n)
  PROVE  /\ IsFiniteSet(places)
         /\ Cardinality(EntriesAt(known, places)) = Cardinality(places)
<1>. DEFINE entries == EntriesAt(known, places)
            f == [i \in places |-> [at |-> i, type |-> known[i]]]
<1>1. IsFiniteSet(places)
  <2>1. IsFiniteSet(1..n)
    BY FS_Interval
  <2>2. places \in SUBSET (1..n)
    OBVIOUS
  <2>. QED
    BY <2>1, <2>2, FS_Subset
<1>2. f \in Bijection(places, entries)
  <2>1. f \in [places -> entries]
    BY DEF EntriesAt
  <2>2. \A i, j \in places : f[i] = f[j] => i = j
    OBVIOUS
  <2>3. \A e \in entries : \E i \in places : f[i] = e
    BY DEF EntriesAt
  <2>. HIDE DEF f, entries
  <2>. QED
    BY <2>1, <2>2, <2>3 DEF Bijection, Injection, Surjection, IsInjective
<1>. HIDE DEF f, entries
<1>3. ExistsBijection(places, entries)
  BY <1>2 DEF ExistsBijection
<1>. QED
  BY <1>1, <1>3, FS_Bijection DEF entries

(* A schema names the kind of deployment that it is the schema of.         *)
LEMMA ScopeOfSchema ==
  ASSUME NEW schema \in Schemas, scopeFromSchema(schema) # "refused"
  PROVE  scopeFromSchema(schema) = schema
<1>. DEFINE places == {i \in 1..4 : SCHEMA_SCOPES[i] \in {schema, "resourceGroup"}}
<1>1. schema # "none" /\ schema \in {"subscription", "managementGroup", "tenant", "resourceGroup"}
  BY DEF scopeFromSchema, Schemas
<1>2. \A i \in 1..4 : i \in {1, 2, 3, 4}
  OBVIOUS
<1>3. /\ SCHEMA_SCOPES[1] = "subscription" /\ SCHEMA_SCOPES[2] = "managementGroup"
      /\ SCHEMA_SCOPES[3] = "tenant" /\ SCHEMA_SCOPES[4] = "resourceGroup"
  BY DEF SCHEMA_SCOPES
<1>4. scopeFromSchema(schema) = SCHEMA_SCOPES[Min(places)]
  BY <1>1 DEF scopeFromSchema
<1>5. Min(places) \in 1..4 /\ SCHEMA_SCOPES[Min(places)] = schema
  <2>1. CASE schema = "subscription"
    <3>1. places = {1, 4}
      BY <1>2, <1>3, <2>1
    <3>2. Min({1, 4}) = 1
      BY DEF Min
    <3>. QED
      BY <1>3, <2>1, <3>1, <3>2
  <2>2. CASE schema = "managementGroup"
    <3>1. places = {2, 4}
      BY <1>2, <1>3, <2>2
    <3>2. Min({2, 4}) = 2
      BY DEF Min
    <3>. QED
      BY <1>3, <2>2, <3>1, <3>2
  <2>3. CASE schema = "tenant"
    <3>1. places = {3, 4}
      BY <1>2, <1>3, <2>3
    <3>2. Min({3, 4}) = 3
      BY DEF Min
    <3>. QED
      BY <1>3, <2>3, <3>1, <3>2
  <2>4. CASE schema = "resourceGroup"
    <3>1. places = {4}
      BY <1>2, <1>3, <2>4
    <3>2. Min({4}) = 4
      BY DEF Min
    <3>. QED
      BY <1>3, <2>4, <3>1, <3>2
  <2>. QED
    BY <1>1, <2>1, <2>2, <2>3, <2>4
<1>. QED
  BY <1>4, <1>5

(* An accepted template has been inspected, at every depth.                *)
LEMMA AcceptedIsInspected ==
  ASSUME NEW t, InOrder(t.resources), t.schema \in Schemas
  PROVE  Inspected(t)
<1>. DEFINE inspection == inspectTemplate(t)
            state == walkResources(t.resources)
            all == AllResources(t.resources)
            deployments == {entry \in all : entry.type = Deployment}
            is(entry) == t.resources[entry.at]
            clean(entry) == /\ entry.type \notin DeniedTypes
                            /\ is(entry).target # "computed" /\ ~is(entry).scope /\ ~is(entry).external
            keeps(entry) == ~is(entry).linked /\ is(entry).mode # "Complete"
            seen == Seen(t.resources, state)
            nesting == Nesting(t.resources, state)
<1>1. Len(t.resources) \in Nat /\ DOMAIN t.resources = 1..Len(t.resources)
  BY DEF InOrder
<1>2. WalkInv(t.resources, state, Len(t.resources))
  BY WalkedInv
<1>3. Reached(t.resources, state.known)
  <2>1. state.known \in [1..Len(t.resources) -> Path]
    BY <1>2 DEF WalkInv, Totals
  <2>2. \A i \in 1..Len(t.resources) : i <= Len(t.resources)
    BY <1>1
  <2>. QED
    BY <1>2, <2>1, <2>2 DEF WalkInv, Reached
<1>4. all = EntriesAt(state.known, seen)
  BY <1>3, AllAreReached DEF EntriesReached, Seen
<1>5. deployments = EntriesAt(state.known, nesting)
  <2>1. Deployment # None
    BY DEF Deployment, None
  <2>2. nesting = {i \in seen : state.known[i] = Deployment}
    BY <2>1 DEF Seen, Nesting
  <2>. HIDE DEF seen, nesting, state, all
  <2>. QED
    BY <1>4, <2>2 DEF EntriesAt
<1>6. Cardinality(all) = Cardinality(seen) /\ Cardinality(deployments) = Cardinality(nesting)
  <2>1. seen \in SUBSET (1..Len(t.resources)) /\ nesting \in SUBSET (1..Len(t.resources))
    BY DEF Seen, Nesting
  <2>. HIDE DEF seen, nesting, state, all, deployments
  <2>. QED
    BY <1>1, <1>4, <1>5, <2>1, OneEntryEach
<1>7. /\ inspection.state = state
      /\ inspection.templateScope = scopeFromSchema(t.schema)
      /\ inspection.ok => /\ state.ok /\ assertNoExternalReferences(t.resources)
                          /\ scopeFromSchema(t.schema) # "refused"
  BY DEF inspectTemplate
<1>8. /\ state.resourceCount = Cardinality(seen) /\ state.nestedDeployments = Cardinality(nesting)
      /\ state.types = {state.known[i] : i \in seen}
      /\ state.crossScope = {t.resources[i].target : i \in seen} \ {"none"}
      /\ state.ok => /\ state.resourceCount <= MaxResources
                     /\ \A i \in seen : Allowed(t.resources[i], state.known[i])
  BY <1>2 DEF WalkInv
<1>9. assertNoExternalReferences(t.resources) =>
        \A i \in 1..Len(t.resources) : ~t.resources[i].external
  BY <1>1 DEF assertNoExternalReferences
<1>10. seen \subseteq 1..Len(t.resources)
  BY DEF Seen
<1>. HIDE DEF state, all, deployments, seen, nesting, inspection
<1>11. \A e \in all : \E i \in seen : e.at = i /\ e.type = state.known[i]
  BY <1>4 DEF EntriesAt
<1>12. ASSUME NEW i \in seen PROVE \E e \in all : e.at = i /\ e.type = state.known[i]
  <2>. DEFINE e == [at |-> i, type |-> state.known[i]]
  <2>1. e \in all
    BY <1>4 DEF EntriesAt
  <2>2. e.at = i /\ e.type = state.known[i]
    OBVIOUS
  <2>. HIDE DEF e
  <2>. QED
    BY <2>1, <2>2
<1>13. {e.type : e \in all} = {state.known[i] : i \in seen}
  BY <1>11, <1>12
<1>14. {is(e).target : e \in all} = {t.resources[i].target : i \in seen}
  BY <1>11, <1>12
<1>15. inspection.ok => \A i \in seen : /\ Allowed(t.resources[i], state.known[i])
                                      /\ ~t.resources[i].external
  BY <1>7, <1>8, <1>9, <1>10
<1>16. inspection.ok => \A e \in all : clean(e) /\ (e.type = Deployment => keeps(e))
  BY <1>11, <1>15 DEF Allowed
<1>. HIDE DEF clean, keeps
<1>17. \A e \in deployments : e \in all /\ e.type = Deployment
  BY DEF deployments
<1>18. inspection.ok => inspection.templateScope = t.schema
  BY <1>7, ScopeOfSchema
<1>19. /\ state.resourceCount = Cardinality(all) /\ state.nestedDeployments = Cardinality(deployments)
       /\ state.types = {e.type : e \in all}
       /\ state.crossScope = {is(e).target : e \in all} \ {"none"}
  BY <1>6, <1>8, <1>13, <1>14
<1>20. inspection.ok => Cardinality(all) <= MaxResources
  BY <1>7, <1>8, <1>19
<1>21. inspection.ok => (\A e \in all : clean(e)) /\ (\A e \in deployments : keeps(e))
  BY <1>16, <1>17
<1>22. inspection.ok =>
         /\ inspection.state.resourceCount = Cardinality(all)
         /\ inspection.state.nestedDeployments = Cardinality(deployments)
         /\ inspection.state.types = {e.type : e \in all}
         /\ inspection.state.crossScope = {is(e).target : e \in all} \ {"none"}
  BY <1>7, <1>19
<1>. HIDE DEF is
<1>23. inspection.ok =>
         /\ inspection.state.resourceCount = Cardinality(all)
         /\ inspection.state.nestedDeployments = Cardinality(deployments)
         /\ inspection.state.types = {e.type : e \in all}
         /\ inspection.state.crossScope = {is(e).target : e \in all} \ {"none"}
         /\ inspection.templateScope = t.schema
         /\ Cardinality(all) <= MaxResources
         /\ \A e \in all : clean(e)
         /\ \A e \in deployments : keeps(e)
  BY <1>18, <1>20, <1>21, <1>22
<1>. QED
  BY <1>23 DEF Inspected, inspection, all, deployments, is, clean, keeps

(* Of every template, whatever its resources, as deep as they are nested:  *)
(* an accepted one has been inspected whole (inspectTemplate,              *)
(* walkResources).                                                         *)
THEOREM TemplatesAreInspected ==
  BundleInit /\ [][Examine]_source => []InspectionIsComplete
<1>. DEFINE Inv == SourceIs("template") => source.template \in Templates
<1>1. BundleInit => Inv
  BY DEF BundleInit, SourceIs
<1>2. Inv /\ [Examine]_source => Inv'
  BY DEF Examine, ExamineBundle, ExamineTemplate, SourceIs
<1>3. Inv => InspectionIsComplete
  <2>. SUFFICES ASSUME Inv, SourceIs("template") PROVE Inspected(source.template)
    BY DEF InspectionIsComplete
  <2>1. source.template \in Templates
    OBVIOUS
  <2>2. source.template.schema \in Schemas /\ InOrder(source.template.resources)
    BY <2>1, TemplateAssumption DEF InOrder
  <2>. QED
    BY <2>2, AcceptedIsInspected
<1>. QED
  BY <1>1, <1>2, <1>3, PTL
=============================================================================
