---------------------------- MODULE BundlePolicy ----------------------------
(***************************************************************************)
(* What the server accepts to compile: the normal form of a bundle's paths *)
(* and its module and file references (src/bicep/bundle.ts, modules.ts).   *)
(* The only step is to be given a bundle.                                  *)
(***************************************************************************)
EXTENDS Naturals, FiniteSets, SequencesExt

CONSTANTS
  Bundles,        (* the bundles that are examined                         *)
  MaxPathDepth,   (* a limit of the bundle                                 *)
  Registries      (* allow-listed registries; none: remote modules are off *)

None == <<>>

(* A path, of a file or of what it loads, as the segments between slashes. *)
Segment == STRING
Path == Seq(Segment)

ASSUME BundleAssumption ==
  \A bundle \in Bundles :
    /\ bundle.mainFile \in Path
    /\ bundle.files \in Seq([path : Path, loads : SUBSET Path, modules : SUBSET Segment])

VARIABLE source

-----------------------------------------------------------------------------
(* Paths are sequences of segments, whose names stand for their kinds:     *)
(* "m" is x.bicep, "M" is X.bicep and "B" is x.BICEP, "t" a text file, "a" *)
(* a name without an extension, "con" a device.                            *)
(* The segments in Here mean the directory they are in, Up the one above.  *)
Here == {"", "."}
Up == ".."

Lower(name) == IF name \in {"M", "B"} THEN "m" ELSE name
LowerPath(path) == [i \in DOMAIN path |-> Lower(path[i])]

(* endsWith('.bicep'), which minds the case.                               *)
IsBicep(path) == Last(path) \in {"m", "M"}

(* The path without its empty and "." segments.                            *)
cleanedPath(path) ==
  FoldLeft(LAMBDA kept, segment :
             IF segment \in Here THEN kept ELSE Append(kept, segment),
           None, path)

(* normalizeBundlePath: the cleaned path, or None for a path that is       *)
(* refused.  Its extension is compared in lower case.                      *)
normalizeBundlePath(path) ==
  LET cleaned == cleanedPath(path) IN
  IF \/ path = None \/ Head(path) = "" \/ Up \in ToSet(path)
     \/ cleaned = None \/ Len(cleaned) > MaxPathDepth
     \/ "con" \in ToSet(cleaned)
     \/ Lower(Last(cleaned)) \notin {"m", "t"}
  THEN None ELSE cleaned

(* normalizeBundle: every file's path in its normal form, no two of which  *)
(* differ in case only, and among them, but for its case, the main file, a *)
(* .bicep template.                                                        *)
normalizeBundle(bundle) ==
  LET paths == [i \in DOMAIN bundle.files |-> normalizeBundlePath(bundle.files[i].path)]
      main == normalizeBundlePath(bundle.mainFile)
      seen == {LowerPath(paths[i]) : i \in DOMAIN paths}
      ok == /\ paths # None
            /\ None \notin ToSet(paths)
            /\ Cardinality(seen) = Len(paths)
            /\ main # None /\ IsBicep(main) /\ LowerPath(main) \in seen
  IN [ok |-> ok,
      files |-> [i \in DOMAIN paths |-> [bundle.files[i] EXCEPT !.path = paths[i]]]]

(* Deviation: ".." at the root of the bundle stays there.                  *)
resolveClamped(fromFile, relative) ==
  FoldLeft(LAMBDA segments, segment :
             IF segment \in Here THEN segments
             ELSE IF segment = Up THEN IF segments = None THEN None ELSE Front(segments)
             ELSE Append(segments, segment),
           Front(fromFile), relative)

(* One segment further; left, once the path has gone above the bundle.     *)
Walk(at, segment) ==
  IF at.left \/ segment \in Here THEN at
  ELSE IF segment # Up THEN [at EXCEPT !.segments = Append(@, segment)]
  ELSE IF at.segments = None THEN [at EXCEPT !.left = TRUE]
  ELSE [at EXCEPT !.segments = Front(@)]

(* resolveWithinBundle: None when the path leaves the bundle, be it only   *)
(* on the way.                                                             *)
resolveWithinBundle(fromFile, relative) ==
  LET end == FoldLeft(Walk, [segments |-> Front(fromFile), left |-> FALSE], relative)
  IN IF end.left THEN None ELSE end.segments

(* assertModuleReferencesAllowed: a remote reference of a .bicep file is a *)
(* registry's host, or "alias" or "ts", which never pass.                  *)
assertModuleReferencesAllowed(files) ==
  \A i \in DOMAIN files : IsBicep(files[i].path) => files[i].modules \subseteq Registries

(* assertFileLoadsAllowed: every file that a .bicep file loads is named by *)
(* a literal path, and is in the bundle.  A computed path is None.         *)
assertFileLoadsAllowed(files) ==
  LET present == {LowerPath(files[i].path) : i \in DOMAIN files} IN
  \A i \in DOMAIN files : IsBicep(files[i].path) =>
    \A target \in files[i].loads :
      /\ target # None
      /\ LowerPath(resolveWithinBundle(files[i].path, target)) \in present

acceptBundle(bundle) ==
  LET normalized == normalizeBundle(bundle) IN
  /\ normalized.ok
  /\ assertModuleReferencesAllowed(normalized.files)
  /\ assertFileLoadsAllowed(normalized.files)

-----------------------------------------------------------------------------
SourceIs(kind) == kind \in DOMAIN source

BundleInit == source = [nothing |-> None]

ExamineBundle ==
  /\ SourceIs("nothing")
  /\ source' \in [bundle : Bundles]

-----------------------------------------------------------------------------
(* The directory the bundle is written to.                                 *)
Root == <<"root">>

(* Where the file system finds a relative path (the compiler refuses any   *)
(* other): from the directory of the file, below that of the bundle.       *)
FileSystem(fromFile, relative) ==
  FoldLeft(LAMBDA at, segment :
             IF segment \in Here THEN at
             ELSE IF segment = Up THEN IF at = None THEN None ELSE Front(at)
             ELSE Append(at, segment),
           Root \o Front(fromFile), relative)

(* What the files of an accepted bundle load that are named .bicep in      *)
(* lower case is, where the file system will look for it, a file of the    *)
(* bundle; all its paths are in their normal form already, and no two of   *)
(* them are one file to a file system that ignores case (normalizeBundle,  *)
(* assertFileLoadsAllowed).  A file with the extension in another case is  *)
(* accepted and not examined; the paths of local modules are not either.   *)
BundleIsClosed ==
  SourceIs("bundle") /\ acceptBundle(source.bundle) =>
    LET files == normalizeBundle(source.bundle).files IN
    \A i \in DOMAIN files :
      /\ normalizeBundlePath(files[i].path) = files[i].path
      /\ \A j \in DOMAIN files : LowerPath(files[i].path) = LowerPath(files[j].path) => i = j
      /\ IsBicep(files[i].path) =>
           \A target \in files[i].loads : \E j \in DOMAIN files :
             LowerPath(FileSystem(files[i].path, target)) = LowerPath(Root \o files[j].path)
=============================================================================
