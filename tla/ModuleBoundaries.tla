-------------------------- MODULE ModuleBoundaries --------------------------
(***************************************************************************)
(* The structural gate of the repository (scripts/module-boundaries.mjs):  *)
(* a registry says which roots exist, what they export, which root may     *)
(* depend on which and which layer may not import which, and the check     *)
(* compares it with the manifests, the sources and their imports.          *)
(*                                                                         *)
(* The working tree `ws' is a record of sets, edited one item at a time.   *)
(* Registry:                                                               *)
(*   active     [path, ecosystem, packageName, kind]   reserved   paths    *)
(*   exports    <<path, subpath>>        edges      <<path, path>>         *)
(*   rules      [root, prefix, layer]    forbidden  <<layer, layer>>       *)
(*   inventory  [kind, root, files]                                        *)
(*   pymodules  <<module, layer>>        pyallowed  <<layer, layer>>       *)
(*   exceptions [from, to, names]                                          *)
(* Tree:                                                                   *)
(*   manifests  [path, ecosystem, name]  targets    [root, subpath, file]  *)
(*   deps       <<path, packageName>>    workspaces paths                  *)
(*   owners     rules of CODEOWNERS      files      [root, path, code]     *)
(*   imports    [from, spec]             aliases    [root, spec, file]:    *)
(*       declarations and calls              names that the paths or the   *)
(*       that collectSpecifiers sees,        baseUrl of tsconfig.json      *)
(*       not types import("x").T             lead to a file                *)
(*   pyfiles    modules                  pyedges    [source, target,       *)
(*                                                   names, dynamic]       *)
(* Paths of files, prefixes of layers and Python modules are sequences of  *)
(* names.  A specifier is [kind |-> "path", file], [kind |-> "name", name, *)
(* subpath] or [kind |-> "loader"], any construct whose target the parser  *)
(* cannot read (require, node:module, getBuiltinModule, import(e)).        *)
(***************************************************************************)
EXTENDS Integers, FiniteSets, Sequences, SequencesExt, FiniteSetsExt

CONSTANTS FirstTree,      \* the tree the edits start from
          Editable,       \* kinds of edits: field of the tree -> items that an
                          \* edit adds or removes, and the bound on them
          Internal,       \* package names under @trax-os/
          DefaultOwner,   \* the repository-wide rule of CODEOWNERS
          Ignored,        \* ignoredDirectoryNames
          PyPackage       \* the Python package, a sequence of one name

\* What the tree may hold in a field.
Items(f) == FirstTree[f] \cup UNION {k.edits[f] : k \in {x \in Editable : f \in DOMAIN x.edits}}

ASSUME TreeAssumption ==
    /\ {"pyedges", "pymodules"} \subseteq DOMAIN FirstTree
    /\ \A e \in Items("pyedges") : e.target \in Seq(STRING)
    /\ \A m \in Items("pymodules") : m = <<m[1], m[2]>>

VARIABLES ws,             \* the working tree
          verdict         \* of the last check since the last edit

gateVars == <<ws, verdict>>

Unresolved == [root |-> "nowhere", path |-> <<>>, code |-> FALSE]

Unique(S, key(_)) == \A x, y \in S : key(x) = key(y) => x = y

----------------------------------------------------------------------------
(* The registry by itself.                                                 *)

\* Depth-first search: what is finished after visiting n, unless a cycle
\* was met; the edges lead from nodes to nodes.
assertAcyclic(nodes, E) ==
    LET States == [cyclic : BOOLEAN, visited : SUBSET nodes]
        visit[n \in nodes, visiting \in SUBSET nodes, seen \in States] ==
            IF seen.cyclic THEN seen
            ELSE IF n \in visiting THEN [seen EXCEPT !.cyclic = TRUE]
            ELSE IF n \in seen.visited THEN seen
            ELSE LET below == FoldSet(LAMBDA m, s : visit[m, visiting \cup {n}, s],
                                      seen, {e[2] : e \in {x \in E : x[1] = n}})
                 IN  [below EXCEPT !.visited = @ \cup {n}]
    IN  ~FoldSet(LAMBDA n, s : visit[n, {}, s], [cyclic |-> FALSE, visited |-> {}], nodes).cyclic

Paths(w)       == {a.path : a \in w.active}
NpmRoots(w)    == {a \in w.active : a.ecosystem = "npm"}
OfKind(w, k)   == {a \in w.active : a.kind = k}

RootsValid(w) ==
    /\ Unique(w.active, LAMBDA a : a.path)
    /\ Unique(w.active, LAMBDA a : a.packageName)
    /\ Cardinality({a \in w.active : a.ecosystem = "python"}) = 1
    /\ \A x \in w.exports : \A a \in w.active :
           a.path = x[1] => a.ecosystem = "npm"
    /\ w.reserved \cap Paths(w) = {}

EdgesValid(w) ==
    /\ \A e \in w.edges : {e[1], e[2]} \subseteq Paths(w) /\ e[1] # e[2]
    /\ assertAcyclic(Paths(w), w.edges)

LayersValid(w) ==
    LET layers == {r.layer : r \in w.rules}
    IN  /\ Unique(w.rules, LAMBDA r : <<r.root, r.prefix>>)
        /\ \A r \in w.rules : r.root \in Paths(w)
        /\ \A e \in w.forbidden : {e[1], e[2]} \subseteq layers

InventoriesValid(w) ==
    \A v \in w.inventory : {a.path : a \in OfKind(w, v.kind)} = {v.root}
                           /\ Cardinality(OfKind(w, v.kind)) = 1

PythonValid(w) ==
    LET layers  == {m[2] : m \in w.pymodules}
        modules == {m[1] : m \in w.pymodules}
    IN  /\ Unique(w.pymodules, LAMBDA m : m[1])
        /\ \A m \in modules : IsPrefix(PyPackage, m)
        /\ \A e \in w.pyallowed : {e[1], e[2]} \subseteq layers
        /\ Unique(w.exceptions, LAMBDA x : <<x.from, x.to>>)
        /\ \A x \in w.exceptions : {x.from, x.to} \subseteq modules /\ x.names # {}

validateRegistry(w) ==
    RootsValid(w) /\ EdgesValid(w) /\ LayersValid(w)
    /\ InventoriesValid(w) /\ PythonValid(w)

----------------------------------------------------------------------------
(* The registry against the manifests.                                     *)

HasManifest(w, a) ==
    \E m \in w.manifests : /\ m.path = a.path
                           /\ m.ecosystem = a.ecosystem
                           /\ m.name = a.packageName

ExportsMatch(w, a) ==
    /\ {t.subpath : t \in {x \in w.targets : x.root = a.path}}
         = {x[2] : x \in {y \in w.exports : y[1] = a.path}}
    /\ \A t \in w.targets :
           t.root = a.path => t.file \in w.files /\ t.file.root = a.path

DependenciesAllowed(w, a) ==
    \A d \in w.deps :
        (d[1] = a.path /\ d[2] \in Internal) =>
            \E t \in NpmRoots(w) : /\ t.packageName = d[2]
                                   /\ t.path # a.path
                                   /\ <<a.path, t.path>> \in w.edges

ManifestsRegistered(w) ==
    \A m \in w.manifests :
        \E a \in w.active : a.path = m.path /\ a.ecosystem = m.ecosystem

verifyRoots(w) ==
    /\ w.owners = {DefaultOwner}
    /\ \A a \in w.active : HasManifest(w, a)
    /\ \A a \in NpmRoots(w) : ExportsMatch(w, a) /\ DependenciesAllowed(w, a)
    /\ \A m \in w.manifests : m.path \notin w.reserved
    /\ ManifestsRegistered(w)
    /\ w.workspaces = {a.path : a \in NpmRoots(w)}

----------------------------------------------------------------------------
(* The registry against the TypeScript sources.                            *)

RulesFor(w, f) ==
    {r \in w.rules : r.root = f.root /\ IsPrefix(r.prefix, f.path)}

\* The layer of the longest prefix; f has a rule.
classifyLayer(w, f) ==
    (CHOOSE r \in RulesFor(w, f) :
        \A q \in RulesFor(w, f) : Len(q.prefix) <= Len(r.prefix)).layer

walkFiles(w, root, ignored) ==
    {f \in w.files : f.root = root /\ ToSet(f.path) \cap ignored = {}}

SourceFiles(w) ==
    {f \in UNION {walkFiles(w, a.path, Ignored) : a \in NpmRoots(w)} : f.code}

AliasOf(w, i) == {x \in w.aliases : x.root = i.from.root /\ x.spec = i.spec}

\* ts.resolveModuleName: a configured path first, then the export of the
\* workspace's package.
Resolution(w, i) ==
    LET named == {t \in w.targets :
                    /\ t.subpath = i.spec.subpath
                    /\ \E m \in w.manifests :
                           m.path = t.root /\ m.name = i.spec.name}
    IN  IF i.spec.kind = "path" THEN i.spec.file
        ELSE IF AliasOf(w, i) # {} THEN (CHOOSE x \in AliasOf(w, i) : TRUE).file
        ELSE IF named # {} THEN (CHOOSE t \in named : TRUE).file
        ELSE Unresolved

inspectPathTarget(w, i, target) ==
    /\ target \in w.files
    /\ target.root = i.from.root
    /\ target.code => target \in SourceFiles(w)
    /\ target \in SourceFiles(w) =>
         <<classifyLayer(w, i.from), classifyLayer(w, target)>> \notin w.forbidden

\* Mutant: the resolved file of a trusted package name is not looked at.
NotShadowed_Unchecked(w, i, target) == TRUE

NotShadowed(w, i, target) ==
    (Resolution(w, i) # Unresolved /\ <<target.path, i.spec.subpath>> \in w.exports)
        => \E t \in w.targets : /\ t.root = target.path
                                /\ t.subpath = i.spec.subpath
                                /\ t.file = Resolution(w, i)

PackageImportAllowed(w, i) ==
    \E target \in NpmRoots(w) :
        /\ target.packageName = i.spec.name
        /\ NotShadowed(w, i, target)
        /\ target.path # i.from.root =>
              /\ <<i.from.root, i.spec.name>> \in w.deps
              /\ <<i.from.root, target.path>> \in w.edges
        /\ <<target.path, i.spec.subpath>> \in w.exports

\* A name that is not internal: a library, unless a configured path takes it.
AliasImportAllowed(w, i) ==
    AliasOf(w, i) # {} => inspectPathTarget(w, i, Resolution(w, i))

\* Imports are literal specifiers: a source with a loader (require, module,
\* getBuiltinModule) or a computed target fails before its imports are judged.
collectSpecifiers(w, f) ==
    \A i \in w.imports : i.from = f => i.spec.kind # "loader"

ImportAllowed(w, i) ==
    IF i.spec.kind = "path" THEN inspectPathTarget(w, i, i.spec.file)
    ELSE IF i.spec.name \in Internal THEN PackageImportAllowed(w, i)
    ELSE AliasImportAllowed(w, i)

InventoriesExact(w) ==
    \A v \in w.inventory :
        {f.path : f \in walkFiles(w, v.root, {"node_modules"})} = v.files

verifyTypeScript(w) ==
    /\ \A f \in SourceFiles(w) : RulesFor(w, f) # {} /\ collectSpecifiers(w, f)
    /\ \A i \in w.imports : i.from \in SourceFiles(w) => ImportAllowed(w, i)
    /\ InventoriesExact(w)

----------------------------------------------------------------------------
(* The registry against the Python sources.                                *)

Configured(w) == {m[1] : m \in w.pymodules}
LayerOf(w, m) == (CHOOSE x \in w.pymodules : x[1] = m)[2]

\* The longest part of a dotted name that is in S, itself or a package of it.
Climb(S, name) ==
    LET owners == {n \in 1..Len(name) : SubSeq(name, 1, n) \in S}
    IN  IF owners = {} THEN <<>> ELSE SubSeq(name, 1, Max(owners))

\* Mutant: files without a classification are left to the import check.
ModulesClassified_StaleOnly(w) == Configured(w) \subseteq w.pyfiles

ModulesClassified(w) == Configured(w) = w.pyfiles

LayerAllowed(w, e) ==
    <<LayerOf(w, e.source), LayerOf(w, Climb(Configured(w), e.target))>>
        \in w.pyallowed

ExceptionFor(w, e) ==
    {x \in w.exceptions : x.from = e.source /\ x.to = Climb(Configured(w), e.target)}

verifyPython(w) ==
    /\ ModulesClassified(w)
    /\ \A e \in w.pyedges :
          /\ e.source \in Configured(w)
          /\ Climb(Configured(w), e.target) # <<>>
          /\ \/ LayerAllowed(w, e)
             \/ \E x \in ExceptionFor(w, e) : ~e.dynamic /\ e.names = x.names
    /\ \A x \in w.exceptions :
          \E e \in w.pyedges : x \in ExceptionFor(w, e) /\ ~LayerAllowed(w, e)

----------------------------------------------------------------------------
runModuleBoundaryCheck(w) ==
    /\ validateRegistry(w)
    /\ verifyRoots(w)
    /\ verifyTypeScript(w)
    /\ verifyPython(w)

GateInit == ws = FirstTree /\ verdict = "unchecked"

Check ==
    /\ verdict = "unchecked"
    /\ verdict' = IF runModuleBoundaryCheck(ws) THEN "consistent" ELSE "failed"
    /\ UNCHANGED ws

Flip(S, x) == IF x \in S THEN S \ {x} ELSE S \cup {x}

Changes(w, first, fields) == UNION {{f} \X SymDiff(w[f], first[f]) : f \in fields}

\* Somebody edits the tree: at most max differences from the start, all of one
\* kind.
EditTree ==
    LET first == FirstTree IN
    \E k \in Editable :
        LET done == Changes(ws, first, DOMAIN first) IN
        /\ \A c \in done : c[1] \in DOMAIN k.edits
        /\ \E f \in DOMAIN k.edits : \E x \in k.edits[f] :
              /\ Cardinality(done \cup {<<f, x>>}) <= k.max
              /\ ws' = [ws EXCEPT ![f] = Flip(@, x)]
        /\ verdict' = "unchecked"

GateNext == Check \/ EditTree

GateSpec == GateInit /\ [][GateNext]_gateVars

----------------------------------------------------------------------------
(* What a consistent tree promises.                                        *)

\* Where an import of a source really arrives, and from where to where the
\* roots depend on each other.
Landing(w, i) ==
    IF i.spec.kind = "loader" THEN Unresolved ELSE Resolution(w, i)

Landed(w) == {i \in w.imports : i.from \in SourceFiles(w) /\ Landing(w, i) \in w.files}

Depends(w) == {<<i.from.root, Landing(w, i).root>> : i \in Landed(w)}

\* No set of roots depends on itself, stated without a search: in every set
\* of roots one has no import into another of the set.
RootsAcyclic(w) ==
    \A S \in SUBSET Paths(w) :
        S # {} => \E r \in S : \A s \in S \ {r} : <<r, s>> \notin Depends(w)

\* A root is entered only through its exports, at a file it publishes, over a
\* declared dependency of the manifest.
EntersThroughExports(w) ==
    \A i \in Landed(w) :
        LET t == Landing(w, i)
        IN  t.root # i.from.root =>
                \E x \in w.targets, m \in w.manifests :
                    /\ x.root = t.root /\ x.file = t
                    /\ <<t.root, x.subpath>> \in w.exports
                    /\ m.path = t.root /\ <<i.from.root, m.name>> \in w.deps

\* Within the web application a feature or a repository interface reaches no
\* concrete adapter by a relative path or a configured name.  The layers of an
\* import by the name of a package are not compared, so that an adapter which
\* the application itself exports is in reach of its features.
AdaptersHidden(w) ==
    \A i \in {j \in Landed(w) : j.spec.kind = "path" \/ j.spec.name \notin Internal} :
        LET t == Landing(w, i)
        IN  ~(/\ Len(i.from.path) > 2 /\ Len(t.path) > 2
              /\ i.from.path[2] \in {"features", "repositories"}
              /\ t.path[2] = "adapters")

(***************************************************************************)
(* In a tree that the check calls consistent, whatever name or configured  *)
(* path an import uses and wherever it really arrives: "root dependency    *)
(* cycles" are rejected and roots are entered as published; and adapters   *)
(* are hidden from relative and configured imports.                        *)
(***************************************************************************)
ImportsKeepBoundaries ==
    verdict = "consistent" =>
        RootsAcyclic(ws) /\ EntersThroughExports(ws) /\ AdaptersHidden(ws)

(***************************************************************************)
(* Python: the module an import really arrives at (the longest part of its *)
(* name that is a file) has a layer the importer may use, or an exception  *)
(* names the import exactly.                                               *)
(***************************************************************************)
PythonLayersHold ==
    verdict = "consistent" =>
        \A e \in ws.pyedges :
            LET m == Climb(ws.pyfiles, e.target)
            IN  \E l, k \in {x[2] : x \in ws.pymodules} :
                  /\ <<e.source, l>> \in ws.pymodules /\ <<m, k>> \in ws.pymodules
                  /\ \/ <<l, k>> \in ws.pyallowed
                     \/ \E x \in ws.exceptions :
                          /\ x.from = e.source /\ x.to = m
                          /\ x.names = e.names /\ ~e.dynamic

(***************************************************************************)
(* Not so, although docs/architecture/MODULE_AND_PACKAGE_BOUNDARIES.md     *)
(* says it: "feature or repository interface -> concrete adapter forbidden"*)
(* (80) and "generated metadata cannot import maintained client runtime"   *)
(* (85).  The layers of an import by package name are not compared, and    *)
(* the package's own name is one.                                          *)
(***************************************************************************)
LayersHoldForEveryName ==
    verdict = "consistent" =>
        \A i \in Landed(ws) :
            Landing(ws, i) \in SourceFiles(ws) =>
                <<classifyLayer(ws, i.from), classifyLayer(ws, Landing(ws, i))>> \notin ws.forbidden
============================================================================
