---------------------------- MODULE ModuleWiring ----------------------------
(***************************************************************************)
(* modulegen (internal/cmd/modulegen/main.go): how the constructors and    *)
(* the instances of business modules are matched with the fields of        *)
(* Application, and which modules generatedModules() mounts.  A type       *)
(* expression is [ptr, sel, name]: *sel.name, with sel = "" for a type     *)
(* that is written without a package and sel = "[]" for every form that    *)
(* typeKey does not know.                                                  *)
(***************************************************************************)
EXTENDS FiniteSets, SequencesExt

CONSTANTS Trees,        \* the source trees looked at: [imports, fields, dirs]
          Root,         \* import path of internal/modules
          AppPath,      \* import path of internal/app
          Base,         \* the last element of every import path
          PackageName   \* the name the package at that path declares

VARIABLES tree,     \* the sources of this run
          entries,  \* the directory entries not yet looked at, by name
          specs,    \* the modules found
          mounted,  \* what generatedModules() returns, once generated
          wiring    \* "inspecting", "done" or "failed"

wiringVars == <<tree, entries, specs, mounted, wiring>>
-----------------------------------------------------------------------------
\* importPaths: an import without a name is known by the last element of its path.
\* Broken variant: names given to imports are not looked at.
Alias_Base(import) == Base[import.path]
Alias(import) == IF import.as = "" THEN Base[import.path] ELSE import.as

\* A later import of the same name takes the place of an earlier one.
PathOf(imports, alias) ==
  LET named == {k \in DOMAIN imports : Alias(imports[k]) = alias}
  IN  IF named = {} THEN "" ELSE imports[Max(named)].path

Key(ptr, path, name) == [ptr |-> ptr, path |-> path, name |-> name]

Supported(type, imports) == type.sel = "" \/ PathOf(imports, type.sel) # ""

\* Broken variant: a value and a pointer to it are the same dependency.
TypeKey_AnyPointer(type, imports) ==
  Key(TRUE, IF type.sel = "" THEN "" ELSE PathOf(imports, type.sel), type.name)
TypeKey(type, imports) ==
  Key(type.ptr, IF type.sel = "" THEN "" ELSE PathOf(imports, type.sel), type.name)

\* Embedded fields have no name and are not recorded.
ApplicationFields(key) ==
  {f \in tree.fields : /\ f.name # "" /\ Supported(f.type, tree.imports)
                       /\ TypeKey(f.type, tree.imports) = key}

Interfaces == {"Module", "HTTPModule", "GRPCModule"}

AssertedModules(package) ==
  UNION {{a \in file.asserts : PathOf(file.imports, a.sel) = Root /\ a.interface \in Interfaces}
          : file \in package.files}

\* A type written without a package is looked for among the types of the package
\* app first, and then among those of the module.
Dependency(type, file, module) ==
  LET key == TypeKey(type, file.imports)
  IN  IF key.path = "" /\ ApplicationFields(key) = {}
      THEN ApplicationFields(Key(key.ptr, module, key.name))
      ELSE ApplicationFields(key)

Single(set) == \E x \in set : set = {x}

Satisfied(type, file, module) == /\ Supported(type, file.imports)
                                 /\ Single(Dependency(type, file, module))

FieldName(fields) == (CHOOSE f \in fields : TRUE).name
-----------------------------------------------------------------------------
WiringStart(sources) ==
  /\ tree \in sources
  /\ entries = tree.dirs /\ specs = <<>> /\ mounted = <<>>
  /\ wiring = "inspecting"

WiringInit == WiringStart(Trees)

WiringFails == wiring' = "failed" /\ UNCHANGED <<tree, entries, specs, mounted>>

Pass == entries' = Tail(entries) /\ UNCHANGED <<tree, specs, mounted, wiring>>

Add(package, dir, instance, arguments) ==
  IF package.name = "modules" \/ \E s \in ToSet(specs) : s.alias = package.name
  THEN WiringFails
  ELSE /\ specs' = Append(specs,
            [path |-> dir.path, alias |-> package.name,
             instance |-> instance, arguments |-> arguments,
             http |-> \E a \in AssertedModules(package) : a.interface # "GRPCModule",
             grpc |-> \E a \in AssertedModules(package) : a.interface = "GRPCModule"])
       /\ entries' = Tail(entries)
       /\ UNCHANGED <<tree, mounted, wiring>>

\* The first constructor of that result decides; the files are the values of a map.
Construct(package, dir, implementation) ==
  LET constructors(file) == {new \in file.news : new.result = implementation}
  IN  \/ (\A file \in package.files : constructors(file) = {}) /\ WiringFails
      \/ \E file \in package.files : \E new \in constructors(file) :
           IF \A j \in DOMAIN new.params : Satisfied(new.params[j], file, dir.path)
           THEN Add(package, dir, "",
                    [j \in DOMAIN new.params |->
                       FieldName(Dependency(new.params[j], file, dir.path))])
           ELSE WiringFails

InspectPackage(package, dir) ==
  LET implementations == {a.type : a \in AssertedModules(package)}
  IN  \/ implementations = {} /\ Pass
      \/ implementations # {} /\ ~Single(implementations) /\ WiringFails
      \/ \E type \in implementations :
           /\ implementations = {type}
           /\ LET own == ApplicationFields(Key(TRUE, dir.path, type))
              IN  \/ own = {} /\ Construct(package, dir, type)
                  \/ Single(own) /\ Add(package, dir, FieldName(own), <<>>)
                  \/ own # {} /\ ~Single(own) /\ WiringFails

\* inspectModule returns from its loop over a map of packages at the first of them.
Inspect ==
  /\ wiring = "inspecting" /\ entries # <<>>
  /\ LET dir == Head(entries)
     IN  IF dir.hidden \/ dir.packages = {}
         THEN Pass
         ELSE \E package \in dir.packages : InspectPackage(package, dir)

\* What is written appends a module at most once to each list, in the order of specs.
MountAll ==
  /\ wiring = "inspecting" /\ entries = <<>>
  /\ mounted' = [http |-> {k \in DOMAIN specs : specs[k].http},
                 grpc |-> {k \in DOMAIN specs : specs[k].grpc}]
  /\ wiring' = "done"
  /\ UNCHANGED <<tree, entries, specs>>

WiringNext == Inspect \/ MountAll

WiringSpec == WiringInit /\ [][WiringNext]_wiringVars
-----------------------------------------------------------------------------
\* What Go makes of the same sources: an import without a name is known by the name
\* of its package, and a type without a package belongs to the package it is in.
GoName(import) == IF import.as = "" THEN PackageName[import.path] ELSE import.as

GoPath(imports, sel) ==
  LET named == {k \in DOMAIN imports : GoName(imports[k]) = sel}
  IN  IF named = {} THEN "" ELSE imports[Max(named)].path

GoType(type, imports, own) ==
  Key(type.ptr, IF type.sel = "" THEN own ELSE GoPath(imports, type.sel), type.name)

FieldsOfType(key) == {f \in tree.fields : /\ f.name # "" /\ f.type.sel # "[]"
                                          /\ GoType(f.type, tree.imports, AppPath) = key}

GoAsserts(package) ==
  UNION {{a \in file.asserts : GoPath(file.imports, a.sel) = Root /\ a.interface \in Interfaces}
          : file \in package.files}

\* One module: its directory holds one package.
ModuleDirs == {dir \in ToSet(tree.dirs) : ~dir.hidden /\ Single(dir.packages)}
ThePackage(dir) == CHOOSE p \in dir.packages : TRUE
HasCapability(dir, interfaces) ==
  \E a \in GoAsserts(ThePackage(dir)) : a.interface \in interfaces

\* A type of the module that has the name of a type of the package app.
Shadowed(type) == /\ type.sel = ""
                  /\ \E f \in tree.fields : f.type.sel = "" /\ f.type.name = type.name

RightArguments(spec, dir) ==
  \E file \in ThePackage(dir).files : \E new \in file.news :
    /\ DOMAIN spec.arguments = DOMAIN new.params
    /\ \A j \in DOMAIN new.params :
         \/ Shadowed(new.params[j])
         \/ {spec.arguments[j]} =
               {f.name : f \in FieldsOfType(GoType(new.params[j], file.imports, dir.path))}

WiredRight(spec, dir) ==
  \/ \E a \in GoAsserts(ThePackage(dir)) :
       {spec.instance} = {f.name : f \in FieldsOfType(Key(TRUE, dir.path, a.type))}
  \/ spec.instance = "" /\ RightArguments(spec, dir)

\* Nothing that the generator has to refuse.  Of several constructors any may be the first.
CanBeWired(dir) ==
  LET package == ThePackage(dir)
      types   == {a.type : a \in GoAsserts(package)}
      own(t)  == FieldsOfType(Key(TRUE, dir.path, t))
      makes(t) == UNION {{new \in file.news : new.result = t} : file \in package.files}
  IN  \/ types = {}
      \/ /\ Single(types) /\ package.name # "modules"
         /\ \A t \in types :
              \/ Single(own(t))
              \/ /\ own(t) = {} /\ makes(t) # {}
                 /\ \A file \in package.files : \A new \in file.news \cap makes(t) :
                      \A j \in DOMAIN new.params :
                        /\ ~Shadowed(new.params[j])
                        /\ Single(FieldsOfType(GoType(new.params[j], file.imports, dir.path)))

\* An import without a name is known to modulegen by another name than to Go.
Renamed(imports) == \E i \in ToSet(imports) : i.as = "" /\ Base[i.path] # PackageName[i.path]

Ordinary ==
  /\ ~Renamed(tree.imports)
  /\ \A dir \in ToSet(tree.dirs) : ~dir.hidden => dir \in ModuleDirs
  /\ \A dir \in ModuleDirs : /\ \A file \in ThePackage(dir).files : ~Renamed(file.imports)
                             /\ \A other \in ModuleDirs \ {dir} :
                                  ThePackage(dir).name # ThePackage(other).name

\* No renamed import passes for another: modulegen may not know its name, but takes no
\* name of another import for it, and no other import of that package keeps it known.
Unmistaken(imports) ==
  Renamed(imports) =>
    \A i, j \in DOMAIN imports :
      \/ imports[i].path = imports[j].path
      \/ imports[i].as = "" /\ Base[imports[i].path] = GoName(imports[j])
      => i = j

\* The sources: dot imports and blank imports are left out, and what is asserted, built
\* or taken is named.
ImportSpec == [path : STRING, as : STRING]
TypeExpr   == [ptr : BOOLEAN, sel : STRING, name : STRING]
SourceFile == [imports : Seq(ImportSpec),
               asserts : SUBSET [sel : STRING, interface : STRING, type : STRING],
               news    : SUBSET [result : STRING, params : Seq(TypeExpr)]]
Directory  == [path : STRING, hidden : BOOLEAN,
               packages : SUBSET [name : STRING, files : SUBSET SourceFile]]

\* The types compile under these imports, and the package app is not among them.
Compile(types, imports) ==
  /\ \A i \in ToSet(imports) : /\ i.path \notin {"", AppPath}
                               /\ Alias(i) # "[]" /\ GoName(i) # "[]"
  /\ \A i, j \in DOMAIN imports : GoName(imports[i]) = GoName(imports[j]) => i = j
  /\ \A type \in types : \/ type.sel \in {"", "[]"}
                         \/ \E i \in ToSet(imports) : GoName(i) = type.sel

\* A module cannot import the package app, which imports the module; directories have
\* names; and the package of internal/modules is named as its directory.
WiringAssumption ==
  /\ Trees # {} /\ AppPath # "" /\ Root # "" /\ Base[Root] = PackageName[Root]
  /\ \A sources \in Trees :
       /\ sources \in [imports : Seq(ImportSpec),
                       fields  : SUBSET [name : STRING, type : TypeExpr],
                       dirs    : Seq(Directory)]
       /\ Compile({f.type : f \in sources.fields}, sources.imports)
       /\ \A k \in DOMAIN sources.dirs :
            /\ sources.dirs[k].path \notin {"", AppPath}
            /\ \A j \in DOMAIN sources.dirs : sources.dirs[j].path = sources.dirs[k].path => j = k
            /\ \A package \in sources.dirs[k].packages : \A file \in package.files :
                 Compile(UNION {ToSet(new.params) : new \in file.news}, file.imports)

ASSUME WiringAssumption

(***************************************************************************)
(* What modulegen writes mounts every module that asserts an interface, as *)
(* what it asserts (generatedModules, main.go:364), once,                  *)
(* with the instance Application holds or with a                           *)
(* constructor whose every argument is the one field of that parameter's   *)
(* type; and it only refuses sources that leave no such wiring.  The       *)
(* interface assertions are the conversions its README asks for.           *)
(***************************************************************************)
EveryModuleIsWired ==
  /\ wiring = "done" /\ Unmistaken(tree.imports) =>
       \A dir \in ModuleDirs :
         LET found == {k \in DOMAIN specs : specs[k].path = dir.path}
             http  == found \cap mounted.http
             grpc  == found \cap mounted.grpc
         IN  (\A file \in ThePackage(dir).files : Unmistaken(file.imports)) =>
               /\ IF HasCapability(dir, {"Module", "HTTPModule"}) THEN Single(http) ELSE http = {}
               /\ IF HasCapability(dir, {"GRPCModule"}) THEN Single(grpc) ELSE grpc = {}
               /\ \A k \in found : WiredRight(specs[k], dir)
  /\ wiring = "failed" /\ Ordinary => \E dir \in ModuleDirs : ~CanBeWired(dir)
-----------------------------------------------------------------------------
Instance   == STRING \cup {""}   \* "" for a module that New makes
ModuleSpec == [path : STRING, alias : STRING, instance : Instance, arguments : Seq(STRING),
               http : BOOLEAN, grpc : BOOLEAN]

\* What that comes to: a name stands for the package Go says, or its package has no name
\* at all.
Told(imports) ==
  LET names == {GoName(i) : i \in ToSet(imports)}
      lost  == {GoPath(imports, sel) : sel \in {n \in names : PathOf(imports, n) = ""}}
  IN  \A sel \in names :
        PathOf(imports, sel) = IF GoPath(imports, sel) \in lost THEN "" ELSE GoPath(imports, sel)

\* How a module was found, and that it is wired right where no import passes for another.
FoundIn(s, dir) ==
  /\ s.path = dir.path /\ ~dir.hidden
  /\ \E package \in dir.packages :
       /\ s.alias = package.name /\ AssertedModules(package) # {}
       /\ s.http = \E a \in AssertedModules(package) : a.interface # "GRPCModule"
       /\ s.grpc = \E a \in AssertedModules(package) : a.interface = "GRPCModule"
  /\ /\ dir \in ModuleDirs /\ Told(tree.imports)
     /\ \A file \in ThePackage(dir).files : Told(file.imports)
     => WiredRight(s, dir)

Visited == Len(tree.dirs) - Len(entries)

\* The inductive invariant: specs says of the directories already visited, and of no
\* others, what they hold.
WiringInv ==
  /\ tree \in Trees
  /\ entries \in Seq(Directory) /\ Visited \in Nat
  /\ \A k \in DOMAIN entries : entries[k] = tree.dirs[Visited + k]
  /\ specs \in Seq(ModuleSpec)
  /\ \A k \in DOMAIN specs : \E i \in 1 .. Visited : FoundIn(specs[k], tree.dirs[i])
  /\ \A k, l \in DOMAIN specs : specs[k].path = specs[l].path => k = l
  /\ \A i \in 1 .. Visited :
       tree.dirs[i] \in ModuleDirs /\ AssertedModules(ThePackage(tree.dirs[i])) # {} =>
         \E k \in DOMAIN specs : specs[k].path = tree.dirs[i].path
  /\ wiring \in {"inspecting", "done", "failed"}
  /\ wiring = "done" =>
       entries = <<>> /\ mounted = [http |-> {k \in DOMAIN specs : specs[k].http},
                                    grpc |-> {k \in DOMAIN specs : specs[k].grpc}]
  /\ wiring = "failed" /\ Ordinary => \E dir \in ModuleDirs : ~CanBeWired(dir)
=============================================================================
