--------------------------- MODULE Configurations ---------------------------
(***************************************************************************)
(* Configuration files (Configuration.cpp, util/Config.cpp): a file may    *)
(* extend another one, path.to.home stands for the paths of all components,*)
(* and the overrides of a server extend each of its files.                 *)
(*                                                                         *)
(* A Configuration object is the sequence of its layers: itself, then what *)
(* it extends.  A layer has its values by key and the directory of its     *)
(* file, None if it was no file.  Keys of paths go without "path.to.".     *)
(***************************************************************************)
EXTENDS SequencesExt, FiniteSetsExt, TLC

CONSTANTS
  Files,     \* the files that can be opened, by path: sequences of lines <<key, value>>
  WorkDir,   \* working directory of the program
  None       \* no directory, no override

Components ==
  {"phrase-corpus", "phrase-dictionary", "phrase-index", "postlist-index", "hash-dictionary", "regex-vocabulary"}
Paths == Components \cup {"home"}
Required == {"phrase-corpus", "phrase-dictionary", "phrase-index", "postlist-index"}

-----------------------------------------------------------------------------
(* Paths: the names from the root, or from a directory that is not said.   *)

Path(names) == [absolute |-> TRUE, names |-> names]
Relative(names) == [absolute |-> FALSE, names |-> names]
NoPath == Relative(<<>>)
IsPath(path) == path.absolute \in BOOLEAN /\ path.names \in Seq(ToSet(path.names))
Parent(path) == Path(Front(path.names))
Child(path, name) == Path(Append(path.names, name))

Absolute(path, dir) ==
  IF path.absolute THEN path
  ELSE Path((IF dir = None THEN WorkDir ELSE dir).names \o path.names)
Canonical(path) ==
  LET upTo[n \in 0 .. Len(path.names)] ==
        IF n = 0 THEN <<>>
        ELSE IF path.names[n] = ".." THEN Front(upTo[n - 1])
        ELSE Append(upTo[n - 1], path.names[n])
  IN Path(upTo[Len(path.names)])
RelativeTo(path, dir) == Canonical(Absolute(path, dir))

-----------------------------------------------------------------------------

(* The lines of a file, or of a command line: keys of paths have paths.    *)
AreLines(lines) ==
  /\ lines \in Seq(ToSet(lines))
  /\ \A i \in DOMAIN lines : lines[i][1] \in Paths => IsPath(lines[i][2])
ASSUME FilesAssumption ==
  /\ IsFiniteSet(DOMAIN Files)
  /\ WorkDir.names \in Seq(ToSet(WorkDir.names))
  /\ \A file \in DOMAIN Files : file.names \in Seq(ToSet(file.names)) /\ AreLines(Files[file])

(* A value that is read again for its key is not stored.                   *)
ReadProperties(lines) ==
  [k \in {lines[i][1] : i \in DOMAIN lines} |->
     lines[CHOOSE i \in DOMAIN lines : lines[i][1] = k /\ \A j \in 1 .. i - 1 : lines[j][1] # k][2]]

HasPath(values, key) == key \in DOMAIN values /\ values[key] # NoPath

(* Values, and those of another layer where there are none.                *)
Over(values, base) ==
  [k \in (DOMAIN values) \cup (DOMAIN base) |-> IF k \in DOMAIN values THEN values[k] ELSE base[k]]

(* desugar_home(): the values of this file only decide what is not set.    *)
Desugared(values, dir) ==
  IF ~ HasPath(values, "home") THEN values
  ELSE Over(values, [c \in Components |-> Canonical(Child(Absolute(values["home"], dir), c))])

Layer(values, dir) == [values |-> Desugared(values, dir), dir |-> dir]

(* The files of the layers: a file that extends itself has no end of them. *)
ExtendedFile ==
  [file \in DOMAIN Files |->
     LET values == ReadProperties(Files[file])
     IN IF HasPath(values, "extends") THEN Canonical(Absolute(values["extends"], Parent(file))) ELSE None]
Extending(files) ==
  LET file == Last(files)
  IN IF file \in DOMAIN Files /\ ExtendedFile[file] # None THEN Append(files, ExtendedFile[file]) ELSE files
Chain ==
  [file \in DOMAIN Files |->
     LET upTo[n \in 0 .. Cardinality(DOMAIN Files)] ==
           IF n = 0 THEN <<file>> ELSE Extending(upTo[n - 1])
     IN upTo[Cardinality(DOMAIN Files)]]

CanOpen(file) ==
  /\ file \in DOMAIN Files
  /\ ToSet(Chain[file]) \subseteq DOMAIN Files
  /\ ExtendedFile[Last(Chain[file])] = None
Open(file) ==
  [i \in DOMAIN Chain[file] |-> Layer(ReadProperties(Files[Chain[file][i]]), Parent(Chain[file][i]))]

(* keys(), get_required(), get_required_path() *)
KeysOf(config) == (UNION {DOMAIN config[i].values : i \in DOMAIN config}) \ {"extends"}
Get(config, key) ==
  config[CHOOSE i \in DOMAIN config :
           /\ key \in DOMAIN config[i].values
           /\ \A j \in 1 .. i - 1 : key \notin DOMAIN config[j].values].values[key]
GetPath(config, key) == RelativeTo(Get(config, key), config[1].dir)

(* Mutant of FullConfig: paths are left as they are written.               *)
WrittenConfig(config) == [k \in KeysOf(config) |-> Get(config, k)]
FullConfig(config) ==
  [k \in KeysOf(config) |-> IF k \in Paths THEN GetPath(config, k) ELSE Get(config, k)]

Extend(config, base) == <<Layer(Over(FullConfig(config), FullConfig(base)), None)>>

(* The overrides of a command: no extends, and no object without any.      *)
Given(lines) ==
  [k \in {lines[i][1] : i \in DOMAIN lines} |-> lines[Max({i \in DOMAIN lines : lines[i][1] = k})][2]]
Overrides(lines) == <<Layer(Given(lines), None)>>
Load(file, lines) ==
  IF lines = <<>> THEN Open(file) ELSE Extend(Overrides(lines), Open(file))

-----------------------------------------------------------------------------
(* What a server makes of a configuration: the corpus, and where the       *)
(* components of its index are opened (Netspeak::initialize).              *)

Metadata == {"corpus.key", "corpus.name", "corpus.language"}
CanServe(config) == Metadata \cup Required \subseteq KeysOf(config)
EntryOf(config) ==
  [corpus |-> [m \in Metadata |-> Get(config, m)],
   index |-> [c \in KeysOf(config) \cap Components |-> GetPath(config, c)]]

-----------------------------------------------------------------------------
(* Where the documentation has a component: in the first of the overrides, *)
(* the file and the files that it extends that sets its path or that of    *)
(* home, relative to that file (README.md, "Paths" and "Other"), where the *)
(* last value of a key counts: reading a file overwrites existing keys     *)
(* (Config::merge_properties(), util/Config.hpp).                          *)

SetTwice(lines) == {lines[i][1] : i \in {i \in DOMAIN lines : \E j \in 1 .. i - 1 : lines[j][1] = lines[i][1]}}
WrittenLayers(file) ==
  [i \in DOMAIN Chain[file] |->
     LET lines == Files[Chain[file][i]]
     IN [values |-> Given(lines), dir |-> Parent(Chain[file][i]), twice |-> SetTwice(lines)]]
Written(file, lines) == <<[values |-> Given(lines), dir |-> None, twice |-> {}]>> \o WrittenLayers(file)
SaysWhere(layer, c) == HasPath(layer.values, c) \/ HasPath(layer.values, "home")
FirstToSay(layers, c) ==
  layers[CHOOSE i \in DOMAIN layers :
           SaysWhere(layers[i], c) /\ \A j \in 1 .. i - 1 : ~ SaysWhere(layers[j], c)]
DocumentedPath(layers, c) ==
  LET layer == FirstToSay(layers, c)
  IN IF HasPath(layer.values, c) THEN RelativeTo(layer.values[c], layer.dir)
     ELSE Canonical(Child(Absolute(layer.values["home"], layer.dir), c))

(* Not so where a relative path is inherited from another directory: it is *)
(* looked for in that of the file that extends.                            *)
InheritedFromElsewhere(file, layers, c) ==
  LET layer == FirstToSay(layers, c)
  IN HasPath(layer.values, c) /\ ~ layer.values[c].absolute /\ layer.dir \notin {None, Parent(file)}

(* Nor where the file sets the key twice: its first value is kept.  Nor    *)
(* where any of the files extends two: it is made from the first one.      *)
FirstIsKept(layers, c) ==
  LET layer == FirstToSay(layers, c)
  IN \/ (IF HasPath(layer.values, c) THEN c ELSE "home") \in layer.twice
     \/ \E i \in DOMAIN layers : "extends" \in layers[i].twice

DocumentedIndex(file, lines) ==
  LET layers == Written(file, lines)
  IN [c \in {c \in Components : \E i \in DOMAIN layers : SaysWhere(layers[i], c)} |->
        IF InheritedFromElsewhere(file, layers, c) \/ FirstIsKept(layers, c) THEN None
        ELSE DocumentedPath(layers, c)]

=============================================================================
