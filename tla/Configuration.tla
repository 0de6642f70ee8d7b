--------------------------- MODULE Configuration ---------------------------
(***************************************************************************)
(* How a configuration comes about: LoadDir and LoadValues of              *)
(* internal/common/config/config.go, applyEnvironment of environment.go,   *)
(* Policy of internal/common/redact/redact.go, Init of                     *)
(* internal/common/logging/logger.go, New of internal/common/pagination    *)
(* and of internal/docs, in the order of New of internal/app/app.go.       *)
(* docsgen loads the same files first, under the environment of the build. *)
(*                                                                         *)
(* A document is a function from the paths of its scalars to values; a     *)
(* path is a sequence of map keys and list indices.  An environment is a   *)
(* function from the names after SERVICE_ (sequences of the parts between  *)
(* underscores) to values.                                                 *)
(***************************************************************************)
EXTENDS Integers, SequencesExt

CONSTANTS Deployments,   \* [files, build, run, parts]: the YAML files in order of name, the
                         \* environments of docsgen and of the server, and which of
                         \* "database" and "redis" the application has
          Index,         \* the list indices among the elements of paths
          Spelling,      \* key -> its parts in upper case: "maxP" -> <<"MAXP">>
          Words,         \* key -> its words in lower case: "maxP" -> <<"max", "p">>
          LowerCase,     \* part of a name -> the word: "MAXP" -> "maxp"
          Keywords,      \* the sensitive words that redact knows by itself
          ServerNumbers, \* the numbers only the server decodes
          Value          \* [value -> [numeric, number, length, password, pieces, user]]: the
                         \* lengths of the value and of the password in it; for a DSN its
                         \* pieces in order ("password", ":", "@" and others; of a URL
                         \* with user information, those after the scheme) and which of
                         \* them are the user information of a URL ({} otherwise)

Malformed == <<"no YAML">> :> "" \* a file that does not parse

ASSUME ConfigurationAssumption ==
  \A d \in Deployments :
    /\ d.files \in Seq(ToSet(d.files))
    /\ \A k \in DOMAIN d.files :
         d.files[k] = Malformed \/ DOMAIN d.files[k] \subseteq Seq(DOMAIN Spelling) \ {<<>>}

VARIABLES deployment,
          env,       \* the environment of this process
          purpose,   \* "docsgen" or "server"
          loaded,    \* how many files are loaded
          values,    \* the configuration
          sections,  \* the top-level keys not yet looked up in the environment
          overrides, \* what was overridden: [path, shown]
          logged,    \* the overrides that were logged
          document,  \* openapi.yaml as docsgen wrote it: [servers, maxP, maxS]
          served,    \* what /docs/openapi.yaml shows
          conf       \* "idle", "files", "environment", "decode", "logging", "limits",
                     \* "docs", "done" or "failed"

confVars == <<deployment, env, purpose, loaded, values, sections, overrides, logged, document,
              served, conf>>

dir == deployment.files
MaxP == <<"pagination", "maxP">>
MaxS == <<"pagination", "maxS">>
Level == <<"log", "level">>
RedactKeys == <<"redact", "keys">>
Servers == <<"http", "docs", "servers">>
NoDocument == [servers |-> <<>>, maxP |-> 0, maxS |-> 0]

Under(prefix, map) == {path \in DOMAIN map : IsPrefix(prefix, path)}
Limited(map, paths) == [path \in paths |-> map[path]]
-----------------------------------------------------------------------------
ConfInit ==
  /\ deployment \in Deployments
  /\ env = <<>> /\ purpose = "docsgen"
  /\ loaded = 0 /\ values = <<>> /\ sections = {} /\ overrides = {} /\ logged = {}
  /\ document = NoDocument /\ served = NoDocument
  /\ conf = "idle"

\* A process starts: make api first, and the server with what that has written.
StartProcess(for) ==
  /\ purpose' = for
  /\ env' = IF for = "docsgen" THEN deployment.build ELSE deployment.run
  /\ loaded' = 0 /\ values' = <<>> /\ sections' = {} /\ overrides' = {} /\ logged' = {}
  /\ conf' = IF dir = <<>> THEN "failed" ELSE "files"
  /\ UNCHANGED <<deployment, document, served>>

\* A later file is merged into the earlier ones: maps key by key, lists as a whole.
Apart(path, other) ==
  \E i \in 1 .. Min({Len(path), Len(other)}) :
    /\ path[i] # other[i] /\ SubSeq(path, 1, i - 1) = SubSeq(other, 1, i - 1)
    /\ path[i] \notin Index /\ other[i] \notin Index

Merge(map, file) ==
  LET kept == {path \in DOMAIN map : \A other \in DOMAIN file : Apart(path, other)}
  IN  [path \in DOMAIN file \cup kept |-> IF path \in DOMAIN file THEN file[path] ELSE map[path]]

LoadFile ==
  /\ conf = "files"
  /\ IF dir[loaded + 1] = Malformed
     THEN conf' = "failed" /\ UNCHANGED <<loaded, values, sections>>
     ELSE /\ values' = Merge(values, dir[loaded + 1])
          /\ loaded' = loaded + 1
          /\ sections' = IF loaded' = Len(dir) THEN {Head(path) : path \in DOMAIN values'} ELSE {}
          /\ conf' = IF loaded' # Len(dir) THEN "files"
                     ELSE IF sections' = {} THEN "decode" ELSE "environment"
  /\ UNCHANGED <<deployment, env, purpose, overrides, logged, document, served>>
-----------------------------------------------------------------------------
NameOf(path) == FlattenSeq([i \in DOMAIN path |-> Spelling[path[i]]])
WordsOf(path) == FlattenSeq([i \in DOMAIN path |-> Words[path[i]]])
WordsOfName(name) == <<"service">> \o [i \in DOMAIN name |-> LowerCase[name[i]]]

\* redact.keys adds single words, which are looked for everywhere in a name, and names
\* of several words, which are compared with the whole name.  The files decide: the
\* policy is made before the environment is looked at.
FileKeys == {Words[FoldLeft(Merge, <<>>, dir)[path]] :
               path \in Under(RedactKeys, FoldLeft(Merge, <<>>, dir))}
AllKeywords == Keywords \cup {Head(k) : k \in {w \in FileKeys : Len(w) = 1}}
WholeNames == {k \in FileKeys : Len(k) > 1}

IsSensitive(words) == words \in WholeNames \/ ToSet(words) \cap AllKeywords # {}

\* What DSN masks: in the user information of a URL, or before the last @ of any other
\* value, all that follows the first colon.  Without such a place the value is returned
\* as it is.
InMaskedPart(value, i) ==
  LET pieces == Value[value].pieces
  IN  /\ \E colon \in 1 .. i - 1 : pieces[colon] = ":"
      /\ IF Value[value].user # {} THEN i \in Value[value].user
         ELSE \E at \in i + 1 .. Len(pieces) : pieces[at] = "@"

PasswordsIn(value) ==
  {i \in DOMAIN Value[value].pieces : Value[value].pieces[i] = "password"}

\* Mask leaves a short value readable; DSN masks that part of a DSN, and nothing else.
Readable(words, value) ==
  IF "dsn" \in ToSet(words)
  THEN Value[value].password <= 3 \/ \E i \in PasswordsIn(value) : ~InMaskedPart(value, i)
  ELSE Value[value].length <= 3

\* Broken variant: only the name of the environment variable is looked at.
ShownWhole_NameOnly(path, value) ==
  IsSensitive(WordsOfName(NameOf(path))) => Readable(WordsOfName(NameOf(path)), value)
ShownWhole(path, value) ==
  CASE IsSensitive(WordsOf(path))             -> Readable(WordsOf(path), value)
    [] IsSensitive(WordsOfName(NameOf(path))) -> Readable(WordsOfName(NameOf(path)), value)
    [] OTHER                                  -> TRUE

\* overrideValue visits the scalars there are; an empty value overrides as well.
Overridden(section) == {path \in Under(<<section>>, values) : NameOf(path) \in DOMAIN env}

\* Broken variant: a scalar is set by its path, which makes a map of a list.
Applied_ByPath(section) ==
  [path \in {p \in DOMAIN values : \A other \in Overridden(section) \ {p} :
               \A i \in 1 .. Min({Len(p), Len(other)}) :
                 SubSeq(p, 1, i - 1) = SubSeq(other, 1, i - 1) /\ p[i] # other[i] => p[i] \notin Index}
     |-> IF path \in Overridden(section) THEN env[NameOf(path)] ELSE values[path]]
Applied(section) ==
  [path \in DOMAIN values |->
     IF path \in Overridden(section) THEN env[NameOf(path)] ELSE values[path]]

\* The sections are the keys of a map: any order.
ApplySection(section) ==
  /\ conf = "environment" /\ section \in sections
  /\ values' = Applied(section)
  /\ overrides' = overrides \cup
       {[path |-> path, value |-> env[NameOf(path)],
         whole |-> ShownWhole(path, env[NameOf(path)])] : path \in Overridden(section)}
  /\ sections' = sections \ {section}
  /\ conf' = IF sections' = {} THEN "decode" ELSE conf
  /\ UNCHANGED <<deployment, env, purpose, loaded, logged, document, served>>
-----------------------------------------------------------------------------
Numbers == {MaxP, MaxS} \cup IF purpose = "server" THEN ServerNumbers ELSE {}

Unmarshal ==
  /\ conf = "decode"
  /\ conf' = CASE \E path \in Numbers \cap DOMAIN values :
                    ~Value[values[path]].numeric -> "failed"
               [] purpose = "docsgen"                     -> "limits"
               [] OTHER                                   -> "logging"
  /\ UNCHANGED <<deployment, env, purpose, loaded, values, sections, overrides, logged, document, served>>

\* logging.Init sets the level; LogOverrides then logs at the level info.
Initialize ==
  /\ conf = "logging"
  /\ IF Level \notin DOMAIN values \/ values[Level] \notin {"debug", "info", "warn", "error"}
     THEN conf' = "failed" /\ UNCHANGED logged
     ELSE /\ logged' = IF values[Level] \in {"debug", "info"} THEN overrides ELSE {}
          /\ conf' = "limits"
  /\ UNCHANGED <<deployment, env, purpose, loaded, values, sections, overrides, document, served>>

NumberAt(path) == IF path \in DOMAIN values THEN Value[values[path]].number ELSE 0
Limit(path) == IF NumberAt(path) = 0 THEN 10000 ELSE NumberAt(path)
InRange(limit) == limit >= 1 /\ limit <= 2147483647

PaginationLimits ==
  /\ conf = "limits"
  /\ conf' = IF InRange(Limit(MaxP)) /\ InRange(Limit(MaxS)) THEN "docs" ELSE "failed"
  /\ UNCHANGED <<deployment, env, purpose, loaded, values, sections, overrides, logged, document, served>>

ServersOf(map) == Limited(map, Under(Servers, map))

\* docsgen writes servers and limits into openapi.yaml; the server embeds that file and
\* replaces them by its own.
\* Broken variant: the limits of the build stay in the document.
Rendered_Embedded == [document EXCEPT !.servers = ServersOf(values)]
Rendered == [servers |-> ServersOf(values), maxP |-> Limit(MaxP), maxS |-> Limit(MaxS)]

WriteDocument ==
  /\ conf = "docs"
  /\ IF purpose = "docsgen" THEN document' = Rendered /\ UNCHANGED served
     ELSE served' = Rendered /\ UNCHANGED document
  /\ conf' = "done"
  /\ UNCHANGED <<deployment, env, purpose, loaded, values, sections, overrides, logged>>

ConfNext == \/ LoadFile \/ Unmarshal \/ Initialize \/ PaginationLimits \/ WriteDocument
            \/ \E section \in sections : ApplySection(section)

ConfSpec == ConfInit /\ [][ConfNext]_confVars
-----------------------------------------------------------------------------
\* The scalars of the files, by the last file that has a say in each.
HasSay(k, path) == \E other \in DOMAIN dir[k] : ~Apart(path, other)
InFiles(path) == \E k \in DOMAIN dir :
                   /\ path \in DOMAIN dir[k]
                   /\ \A j \in k + 1 .. Len(dir) : ~HasSay(j, path)
LastFile(path) == CHOOSE k \in DOMAIN dir :
                    path \in DOMAIN dir[k] /\ \A j \in k + 1 .. Len(dir) : path \notin DOMAIN dir[j]
ExpectedIn(environment, path) ==
  IF NameOf(path) \in DOMAIN environment THEN environment[NameOf(path)] ELSE dir[LastFile(path)][path]
Expected(path) == ExpectedIn(env, path)

(***************************************************************************)
(* The configuration consists of the scalars of the files, and of no       *)
(* others: every one of them that the environment names has the value the  *)
(* environment gives it, also inside lists, and everything else is as the  *)
(* last file has it (environment.go:14-15, TestIndexedEnvironmentOverrides).*)
(* The document that is served shows the servers and the limits of the     *)
(* process that serves it, whatever they were when it was generated.       *)
(***************************************************************************)
OverridesAreExact ==
  conf = "done" =>
    /\ \A path \in DOMAIN values : InFiles(path) /\ values[path] = Expected(path)
    /\ \A path \in UNION {DOMAIN dir[k] : k \in DOMAIN dir} : InFiles(path) => path \in DOMAIN values
    /\ purpose = "server" =>
         /\ served.servers = [path \in {p \in DOMAIN values : IsPrefix(Servers, p)} |-> Expected(path)]
         /\ \A field \in {<<MaxP, served.maxP>>, <<MaxS, served.maxS>>} :
              field[2] = IF field[1] \in DOMAIN values /\ Value[Expected(field[1])].number # 0
                         THEN Value[Expected(field[1])].number ELSE 10000

(***************************************************************************)
(* No override whose name has a sensitive word, however the word is        *)
(* written, is logged as it is, unless it is too short to be masked or a   *)
(* DSN (redact.go:86-118).  Of a DSN the password is hidden, if it has     *)
(* more than three characters and stands between a colon and an @, in a    *)
(* URL between those of its user information.  Any other password of a DSN *)
(* is logged in plain text: that of "host=db password=...", or of           *)
(* "postgres://db?password=...".                                           *)
(***************************************************************************)
EveryWord(path) == ToSet(WordsOf(path)) \cup ToSet(WordsOfName(NameOf(path)))
Secret(path) == EveryWord(path) \cap AllKeywords # {} \/ WordsOf(path) \in WholeNames

BetweenColonAndAt(value, i) ==
  LET pieces == Value[value].pieces
  IN  \E colon \in 1 .. i - 1, at \in i + 1 .. Len(pieces) :
        /\ pieces[colon] = ":" /\ pieces[at] = "@"
        /\ Value[value].user # {} => i \in Value[value].user /\ at \notin Value[value].user

NoMaskablePassword(value) ==
  Value[value].password <= 3 \/ \E i \in PasswordsIn(value) : ~BetweenColonAndAt(value, i)

SecretsAreMasked ==
  \A o \in logged :
    o.whole => \/ ~Secret(o.path)
               \/ Value[o.value].length <= 3
               \/ "dsn" \in EveryWord(o.path) /\ NoMaskablePassword(o.value)
-----------------------------------------------------------------------------
(* The inductive invariant of the proofs. *)

AllPaths == UNION {DOMAIN dir[k] : k \in DOMAIN dir}

\* File k has the last say in path, of the first n files.
LastSay(n, path, k) == /\ k \in 1 .. n /\ path \in DOMAIN dir[k]
                       /\ \A j \in k + 1 .. n : ~HasSay(j, path)

\* The value of a path so far: sections that are not yet looked up are as in the files.
Due(path, k) ==
  IF conf # "files" /\ Head(path) \notin sections /\ NameOf(path) \in DOMAIN env
  THEN env[NameOf(path)] ELSE dir[k][path]

ValuesAreDue ==
  /\ DOMAIN values = {path \in AllPaths : \E k \in 1 .. loaded : LastSay(loaded, path, k)}
  /\ \A path \in DOMAIN values :
       /\ path \in Seq(DOMAIN Spelling) \ {<<>>}
       /\ \A k \in 1 .. loaded : LastSay(loaded, path, k) => values[path] = Due(path, k)

AfterLoading == {"environment", "decode", "logging", "limits", "docs", "done"}

Progress ==
  /\ deployment \in Deployments
  /\ conf \in {"idle", "files", "failed"} \cup AfterLoading
  /\ conf = "files" => loaded \in 0 .. Len(dir) - 1
  /\ conf \in AfterLoading => loaded = Len(dir) /\ Len(dir) \in Nat
  /\ conf \in AfterLoading \ {"environment"} => sections = {}
  /\ env \in {<<>>, deployment.build, deployment.run}

ConfInv ==
  /\ Progress
  /\ conf \notin {"idle", "failed"} => ValuesAreDue
  /\ \A o \in overrides : o.whole = ShownWhole(o.path, o.value)
  /\ logged \subseteq overrides
  /\ conf = "done" /\ purpose = "server" => served = Rendered
=============================================================================
