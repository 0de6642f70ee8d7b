---------------------------- MODULE HandlerDocs ----------------------------
(***************************************************************************)
(* docsgen reads the answers of a handler from the calls in its body:      *)
(* describeRoute, addErrorResponse and typeSchema of                       *)
(* internal/cmd/docsgen/main.go, requestSchema of request.go.  The routes  *)
(* are described one after the other; a named struct becomes a component   *)
(* of the document, known by its name alone.  Pointers, slices, maps and   *)
(* anonymous structs pass through to the names they are made of, so a      *)
(* declared type is a struct or not, and a sequence of names.              *)
(***************************************************************************)
EXTENDS Naturals, FiniteSets, SequencesExt

CONSTANTS Packages,      \* packages with handlers
          Decls,         \* [Packages -> [names -> [struct, uses]]]
          Results,       \* [Packages -> [methods -> the result types of the functions
                         \*  of that name, one for each receiver]]
          Statuses, Messages,
          MaxRoutes, MaxCalls

Conflicts == {400, 409, 500} \* what an idempotency key may be answered with
KeyMessage == [s \in Conflicts |-> CASE s = 400 -> "invalid key" [] s = 409 -> "used key"
                                     [] OTHER -> "internal"]

ASSUME HandlerDocsAssumption ==
  \A p \in Packages :
    /\ IsFiniteSet(DOMAIN Decls[p])
    /\ \A n \in DOMAIN Decls[p] : Decls[p][n] \in [struct : BOOLEAN, uses : Seq(STRING)]
    /\ \A m \in DOMAIN Results[p] : IsFiniteSet(Results[p][m])
    /\ \A marker \in {"unknown", "variable"} :
         /\ marker \notin DOMAIN Decls[p]
         /\ \A m \in DOMAIN Results[p] : marker \notin Results[p][m]

VARIABLES pkg,        \* the package of the route being described
          responses,  \* by status: [messages, schema]
          request,       \* the type of the request body, once a decode was seen
          inferred,   \* what docsgen takes for the type of the variable "value"
          actual,     \* the type it has at this point of the program
          told,       \* an assignment to it said so in a form that docsgen reads
          stack,      \* the types being expanded: [name, rest]
          visiting,   \* the structs among them
          components, \* by name: the package whose struct is described
          refs,       \* Go: the structs the document has to describe: <<package, name>>
          sent,       \* Go: <<status, kind, message or type>>
          decoded,    \* Go: the types decoded from the body, in order: [type, told]
          ambiguous,  \* the inference met several types
          calls, routes,
          docs        \* "next", "describing", "described", "done" or "crashed"

handlerVars == <<pkg, responses, request, inferred, actual, told, stack, visiting, components,
                 refs, sent, decoded, ambiguous, calls, routes, docs>>

Unknown == "unknown"   \* a type docsgen does not know: an object
Variable == "variable" \* the type of "value", once the whole handler has been seen
Error == "ErrorResponse"
Own == "docsgen"       \* the package, so to say, of the ErrorResponse of docsgen

\* An entry of a map set.
With(map, key, value) == [x \in DOMAIN map \cup {key} |-> IF x = key THEN value ELSE map[x]]

ResetRoute == /\ responses' = <<>> /\ request' = Unknown /\ inferred' = Unknown /\ actual' = Unknown
              /\ told' = FALSE /\ sent' = {} /\ decoded' = <<>> /\ ambiguous' = FALSE /\ calls' = 0

HandlerInit ==
  /\ pkg \in Packages
  /\ responses = <<>> /\ request = Unknown /\ inferred = Unknown /\ actual = Unknown
  /\ stack = <<>> /\ visiting = {} /\ components = <<>> /\ refs = {}
  /\ told = FALSE /\ sent = {} /\ decoded = <<>> /\ ambiguous = FALSE
  /\ calls = 0 /\ routes = 0 /\ docs = "next"
-----------------------------------------------------------------------------
NextRoute ==
  /\ docs \in {"next", "described"} /\ routes < MaxRoutes
  /\ routes' = routes + 1 /\ pkg' \in Packages
  /\ ResetRoute
  /\ docs' = "describing"
  /\ UNCHANGED <<stack, visiting, components, refs>>

Call == /\ docs = "describing" /\ stack = <<>> /\ calls < MaxCalls
        /\ calls' = calls + 1
        /\ UNCHANGED <<pkg, routes, docs>>

\* typeSchema of a name: a struct is referred to, and expanded unless that is under way.
Expands(name) == name \notin visiting

Enter(name, frames) ==
  LET known  == name \in DOMAIN Decls[pkg]
      struct == known /\ Decls[pkg][name].struct
      opens  == known /\ (struct => Expands(name))
  IN  /\ stack' = IF opens THEN Append(frames, [name |-> name, rest |-> Decls[pkg][name].uses])
                  ELSE frames
      /\ visiting' = IF struct /\ opens THEN visiting \cup {name} ELSE visiting
      /\ refs' = IF struct THEN refs \cup {<<pkg, name>>} ELSE refs

\* Every struct at most once, and every other type at most once between two structs.
Deepest == (Cardinality(DOMAIN Decls[pkg]) + 1) * (Cardinality(DOMAIN Decls[pkg]) + 1)

Expand == /\ stack # <<>> /\ Last(stack).rest # <<>> /\ docs = "describing"
          /\ Len(stack) <= Deepest
          /\ Enter(Head(Last(stack).rest),
                   [stack EXCEPT ![Len(stack)].rest = Tail(@)])
          /\ UNCHANGED <<pkg, responses, request, inferred, actual, told, components, sent, decoded,
                         ambiguous, calls, routes, docs>>

\* The component is stored when the whole type has been expanded.
Leave == /\ stack # <<>> /\ Last(stack).rest = <<>> /\ docs = "describing"
         /\ LET name == Last(stack).name
            IN  /\ components' = IF Decls[pkg][name].struct THEN With(components, name, pkg)
                                 ELSE components
                /\ visiting' = visiting \ {name}
         /\ stack' = Front(stack)
         /\ UNCHANGED <<pkg, responses, request, inferred, actual, told, refs, sent, decoded,
                        ambiguous, calls, routes, docs>>

\* A type that goes deeper contains itself without a struct between: the recursion does
\* not end, and docsgen dies of its stack.
Overflow == /\ stack # <<>> /\ docs = "describing"
            /\ Len(stack) > Deepest
            /\ docs' = "crashed"
            /\ UNCHANGED <<pkg, responses, request, inferred, actual, told, stack, visiting,
                           components, refs, sent, decoded, ambiguous, calls, routes>>
-----------------------------------------------------------------------------
\* docsgen looks for the type of a variable in the whole body and keeps the first it finds,
\* for the calls before the assignment too.
AssignValue(seen, type, unclear) ==
  /\ Call
  /\ LET first == inferred = Unknown /\ seen # Unknown
     IN  /\ inferred' = IF first THEN seen ELSE inferred
         /\ IF first /\ \E s \in sent : s[2] = "variable" THEN Enter(seen, stack)
            ELSE UNCHANGED <<stack, visiting, refs>>
  /\ told' = (told \/ seen # Unknown)
  /\ ambiguous' = (ambiguous \/ unclear \/ actual \notin {Unknown, type})
  /\ actual' = type
  /\ UNCHANGED <<responses, request, components, sent, decoded>>

\* value := Type{...} and var value Type.
AssignLiteral(type) == AssignValue(type, type, FALSE)

\* value, err := m.Method(...): of the method only the name is looked at, and the functions
\* of the package are the values of a map.
AssignResult(method) ==
  \E seen, type \in Results[pkg][method] :
    AssignValue(seen, type, Cardinality(Results[pkg][method]) > 1)

\* value := m.Method(...), value := &Type{...}, var value = ..., value, err := other.Function(...).
AssignUnseen(type) == AssignValue(Unknown, type, FALSE)

\* WriteOK, WriteJSON, JSON, Status, AbortWithStatus, WriteNoContent: the last call of a
\* status describes it.
Answer(status, kind, schema, type) ==
  /\ Call
  /\ responses' = With(responses, status, [messages |-> <<>>, schema |-> schema])
  /\ sent' = sent \cup {<<status, kind, type>>}
  /\ UNCHANGED <<request, inferred, actual, told, components, decoded, ambiguous>>

\* Type{...}, or a literal of a basic type.
WriteValue(status, type) == Answer(status, "value", type, type) /\ Enter(type, stack)

\* The variable "value".
WriteVariable(status) ==
  actual # Unknown /\ Answer(status, "variable", Variable, actual) /\ Enter(inferred, stack)

\* &Type{...}, a call, a field, a conversion: an object.
WriteOther(status, type) ==
  Answer(status, "other", Unknown, type) /\ UNCHANGED <<stack, visiting, refs>>

WriteStatus(status) ==
  Answer(status, "value", "none", "none") /\ UNCHANGED <<stack, visiting, refs>>

\* Any of the calls with a status that statusCode does not know: a variable, or a constant
\* that is not in its table.
WriteUnread(status) ==
  /\ Call
  /\ sent' = sent \cup {<<status, "unread", "none">>}
  /\ UNCHANGED <<responses, request, inferred, actual, told, stack, visiting, components, refs,
                 decoded, ambiguous>>

MessagesOf(status) == IF status \in DOMAIN responses THEN responses[status].messages ELSE <<>>

\* Broken variant: the schema of the errors is referred to and not described.
WithError_Missing == components
\* ensureErrorResponse keeps a struct of that name.
WithError == IF Error \in DOMAIN components THEN components ELSE With(components, Error, Own)

\* Broken variant: a message is compared with the one before it only.
Added_Last(messages, m) == IF messages # <<>> /\ Last(messages) = m THEN messages
                           ELSE Append(messages, m)
Added(messages, m) == IF Contains(messages, m) THEN messages ELSE Append(messages, m)

WriteError(status, message) ==
  /\ Call
  /\ components' = WithError
  /\ responses' = With(responses, status,
                       [messages |-> Added(MessagesOf(status), message), schema |-> Error])
  /\ refs' = refs \cup {<<Own, Error>>}
  /\ sent' = sent \cup {<<status, "error", message>>}
  /\ UNCHANGED <<request, inferred, actual, told, stack, visiting, decoded, ambiguous>>

\* Decode and BindJSON into a variable (which is not "value") declared in a form that tells
\* its type or not: the first decides.
Decode(type, tells) ==
  /\ Call
  /\ IF decoded = <<>>
     THEN /\ request' = IF tells THEN type ELSE Unknown
          /\ IF tells THEN Enter(type, stack) ELSE UNCHANGED <<stack, visiting, refs>>
     ELSE UNCHANGED <<request, stack, visiting, refs>>
  /\ decoded' = Append(decoded, [type |-> type, told |-> tells])
  /\ UNCHANGED <<responses, inferred, actual, told, components, sent, ambiguous>>

\* addErrorResponse only recognises a message that is all there is.
AddedKey(status) ==
  LET old == MessagesOf(status)
      new == KeyMessage[status]
  IN  [messages |-> IF old = <<new>> THEN old ELSE Append(old, new), schema |-> Error]

\* A POST of a module that takes idempotency keys may also be answered by the middleware.
EndOfHandler(idempotent) ==
  /\ docs = "describing" /\ stack = <<>>
  /\ IF idempotent
     THEN /\ components' = WithError /\ refs' = refs \cup {<<Own, Error>>}
          /\ responses' = [s \in DOMAIN responses \cup Conflicts |->
                             IF s \in Conflicts THEN AddedKey(s) ELSE responses[s]]
          /\ sent' = sent \cup {<<s, "key", KeyMessage[s]>> : s \in Conflicts}
     ELSE UNCHANGED <<components, refs, responses, sent>>
  /\ docs' = "described"
  /\ UNCHANGED <<pkg, request, inferred, actual, told, stack, visiting, decoded, ambiguous, calls,
                 routes>>

AllDescribed ==
  /\ docs \in {"next", "described"}
  /\ docs' = "done"
  /\ UNCHANGED <<pkg, responses, request, inferred, actual, told, stack, visiting, components,
                 refs, sent, decoded, ambiguous, calls, routes>>

HandlerNext ==
  \/ NextRoute \/ Expand \/ Leave \/ Overflow \/ AllDescribed
  \/ \E type \in DOMAIN Decls[pkg] :
       AssignLiteral(type) \/ AssignUnseen(type) \/ Decode(type, TRUE) \/ Decode(type, FALSE)
  \/ \E method \in DOMAIN Results[pkg] : AssignResult(method)
  \/ \E status \in Statuses :
       \/ \E type \in DOMAIN Decls[pkg] : WriteValue(status, type) \/ WriteOther(status, type)
       \/ WriteVariable(status) \/ WriteStatus(status) \/ WriteUnread(status)
       \/ \E message \in Messages : WriteError(status, message)
  \/ \E idempotent \in BOOLEAN : EndOfHandler(idempotent)

HandlerSpec == HandlerInit /\ [][HandlerNext]_handlerVars
-----------------------------------------------------------------------------
Of(status, kinds) == {s \in sent : s[1] = status /\ s[2] \in kinds}
Values == {"value", "variable", "other"}

\* The statuses that stand in the source as such.
Readable == {s[1] : s \in {x \in sent : x[2] # "unread"}}

\* The source tells the type of the value where docsgen looks for it.
Tells(s) == s[2] = "value" \/ (s[2] = "variable" /\ told)

Schema(status) ==
  IF responses[status].schema = Variable THEN inferred ELSE responses[status].schema

(***************************************************************************)
(* The statuses of the document are the ones the handler and the           *)
(* idempotency middleware answer with, where the source spells them (a     *)
(* status in a variable, or a constant that statusCode does not know, is   *)
(* left out in silence).  A status that only reports errors lists each     *)
(* message, and once where the handler alone reports them (main.go:393-410, *)
(* and TestErrorDescriptionsAreUnique); one that only sends values of one  *)
(* type shows that type, or just an object if the source does not tell it  *)
(* by a literal, a declaration or one of several results: never another    *)
(* type; and the request body is the first value decoded (request.go:9).   *)
(***************************************************************************)
ResponsesAsSent ==
  docs = "described" =>
    /\ DOMAIN responses = Readable
    /\ \A status \in DOMAIN responses :
         LET shown  == responses[status]
             values == Of(status, Values)
             errors == Of(status, {"error", "key"})
         IN  /\ values = {} => /\ shown.schema = Error
                               /\ ToSet(shown.messages) = {s[3] : s \in errors}
                               /\ Of(status, {"key"}) = {} => IsInjective(shown.messages)
             /\ errors = {} /\ ~ambiguous /\ (\A s, t \in values : s[3] = t[3])
                  => \A s \in values : \/ Schema(status) = s[3]
                                       \/ Schema(status) = Unknown /\ \E t \in values : ~Tells(t)
    /\ decoded # <<>> =>
         request = IF Head(decoded).told THEN Head(decoded).type ELSE Unknown

\* Types other than structs that contain themselves.
Cyclic(p) ==
  LET plain == {n \in DOMAIN Decls[p] : ~Decls[p][n].struct}
  IN  \E s \in (SUBSET plain) \ {{}} : \A n \in s : ToSet(Decls[p][n].uses) \cap s # {}

(***************************************************************************)
(* Every schema the document refers to is there, and it is the one of the  *)
(* type the handler uses unless another package has a struct of that name  *)
(* (components are keyed by the bare name, main.go:598); types that        *)
(* contain themselves end the recursion as long as a struct is between.    *)
(***************************************************************************)
RefsMeanTheirTypes ==
  /\ docs = "done" =>
       \A ref \in refs :
         /\ ref[2] \in DOMAIN components
         /\ components[ref[2]] = ref[1] \/ \E other \in refs \ {ref} : other[2] = ref[2]
  /\ docs = "crashed" => Cyclic(pkg)
-----------------------------------------------------------------------------
(* What every state satisfies, and why the two properties hold. *)

Texts == Messages \cup {KeyMessage[s] : s \in Conflicts}

\* What a call leaves of the value it sends.
Records(schema, s) == \/ s[2] = "value" /\ schema = s[3] /\ schema # Variable
                      \/ s[2] = "variable" /\ schema = Variable
                      \/ s[2] = "other" /\ schema = Unknown

\* What the document shows for a status, while the handler is described.
Shows(status) ==
  LET shown  == responses[status]
      values == Of(status, Values)
      errors == Of(status, {"error", "key"})
  IN  /\ shown = [messages |-> shown.messages, schema |-> shown.schema]
      /\ shown.messages \in Seq(Texts)
      /\ values = {} => /\ shown.schema = Error
                        /\ ToSet(shown.messages) = {s[3] : s \in errors}
                        /\ Of(status, {"key"}) = {} => IsInjective(shown.messages)
      /\ errors = {} => \E s \in values : Records(shown.schema, s)

\* As long as there is one type to infer, it is the type of the variable.
TypesInv ==
  /\ IF told THEN actual # Unknown /\ (~ambiguous => inferred = actual) ELSE inferred = Unknown
  /\ \A s \in sent : s[2] = "variable" => s[3] # Unknown /\ (~ambiguous => s[3] = actual)

AnswersInv ==
  /\ DOMAIN responses = Readable
  /\ \A status \in DOMAIN responses : Shows(status)
  /\ TypesInv
  /\ decoded \in Seq([type : DOMAIN Decls[pkg], told : BOOLEAN])
  /\ decoded # <<>> => request = IF Head(decoded).told THEN Head(decoded).type ELSE Unknown

Frames(p) == [name : DOMAIN Decls[p], rest : Seq(STRING)]
StructIn(p, name) == Decls[p][name].struct
UsedIn(p, name) == ToSet(Decls[p][name].uses)

\* A way through the declarations that meets every struct, the ones of V, once at most.
Way(p, fs, V) ==
  /\ fs \in Seq(Frames(p))
  /\ \A k \in DOMAIN fs : /\ ToSet(fs[k].rest) \subseteq UsedIn(p, fs[k].name)
                          /\ k > 1 => fs[k].name \in UsedIn(p, fs[k - 1].name)
                          /\ StructIn(p, fs[k].name) => fs[k].name \in V
  /\ \A j, k \in DOMAIN fs : StructIn(p, fs[j].name) /\ fs[j].name = fs[k].name => j = k
  /\ \A name \in V : StructIn(p, name) /\ \E k \in DOMAIN fs : fs[k].name = name

StackInv ==
  /\ Way(pkg, stack, visiting)
  /\ docs \in {"next", "described", "done"} => stack = <<>>
  /\ docs = "crashed" => Len(stack) > Deepest

\* What is referred to is described, or will be when its expansion ends.
ComponentsInv ==
  /\ \A name \in visiting : <<pkg, name>> \in refs
  /\ \A name \in DOMAIN components : <<components[name], name>> \in refs
  /\ \A ref \in refs : ref[2] \in DOMAIN components \cup visiting

HandlerInv ==
  /\ pkg \in Packages /\ docs \in {"next", "describing", "described", "done", "crashed"}
  /\ ambiguous \in BOOLEAN /\ told \in BOOLEAN
  /\ AnswersInv /\ StackInv /\ ComponentsInv
=============================================================================
