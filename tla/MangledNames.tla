---------------------------- MODULE MangledNames ----------------------------
(***************************************************************************)
(* What the demangler promises: "Decode the input string by IA-64 C++ ABI  *)
(* style".  The mangling of that ABI, which the compiler applies and no    *)
(* code of the repository does, is written here as an operator on the      *)
(* declarations of a program, and the text of a declaration as another.    *)
(*                                                                         *)
(* A node of a declaration is <<kind, label, nodes>>:                      *)
(*   builtin, source, std   label is the token                             *)
(*   qual                   label is the qualifier, of the only node       *)
(*   nested                 a scope and an unqualified name                *)
(*   template               a name and its arguments                       *)
(*   literal                label is the value, of the type that is a node *)
(*   array, member          label is the bound; the class and the type     *)
(*   function               the result and the parameter                   *)
(*   operator, ctor, dtor   label is the token                             *)
(*   local                  label is the object; a function and parameters *)
(*   param                  T_                                             *)
(***************************************************************************)
EXTENDS Demangler

Kind(n) == n[1]
Label(n) == n[2]
Node(n, i) == n[3][i]

----------------------------------------------------------------------------
(***************************************************************************)
(* The mangling.  m.out is what is written and m.dict the nodes that later *)
(* ones are abbreviated to, in the order of their first appearance.        *)
(***************************************************************************)

Emit(m, tokens) == [m EXCEPT !.out = @ \o tokens]

Remember(m, n) == [m EXCEPT !.dict = Append(@, n)]

Known(m, n) == \E i \in 1 .. Len(m.dict) : m.dict[i] = n

Abbreviate(m, n) == Emit(m, <<Substitutions[Position(m.dict, n)]>>)

\* Whether a name is written between N and E.
RECURSIVE IsNested(_, _)
IsNested(m, n) ==
    /\ ~Known(m, n)
    /\ \/ Kind(n) = "nested"
       \/ Kind(n) = "template" /\ IsNested(m, Node(n, 1))

RECURSIVE MangleType(_, _), MangleTypes(_, _)

RECURSIVE MangleName(_, _)
MangleName(m, n) ==
    IF Known(m, n) THEN Abbreviate(m, n)
    ELSE CASE Kind(n) = "source" -> Remember(Emit(m, <<Label(n)>>), n)
           [] Kind(n) = "std" -> Remember(Emit(m, <<"St", Label(n)>>), n)
           [] Kind(n) = "nested" ->
                  Remember(Emit(MangleName(m, Node(n, 1)), <<Label(Node(n, 2))>>), n)
           [] Kind(n) = "template" ->
                  Remember(Emit(MangleTypes(Emit(MangleName(m, Node(n, 1)), <<"I">>), Tail(n[3])), <<"E">>), n)

MangleType(m, n) ==
    CASE Kind(n) \in {"builtin", "abbreviation"} -> Emit(m, <<Label(n)>>)
      [] Kind(n) = "literal" -> Emit(m, <<"L", Label(Node(n, 1)), Label(n), "E">>)
      [] OTHER ->
             IF Known(m, n) THEN Abbreviate(m, n)
             ELSE CASE Kind(n) = "param" -> Remember(Emit(m, <<Label(n)>>), n)
                    [] Kind(n) = "qual" -> Remember(MangleType(Emit(m, <<Label(n)>>), Node(n, 1)), n)
                    [] Kind(n) = "array" ->
                           Remember(MangleType(Emit(m, <<"A", Label(n), "_">>), Node(n, 1)), n)
                    [] Kind(n) = "member" -> Remember(MangleTypes(Emit(m, <<"M">>), n[3]), n)
                    [] Kind(n) = "function" ->
                           Remember(Emit(MangleTypes(Emit(m, <<"F">>), n[3]), <<"E">>), n)
                    [] OTHER -> IF IsNested(m, n)
                                THEN Emit(MangleName(Emit(m, <<"N">>), n), <<"E">>)
                                ELSE MangleName(m, n)

MangleTypes(m, nodes) ==
    IF nodes = <<>> THEN m ELSE MangleTypes(MangleType(m, Head(nodes)), Tail(nodes))

\* The name of a function or an object; the whole of it is never abbreviated.
RECURSIVE MangleEntity(_, _, _)
MangleEntity(m, n, cv) ==
    CASE Kind(n) \in {"source", "operator"} -> Emit(m, <<Label(n)>>)
      [] Kind(n) = "std" -> Emit(m, <<"St", Label(n)>>)
      [] Kind(n) = "nested" ->
             Emit(MangleName(Emit(m, <<"N">> \o cv), Node(n, 1)), <<Label(Node(n, 2)), "E">>)
      [] Kind(n) = "template" ->
             Emit(MangleTypes(Emit(MangleName(m, Node(n, 1)), <<"I">>), Tail(n[3])), <<"E">>)
      [] Kind(n) = "local" ->
             LET function == MangleEntity(Emit(m, <<"Z">>), Node(n, 1), <<>>)
             IN  Emit(MangleTypes(function, Tail(n[3])), <<"E", Label(n)>>)

Unmangled == [out |-> <<"_Z">>, dict |-> <<>>]

\* A declaration: the special name it is for, if any; a name; the qualifiers of
\* a member function; its result, if it is mangled; its parameters.
Named(e) == MangleEntity(Emit(Unmangled, e.special), e.name, e.cv)

Mangled(e) ==
    CASE e.special = <<"type">> -> MangleType([Unmangled EXCEPT !.out = <<>>], e.name).out
      [] e.special \in {<<"TV">>, <<"TT">>, <<"TI">>, <<"TS">>} ->
             MangleType(Emit(Unmangled, e.special), e.name).out
      [] OTHER -> MangleTypes(Named(e), e.result \o e.params).out

----------------------------------------------------------------------------
(***************************************************************************)
(* The text, up to blanks.                                                 *)
(***************************************************************************)

\* The builtin types of the ABI.
BuiltinText ==
    ("v" :> "void" @@ "w" :> "wchar_t" @@ "b" :> "bool" @@ "c" :> "char" @@ "a" :> "signed char" @@
     "h" :> "unsigned char" @@ "s" :> "short" @@ "t" :> "unsigned short" @@ "i" :> "int" @@
     "j" :> "unsigned int" @@ "l" :> "long" @@ "m" :> "unsigned long" @@ "x" :> "long long" @@
     "y" :> "unsigned long long" @@ "n" :> "__int128" @@ "o" :> "unsigned __int128" @@
     "f" :> "float" @@ "d" :> "double" @@ "e" :> "long double" @@ "g" :> "__float128" @@
     "z" :> "..." @@ "Di" :> "char32_t" @@ "Ds" :> "char16_t" @@ "Dn" :> "decltype(nullptr)")

QualText == "P" :> "*" @@ "R" :> "&" @@ "K" :> " const" @@ "V" :> " volatile" @@ "r" :> " restrict"

RECURSIVE Unqualified(_)
Unqualified(n) ==
    CASE Kind(n) \in {"source", "std"} -> SourceName[Label(n)]
      [] Kind(n) = "nested" -> Unqualified(Node(n, 2))
      [] Kind(n) = "template" -> Unqualified(Node(n, 1))

RECURSIVE Text(_, _), Texts(_, _)
\* args are the template arguments that T_ stands for.
Text(n, args) ==
    CASE Kind(n) = "builtin" -> <<BuiltinText[Label(n)]>>
      [] Kind(n) = "abbreviation" -> <<"std::", "string">>
      [] Kind(n) = "source" -> <<IF SourceName[Label(n)] = "_GLOBAL__N_1" THEN "(anonymous namespace)"
                                 ELSE SourceName[Label(n)]>>
      [] Kind(n) = "std" -> <<"std::", SourceName[Label(n)]>>
      [] Kind(n) = "operator" -> <<OperatorName[Label(n)]>>
      [] Kind(n) = "param" -> Text(args[1], <<>>)
      [] Kind(n) = "literal" -> <<IF Label(Node(n, 1)) # "b" THEN Label(n)
                                  ELSE IF Label(n) = "1" THEN "true" ELSE "false">>
      [] Kind(n) = "nested" ->
             Text(Node(n, 1), args) \o
             (CASE Kind(Node(n, 2)) = "ctor" -> <<"::", Unqualified(Node(n, 1))>>
                [] Kind(Node(n, 2)) = "dtor" -> <<"::~", Unqualified(Node(n, 1))>>
                [] OTHER -> <<"::">> \o Text(Node(n, 2), args))
      [] Kind(n) = "template" -> Text(Node(n, 1), args) \o <<"<">> \o Texts(Tail(n[3]), args) \o <<">">>
      [] Kind(n) = "local" ->
             Text(Node(n, 1), args) \o <<"(">> \o Texts(Tail(n[3]), args) \o <<")", "::", SourceName[Label(n)]>>
      [] Kind(n) = "array" ->
             Text(Node(n, 1), args) \o <<"[">>
             \o (IF Label(n) = "T_" THEN Text(args[1], <<>>) ELSE <<Label(n)>>) \o <<"]">>
      [] Kind(n) = "member" -> Text(Node(n, 2), args) \o Text(Node(n, 1), args) \o <<"::*">>
      [] Kind(n) = "qual" ->
             IF Kind(Node(n, 1)) # "function" THEN Text(Node(n, 1), args) \o <<QualText[Label(n)]>>
             ELSE LET function == Node(n, 1)
                  IN  Text(Node(function, 1), args) \o <<"(", QualText[Label(n)], ")", "(">>
                      \o Texts(Tail(function[3]), args) \o <<")">>

Texts(nodes, args) ==
    IF Len(nodes) = 1 THEN Text(nodes[1], args)
    ELSE Text(Head(nodes), args) \o <<", ">> \o Texts(Tail(nodes), args)

SpecialText ==
    (<<"TV">> :> <<"vtable for ">> @@ <<"TT">> :> <<"VTT for ">> @@ <<"TI">> :> <<"typeinfo for ">> @@
     <<"TS">> :> <<"typeinfo name for ">> @@ <<"GV">> :> <<"guard variable for ">> @@
     <<>> :> <<>> @@ <<"type">> :> <<>> @@
     <<"Th", "n", "8", "_">> :> <<"virtual function non-virtual override ", "offset : ", "-", "8">>)

Shown(e) ==
    LET args == IF Kind(e.name) = "template" THEN Tail(e.name[3]) ELSE <<>>
        cv == [i \in 1 .. Len(e.cv) |-> QualText[e.cv[i]]]
    IN  SpecialText[e.special]
        \o (IF e.result = <<>> THEN <<>> ELSE Text(e.result[1], args))
        \o Text(e.name, args)
        \o (IF e.params = <<>> THEN <<>> ELSE <<"(">> \o Texts(e.params, args) \o <<")">>)
        \o cv

Words(text) == SelectSeq(text, LAMBDA word : word # " ")

----------------------------------------------------------------------------
(***************************************************************************)
(* A declaration is mangled and its name demangled.                        *)
(***************************************************************************)

CONSTANT Declarations

VARIABLES entity, ddata

namesVars == <<entity, ddata>>

\* Whether the parameters of e abbreviate only what its name mentions.  A
\* function in a scope, and an instance of a template, are themselves entered
\* among the substitutions, so that the number of a later one is not the ABI's.
OnlyNameAbbreviated(e) ==
    LET named == Len(Named(e).out)
        mangled == Mangled(e)
    IN  \A i \in named + 1 .. Len(mangled) :
            \A k \in Len(Named(e).dict) + 1 .. Len(Substitutions) : mangled[i] # Substitutions[k]

NamesInit ==
    /\ entity \in Declarations
    /\ ddata = cxa_demangle_gnu3(Mangled(entity))

DemangleStep ==
    /\ ddata.calls # <<>>
    /\ ddata' = Step(ddata)
    /\ UNCHANGED entity

\* The demangled name of a declaration is its text: scopes, templates,
\* constructors, operators and parameters are written where they belong, and
\* an abbreviation stands for what the ABI says it does.
NameDecoded == ddata.calls = <<>> => Words(Demangled(ddata)) = Shown(entity)

=============================================================================
