--------------------------- MODULE MCMangledNames ---------------------------
(***************************************************************************)
(* Declarations for the demangler: functions in no scope, whose parameters *)
(* repeat each other's types; members, constructors, destructors and       *)
(* operators of a class in a namespace; instances of templates; objects,   *)
(* local ones included, and the compiler's own tables and thunks.          *)
(***************************************************************************)
EXTENDS MangledNames

MCSourceName == "1A" :> "A" @@ "1B" :> "B" @@ "1C" :> "C" @@ "1N" :> "N" @@ "1f" :> "f" @@ "1x" :> "x" @@
                "12_GLOBAL__N_1" :> "_GLOBAL__N_1"

Builtin(t) == <<"builtin", t, <<>>>>
Source(t) == <<"source", t, <<>>>>
Qual(q, n) == <<"qual", q, <<n>>>>
Nested(scope, n) == <<"nested", "", <<scope, n>>>>
Template(n, args) == <<"template", "", <<n>> \o args>>

A == Source("1A")
B == Source("1B")
C == Source("1C")
N == Source("1N")
F == Source("1f")

Function(name) == [special |-> <<>>, name |-> name, cv |-> <<>>, result |-> <<>>, params |-> <<>>]

Parameters(types, max) == UNION {[1 .. n -> types] : n \in 1 .. max}

Operator(t) == <<"operator", t, <<>>>>
Std(t) == <<"std", t, <<>>>>
T_ == <<"param", "T_", <<>>>>
Literal(value, type) == <<"literal", value, <<Builtin(type)>>>>
Pointed(f) == Qual("P", <<"function", "", f>>)

----------------------------------------------------------------------------
(***************************************************************************)
(* Functions in no scope, or in std: any two types, of which the second is *)
(* abbreviated as far as it repeats the first.                             *)
(***************************************************************************)

FreeTypes ==
    {Builtin("i"), A, Qual("P", A), Qual("R", Qual("K", A)), Qual("P", Qual("K", Builtin("c"))),
     Nested(N, A), Qual("P", Nested(N, A)), <<"abbreviation", "Ss", <<>>>>, Std("1A"),
     Qual("P", Template(B, <<A>>)), Qual("P", Template(Std("1C"), <<Qual("P", A), Template(C, <<Builtin("i")>>)>>)),
     Qual("R", <<"array", "5", <<A>>>>), <<"member", "", <<A, Builtin("i")>>>>}

FreeFunctions ==
    {[Function(n) EXCEPT !.params = p] : n \in {F, Operator("pl"), Std("1f")}, p \in Parameters(FreeTypes, 2)}

OneParameter ==
    {[Function(F) EXCEPT !.params = <<t>>] :
        t \in {Builtin(b) : b \in DOMAIN BuiltinText}
              \union {Pointed(<<A, B>>), Pointed(<<Builtin("v"), Qual("P", A)>>), Qual("r", Qual("P", A))}}

(***************************************************************************)
(* Members, with the qualifiers of their this; constructors; destructors.  *)
(***************************************************************************)

Scopes ==
    {A, Nested(N, A), Nested(Source("12_GLOBAL__N_1"), A), Template(A, <<Builtin("i")>>), Std("1A"),
     Nested(Nested(N, A), B), Template(Nested(N, A), <<B, Literal("5", "i"), Literal("1", "b")>>)}

MemberNames == {F, <<"ctor", "C1", <<>>>>, <<"dtor", "D0", <<>>>>, Operator("eq"), Operator("ix"), Operator("ml")}

Members ==
    {e \in {[Function(Nested(scope, n)) EXCEPT !.cv = cv, !.params = p] :
                scope \in Scopes, n \in MemberNames, cv \in {<<>>, <<"K">>, <<"V", "K">>},
                p \in Parameters({Builtin("v"), Qual("P", Nested(N, A)), Qual("P", A), B}, 2)} :
        OnlyNameAbbreviated(e)}

(***************************************************************************)
(* Instances of function templates, whose names give the result too.       *)
(***************************************************************************)

Instances ==
    {e \in {[Function(Template(F, args)) EXCEPT !.result = <<r>>, !.params = <<p>>] :
                args \in {<<Builtin("i")>>, <<A>>, <<Qual("P", A), Builtin("i")>>},
                r \in {Builtin("v"), T_, Qual("P", T_)},
                p \in {T_, Builtin("c"), Qual("P", T_), Qual("R", Qual("K", T_))}} :
        OnlyNameAbbreviated(e)}
    \union {[Function(Template(F, <<Literal("5", "i")>>)) EXCEPT
                !.result = <<Builtin("v")>>, !.params = <<Qual("R", <<"array", "T_", <<Builtin("i")>>>>)>>]}

(***************************************************************************)
(* Objects, local ones and their guards; the tables of a class; the thunks *)
(* of its virtual functions; the types a type_info names.                  *)
(***************************************************************************)

X == Source("1x")

Local(name) == <<"local", "1x", <<name, Qual("P", A), A>>>>

Objects ==
    {[Function(n) EXCEPT !.special = s] :
        n \in {Nested(N, X), Nested(Nested(N, A), X), Nested(Template(A, <<B>>), X), Std("1x"), Local(F)},
        s \in {<<>>, <<"GV">>}}

Tables ==
    {[Function(n) EXCEPT !.special = <<s>>] :
        n \in {A, Nested(N, A), Template(A, <<Template(B, <<Builtin("i")>>), A>>)}, s \in {"TV", "TT", "TI", "TS", "type"}}

Thunks ==
    {[Function(Nested(scope, F)) EXCEPT !.special = <<"Th", "n", "8", "_">>, !.params = <<p>>] :
        scope \in {A, Nested(N, A)}, p \in {Builtin("v"), Qual("P", B)}}

MCDeclarations == FreeFunctions \union OneParameter \union Members \union Instances
                  \union Objects \union Tables \union Thunks
=============================================================================
