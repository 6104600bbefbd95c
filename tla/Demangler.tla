----------------------------- MODULE Demangler -----------------------------
(***************************************************************************)
(* The demangler of the C++ runtime (libcxxrt/libelftc_dem_gnu3.c), which  *)
(* turns the mangled names of a symbol table into the text of a backtrace. *)
(*                                                                         *)
(* A mangled name is a sequence of the tokens of its grammar and a text is *)
(* a sequence of words.  The functions of the code call each other         *)
(* recursively.  Here their calls are a stack in the state, d.calls: an    *)
(* operator named after a function does what the function does up to its   *)
(* first call of another one, and pushes that call and what is left to do  *)
(* after it.  A failure ends all of them, as "if (!cpp_demangle_...)       *)
(* return (0);" does after each call.                                      *)
(***************************************************************************)
EXTENDS Integers, Sequences, SequencesExt, TLC

\* SourceName[t] is the identifier that the token t ("3foo") spells.
CONSTANT SourceName

\* sizeof(long double): 16 bytes on x86_64, 12 on i386.
CONSTANT SIZEOF_LONG_DOUBLE

CPP_DEMANGLE_TRY_LIMIT == 128

----------------------------------------------------------------------------
(***************************************************************************)
(* struct vector_str: an array of texts that grows as it is pushed to.     *)
(***************************************************************************)

vector_str_find(v, o) == \E i \in 1 .. Len(v) : IsPrefix(o, v[i])

vector_str_get_flat(v) == FlattenSeq(v)

vector_str_pop(v) == IF v = <<>> THEN v ELSE Front(v)

vector_str_push(v, str) == Append(v, str)

vector_str_push_vector_head(dst, org) == org \o dst

\* From index begin to the last one; the empty text stands for NULL.
vector_str_substr(v, begin) == FlattenSeq(SubSeq(v, begin + 1, Len(v)))

----------------------------------------------------------------------------
(***************************************************************************)
(* struct cpp_demangle_data                                                *)
(***************************************************************************)

cpp_demangle_data_init(cur) ==
    [cur |-> cur, output |-> <<>>, output_tmp |-> <<>>, subst |-> <<>>, tmpl |-> <<>>,
     class_type |-> <<>>, cmd |-> <<>>, paren |-> FALSE, pfirst |-> FALSE,
     mem_rst |-> FALSE, mem_vat |-> FALSE, mem_cst |-> FALSE,
     func_type |-> 0, last_sname |-> <<>>, push_head |-> 0,
     ok |-> TRUE, calls |-> <<>>]

\* *ddata->cur, with "" for the NUL behind the name.
Cur(d) == IF d.cur = <<>> THEN "" ELSE Head(d.cur)

\* ddata->cur += n
Skip(d, n) == [d EXCEPT !.cur = SubSeq(@, n + 1, Len(@))]

GiveUp(d) == [d EXCEPT !.ok = FALSE, !.calls = <<>>]

\* Make these calls before what is left to do.
Call(d, calls) == [d EXCEPT !.calls = calls \o @]

\* What cpp_demangle_push_str() appends to, and the functions look back at.
Output(d) == IF d.push_head > 0 THEN d.output_tmp ELSE d.output

SetOutput(d, v) == IF d.push_head > 0 THEN [d EXCEPT !.output_tmp = v] ELSE [d EXCEPT !.output = v]

cpp_demangle_push_str(d, str) == SetOutput(d, vector_str_push(Output(d), str))

cpp_demangle_push_subst(d, str) ==
    IF vector_str_find(d.subst, str) THEN d ELSE [d EXCEPT !.subst = vector_str_push(@, str)]

\* Whether a piece of the output begins with ">".
ClosesTemplate(piece) == piece[1] \in {">", ">=", ">>", ">>="}

vector_read_cmd_find(d, command) == \E i \in 1 .. Len(d.cmd) : d.cmd[i] = command

vector_read_cmd_push(d, command) == [d EXCEPT !.cmd = Append(@, command)]

vector_read_cmd_pop(d) == IF d.cmd = <<>> THEN GiveUp(d) ELSE [d EXCEPT !.cmd = Front(@)]

\* struct vector_type_qualifier: the qualifiers of a type as they are read,
\* and the texts of those that have one.
vector_type_qualifier_init == [q |-> <<>>, ext_name |-> <<>>]

vector_type_qualifier_push(v, t) == [v EXCEPT !.q = Append(@, t)]

QualifierText(t, ext_name) ==
    CASE t = "P" -> <<"*">>
      [] t = "R" -> <<"&">>
      [] t = "C" -> <<" complex">>
      [] t = "G" -> <<" imaginary">>
      [] t = "r" -> <<" restrict">>
      [] t = "V" -> <<" volatile">>
      [] t = "K" -> <<" const">>
      [] t = "Dv" -> <<" __vector(">> \o ext_name \o <<")">>

\* The qualifiers are written from the last one read to the first.  Each makes
\* a new type that a substitution can name, unless type_str is NULL.
cpp_demangle_push_type_qualifier(d, v, type_str) ==
    LET Write(acc, t) ==
            LET text == QualifierText(t, IF t = "Dv" THEN v.ext_name[acc.e_idx] ELSE <<>>)
                subst == acc.subst \o text
                pushed == cpp_demangle_push_str(acc.d, text)
            IN  [d |-> IF type_str = <<>> THEN pushed ELSE cpp_demangle_push_subst(pushed, subst),
                 subst |-> subst,
                 e_idx |-> acc.e_idx + (IF t = "Dv" THEN 1 ELSE 0)]
    IN  FoldLeft(Write, [d |-> d, subst |-> type_str, e_idx |-> 1], Reverse(v.q)).d

\* The _flat variants of the readers: take back what was written from begin on.
TakeBack(d, begin) == SetOutput(d, SubSeq(Output(d), 1, begin))

Written(d, begin) == vector_str_substr(Output(d), begin)

----------------------------------------------------------------------------
(***************************************************************************)
(* The calls, and what is left to do after one.                            *)
(***************************************************************************)

Str(text) == <<"push_str", text>>
Advance(n) == <<"skip", n>>
ReadType(delimit) == <<"read_type", delimit>>
ReadName == <<"read_name">>
ReadUqname == <<"read_uqname">>
ReadOffset == <<"read_offset">>
ReadEncoding == <<"read_encoding">>
ReadExpression == <<"read_expression">>
ReadTmplArgs == <<"read_tmpl_args">>

----------------------------------------------------------------------------
(***************************************************************************)
(* Numbers and source names                                                *)
(***************************************************************************)

\* The tokens that are runs of digits.
Digits == {"0", "1", "2", "5", "8"}

\* number ::= [n] <decimal>.  The C library's asprintf() does not know the l of
\* "%ld", writes it and the d as they are, and loses the last character.
IsNumber(d) == Cur(IF Cur(d) = "n" THEN Skip(d, 1) ELSE d) \in Digits

cpp_demangle_read_number(d) == Skip(d, IF Cur(d) = "n" THEN 2 ELSE 1)

cpp_demangle_read_number_as_string == <<"l">>

cpp_demangle_read_offset_number(d) ==
    LET start == IF Cur(d) = "n" THEN cpp_demangle_push_str(Skip(d, 1), <<"-">>) ELSE d
    IN  Skip(cpp_demangle_push_str(cpp_demangle_push_str(start, <<Cur(start)>>), <<" ">>), 2)

cpp_demangle_read_nv_offset(d) ==
    cpp_demangle_read_offset_number(cpp_demangle_push_str(d, <<"offset : ">>))

\* The result of the last read is negated: an offset that can be read fails.
cpp_demangle_read_v_offset(d) ==
    GiveUp(cpp_demangle_read_offset_number(
             cpp_demangle_push_str(cpp_demangle_read_nv_offset(d), <<"virtual offset : ">>)))

\* offset ::= h <nv-offset> | v <v-offset>
cpp_demangle_read_offset(d) ==
    CASE Cur(d) = "h" -> cpp_demangle_read_nv_offset(Skip(d, 1))
      [] Cur(d) = "v" -> cpp_demangle_read_v_offset(Skip(d, 1))
      [] OTHER -> GiveUp(d)

\* source-name ::= <length> <identifier>.  The last one read outside of
\* template arguments is what a constructor will be called.
cpp_demangle_read_sname(d) ==
    IF Cur(d) \notin DOMAIN SourceName THEN GiveUp(d)
    ELSE LET name == SourceName[Cur(d)]
             pushed == cpp_demangle_push_str(Skip(d, 1),
                           IF name = "_GLOBAL__N_1" THEN <<"(anonymous namespace)">> ELSE <<name>>)
         IN  IF vector_read_cmd_find(d, "READ_TMPL") THEN pushed
             ELSE [pushed EXCEPT !.last_sname = Last(pushed.output)]

\* The discriminator behind a local name: [_ <digits>]
SkipDiscriminator(d) ==
    IF Cur(d) # "_" THEN d ELSE Skip(d, IF Cur(Skip(d, 1)) \in Digits THEN 2 ELSE 1)

cpp_demangle_local_source_name(d) ==
    LET named == cpp_demangle_read_sname(Skip(d, 1)) IN IF named.ok THEN SkipDiscriminator(named) ELSE named

----------------------------------------------------------------------------
(***************************************************************************)
(* Unqualified names: operators, constructors, source names                *)
(***************************************************************************)

\* The cases of the operator switch, in the order of the code.
OperatorsFromAToG ==
    ("aa" :> "operator&&" @@ "ad" :> "operator&" @@ "an" :> "operator&" @@ "aN" :> "operator&=" @@
     "aS" :> "operator=" @@ "cl" :> "operator()" @@ "cm" :> "operator," @@ "co" :> "operator~" @@
     "da" :> "operator delete []" @@ "de" :> "operator*" @@ "dl" :> "operator delete" @@
     "dv" :> "operator/" @@ "dV" :> "operator/=" @@ "eo" :> "operator^" @@ "eO" :> "operator^=" @@
     "eq" :> "operator==" @@ "ge" :> "operator>=" @@ "gt" :> "operator>")

OperatorsFromIToO ==
    ("ix" :> "operator[]" @@ "le" :> "operator<=" @@ "ls" :> "operator<<" @@ "lS" :> "operator<<=" @@
     "lt" :> "operator<" @@ "mi" :> "operator-" @@ "mI" :> "operator-=" @@ "ml" :> "operator*" @@
     "mL" :> "operator*=" @@ "mm" :> "operator--" @@ "na" :> "operator new []" @@
     "ne" :> "operator!=" @@ "ng" :> "operator-" @@ "nt" :> "operator!" @@
     "nw" :> "operator new" @@ "oo" :> "operator||" @@ "or" :> "operator|" @@ "oR" :> "operator|=")

OperatorsFromPToS ==
    ("pl" :> "operator+" @@ "pL" :> "operator+=" @@ "pm" :> "operator->*" @@ "pp" :> "operator++" @@
     "ps" :> "operator+" @@ "pt" :> "operator->" @@ "qu" :> "operator?" @@ "rm" :> "operator%" @@
     "rM" :> "operator%=" @@ "rs" :> "operator>>" @@ "rS" :> "operator>>=" @@
     "rz" :> "operator sizeof " @@ "sr" :> "scope resolution operator " @@ "sv" :> "operator sizeof ")

OperatorName == OperatorsFromAToG @@ OperatorsFromIToO @@ OperatorsFromPToS

VendorOperators == "v0" :> "0" @@ "v1" :> "1" @@ "v2" :> "2"

\* ctor-dtor-name: the class is the last source name.
CtorDtorName(d, mark) ==
    IF d.last_sname = <<>> THEN GiveUp(d)
    ELSE Skip(cpp_demangle_push_str(cpp_demangle_push_str(d, <<mark>>), d.last_sname), 1)

cpp_demangle_read_uqname(d) ==
    CASE Cur(d) = "" -> GiveUp(d)
      [] Cur(d) \in DOMAIN OperatorName -> Skip(cpp_demangle_push_str(d, <<OperatorName[Cur(d)]>>), 1)
      [] Cur(d) = "cv" ->
             Call(Skip(cpp_demangle_push_str(d, <<"operator(cast)">>), 1), <<ReadType(TRUE)>>)
      [] Cur(d) \in DOMAIN VendorOperators ->
             LET vendor == cpp_demangle_push_str(d, <<"vendor extened operator ">>)
             IN  cpp_demangle_read_sname(
                     Skip(cpp_demangle_push_str(vendor, <<VendorOperators[Cur(d)]>>), 1))
      [] Cur(d) \in {"C1", "C2", "C3"} -> CtorDtorName(d, "::")
      [] Cur(d) \in {"D0", "D1", "D2"} -> CtorDtorName(d, "::~")
      [] Cur(d) \in DOMAIN SourceName -> cpp_demangle_read_sname(d)
      [] Cur(d) = "L" -> cpp_demangle_local_source_name(d)
      [] OTHER -> d

----------------------------------------------------------------------------
(***************************************************************************)
(* Literals and expressions                                                *)
(***************************************************************************)

\* decode_fp_to_xxx(): a run of hexadecimal digits is a number when it has no
\* more than bytes of them.  The C library's snprintf() does not know "%f" and
\* "%Lf" and writes their letters.  HexDigits[t] is the length of the token t.
HexDigits == "40000000" :> 8 @@ "4000000000000000" :> 16 @@ "400" :> 3

decode_fp(token, bytes, text) ==
    IF token \in DOMAIN HexDigits /\ HexDigits[token] % 2 = 0 /\ HexDigits[token] \div 2 =< bytes
    THEN <<text>> ELSE <<>>

decode_fp_to_double(token) == decode_fp(token, 8, "fld")

decode_fp_to_float(token) == decode_fp(token, 4, "ff")

decode_fp_to_long_double(token) == decode_fp(token, SIZEOF_LONG_DOUBLE, "Lfd")

decode_fp_to_float80(token) ==
    CASE SIZEOF_LONG_DOUBLE = 16 -> decode_fp(token, 10, "Lfd")
      [] SIZEOF_LONG_DOUBLE = 10 -> decode_fp_to_long_double(token)
      [] OTHER -> <<>>

decode_fp_to_float128(token) ==
    CASE SIZEOF_LONG_DOUBLE = 16 -> decode_fp_to_long_double(token)
      [] SIZEOF_LONG_DOUBLE = 10 -> decode_fp(token, 16, "Lfd")
      [] OTHER -> <<>>

cpp_demangle_push_fp(d, text) ==
    IF text = <<>> THEN GiveUp(d) ELSE Skip(cpp_demangle_push_str(d, text), 2)

FloatLiteral(d, type, token) ==
    cpp_demangle_push_fp(d, CASE type = "f" -> decode_fp_to_float(token)
                              [] type = "d" \/ (type = "e" /\ SIZEOF_LONG_DOUBLE = 10)
                                            \/ (type = "g" /\ SIZEOF_LONG_DOUBLE = 16)
                                 -> decode_fp_to_double(token)
                              [] type = "e" /\ SIZEOF_LONG_DOUBLE # 10 -> decode_fp_to_float80(token)
                              [] type = "g" /\ SIZEOF_LONG_DOUBLE # 16 -> decode_fp_to_float128(token))

BoolLiteral(d, token) ==
    CASE Cur(Skip(d, 1)) # "E" -> GiveUp(d)
      [] Cur(Skip(d, 1)) = "E" /\ token = "0" -> Skip(cpp_demangle_push_str(d, <<"false">>), 2)
      [] Cur(Skip(d, 1)) = "E" /\ token = "1" -> Skip(cpp_demangle_push_str(d, <<"true">>), 2)
      [] OTHER -> GiveUp(d)

IntegerLiteral(d) ==
    LET digits == IF Cur(d) = "n" THEN cpp_demangle_push_str(Skip(d, 1), <<"-">>) ELSE d
    IN  IF Cur(digits) \in Digits /\ Cur(Skip(digits, 1)) = "E"
        THEN Skip(cpp_demangle_push_str(digits, <<Cur(digits)>>), 2) ELSE GiveUp(d)

\* L <type> <value> E, or L _Z <encoding> E
cpp_demangle_read_expr_primary(d) ==
    LET type == Cur(Skip(d, 1))
        value == Skip(d, 2)
    IN  CASE type = "_Z" -> Call(value, <<ReadEncoding, Advance(1)>>)
          [] type = "b" -> BoolLiteral(value, Cur(value))
          [] type \in {"d", "e", "f", "g"} -> FloatLiteral(value, type, Cur(value))
          [] type \in {"i", "j", "l", "m", "n", "s", "t", "x", "y"} -> IntegerLiteral(value)
          [] OTHER -> GiveUp(d)

Position(seq, token) == CHOOSE i \in 1 .. Len(seq) : seq[i] = token

\* T_ is the first template argument, T<n>_ the one of index n + 1.
TemplateParameters == <<"T_", "T0_", "T1_">>

IsTemplateParameter(token) == \E i \in 1 .. Len(TemplateParameters) : TemplateParameters[i] = token

cpp_demangle_get_tmpl_param(d, idx) ==
    IF idx >= Len(d.tmpl) THEN GiveUp(d) ELSE Skip(cpp_demangle_push_str(d, d.tmpl[idx + 1]), 1)

cpp_demangle_read_tmpl_param(d) ==
    cpp_demangle_get_tmpl_param(d, Position(TemplateParameters, Cur(d)) - 1)

\* The operators of an expression, in the order of the code.
BinaryFromAToL ==
    ("aa" :> "&&" @@ "an" :> "&" @@ "aN" :> "&=" @@ "aS" :> "=" @@ "cl" :> "()" @@ "cm" :> "," @@
     "co" :> "~" @@ "cv" :> "(cast)" @@ "dv" :> "/" @@ "dV" :> "/=" @@ "eo" :> "^" @@ "eO" :> "^=" @@
     "eq" :> "==" @@ "ge" :> ">=" @@ "gt" :> ">" @@ "ix" :> "[]" @@ "le" :> "<=" @@ "ls" :> "<<" @@
     "lS" :> "<<=" @@ "lt" :> "<")

BinaryFromMToR ==
    ("mi" :> "-" @@ "mI" :> "-=" @@ "ml" :> "*" @@ "mL" :> "*=" @@ "mm" :> "--" @@ "ne" :> "!=" @@
     "nt" :> "!" @@ "oo" :> "||" @@ "or" :> "|" @@ "oR" :> "|=" @@ "pl" :> "+" @@ "pL" :> "+=" @@
     "pm" :> "->*" @@ "pp" :> "++" @@ "pt" :> "->" @@ "rm" :> "%" @@ "rM" :> "%=" @@ "rs" :> ">>" @@
     "rS" :> ">>=")

BinaryOperator == BinaryFromAToL @@ BinaryFromMToR

UnaryOperator ==
    ("ad" :> "&" @@ "da" :> "delete []" @@ "de" :> "*" @@ "dl" :> "delete" @@ "na" :> "new []" @@
     "ng" :> "-" @@ "nw" :> "new" @@ "ps" :> "+" @@ "rz" :> "sizeof" @@ "sv" :> "sizeof")

cpp_demangle_read_expression_unary(name) == <<ReadExpression, Str(<<name>>)>>

cpp_demangle_read_expression_binary(name) == <<ReadExpression, Str(<<name>>), ReadExpression>>

cpp_demangle_read_expression_trinary(name1, name2) ==
    <<ReadExpression, Str(<<name1>>), ReadExpression, Str(<<name2>>), ReadExpression>>

\* sr <type> <unqualified-name> [<template-args>]
ScopeResolution == <<ReadType(FALSE), ReadUqname, <<"optional_args">>>>

OptionalArgs(d) == IF Cur(d) = "I" THEN Call(d, <<ReadTmplArgs>>) ELSE d

cpp_demangle_read_expression(d) ==
    LET rest == Skip(d, 1)
    IN  CASE Cur(d) = "st" -> Call(rest, <<ReadType(FALSE)>>)
          [] Cur(d) = "sr" -> Call(rest, ScopeResolution)
          [] Cur(d) \in DOMAIN BinaryOperator ->
                 Call(rest, cpp_demangle_read_expression_binary(BinaryOperator[Cur(d)]))
          [] Cur(d) \in DOMAIN UnaryOperator ->
                 Call(rest, cpp_demangle_read_expression_unary(UnaryOperator[Cur(d)]))
          [] Cur(d) = "qu" -> Call(rest, cpp_demangle_read_expression_trinary("?", ":"))
          [] Cur(d) = "L" -> cpp_demangle_read_expr_primary(d)
          [] IsTemplateParameter(Cur(d)) -> cpp_demangle_read_tmpl_param(d)
          [] OTHER -> GiveUp(d)

----------------------------------------------------------------------------
(***************************************************************************)
(* Template arguments and substitutions                                    *)
(***************************************************************************)

\* An expression is read from its X, at which none begins.
cpp_demangle_read_tmpl_arg(d) ==
    CASE Cur(d) = "L" -> cpp_demangle_read_expr_primary(d)
      [] Cur(d) = "X" -> cpp_demangle_read_expression(d)
      [] Cur(d) = "" -> GiveUp(d)
      [] OTHER -> Call(d, <<ReadType(FALSE)>>)

TemplateArgument(d, limit) ==
    cpp_demangle_read_tmpl_arg(Call(d, <<<<"end_tmpl_arg", Len(Output(d)), limit>>>>))

\* template-args ::= I <template-arg>+ E
cpp_demangle_read_tmpl_args(d) ==
    TemplateArgument(cpp_demangle_push_str(vector_read_cmd_push(Skip(d, 1), "READ_TMPL"), <<"<">>), 0)

EndTemplateArgument(d, begin, limit) ==
    LET arg == Written(d, begin)
        kept == IF vector_str_find(d.tmpl, arg) THEN d ELSE [d EXCEPT !.tmpl = vector_str_push(@, arg)]
        close == IF ClosesTemplate(Last(Output(d))) THEN <<" ", ">">> ELSE <<">">>
    IN  CASE arg = <<>> -> GiveUp(d)
          [] arg # <<>> /\ Cur(d) = "E" ->
                 vector_read_cmd_pop(cpp_demangle_push_str(Skip(kept, 1), close))
          [] arg # <<>> /\ Cur(d) # "E" /\ limit > CPP_DEMANGLE_TRY_LIMIT -> GiveUp(d)
          [] OTHER -> TemplateArgument(IF Cur(d) = "I" THEN kept
                                       ELSE cpp_demangle_push_str(kept, <<", ">>), limit + 1)

\* S_ is the first substitution, S<n>_ the one of index n + 1.
Substitutions == <<"S_", "S0_", "S1_", "S2_", "S3_", "S4_", "S5_", "S6_", "S7_", "S8_">>

cpp_demangle_get_subst(d, idx) ==
    IF idx >= Len(d.subst) THEN GiveUp(d) ELSE Skip(cpp_demangle_push_str(d, d.subst[idx + 1]), 1)

\* The abbreviations of the standard library, and the class some of them name.
StandardName ==
    ("Sa" :> <<"std::", "allocator">> @@ "Sb" :> <<"std::", "basic_string">> @@
     "Sd" :> <<"std::", "basic_iostream">> @@ "Si" :> <<"std::", "basic_istream">> @@
     "So" :> <<"std::", "basic_ostream">> @@ "Ss" :> <<"std::", "string">>)

IsSubstitution(token) ==
    \/ token = "St"
    \/ token \in DOMAIN StandardName
    \/ \E i \in 1 .. Len(Substitutions) : Substitutions[i] = token

\* A name has been written from begin on, behind str.  It, and it with the
\* template arguments that may follow, become substitutions.
EndName(d, str, begin) ==
    LET name == str \o Written(d, begin)
        named == cpp_demangle_push_subst(d, name)
    IN  IF Len(Output(d)) = begin THEN GiveUp(d)
        ELSE IF Cur(d) = "I" THEN Call(named, <<ReadTmplArgs, <<"end_args", name, Len(Output(d))>>>>)
        ELSE named

EndArguments(d, name, begin) == cpp_demangle_push_subst(d, name \o Written(d, begin))

\* St <unqualified-name> [<template-args>]
cpp_demangle_read_subst_std(d) ==
    LET std == Skip(cpp_demangle_push_str(d, <<"std::">>), 1)
    IN  Call(std, <<ReadUqname, <<"end_name", <<"std::">>, Len(Output(std))>>>>)

cpp_demangle_read_subst_stdtmpl(d, str) == Call(d, <<ReadTmplArgs, <<"end_args", str, Len(Output(d))>>>>)

StandardSubstitution(d) ==
    LET name == StandardName[Cur(d)]
        pushed == Skip(cpp_demangle_push_str(d, name), 1)
        named == IF Cur(d) \in {"Sa", "Sb"} THEN pushed ELSE [pushed EXCEPT !.last_sname = <<name[2]>>]
    IN  IF Cur(named) = "I" THEN cpp_demangle_read_subst_stdtmpl(named, name) ELSE named

cpp_demangle_read_subst(d) ==
    CASE Cur(d) = "St" -> cpp_demangle_read_subst_std(d)
      [] Cur(d) \in DOMAIN StandardName -> StandardSubstitution(d)
      [] OTHER -> cpp_demangle_get_subst(d, Position(Substitutions, Cur(d)) - 1)

----------------------------------------------------------------------------
(***************************************************************************)
(* Names                                                                   *)
(***************************************************************************)

\* Whether "operator" occurs in a name; such a name is no substitution, and its
\* template arguments are not read.
NamesOperator(str) ==
    \E i \in 1 .. Len(str) :
        str[i] \in {OperatorName[t] : t \in DOMAIN OperatorName}
                   \union {"operator(cast)", "vendor extened operator "}

\* One part of a nested name, of which v is written.
NestedPart(d, v, limit) ==
    LET after == Call(d, <<<<"end_part", v, Len(Output(d)), limit>>>>)
    IN  CASE Cur(d) = "I" -> cpp_demangle_read_tmpl_args(after)
          [] IsSubstitution(Cur(d)) -> cpp_demangle_read_subst(after)
          [] IsTemplateParameter(Cur(d)) -> cpp_demangle_read_tmpl_param(after)
          [] OTHER -> cpp_demangle_read_uqname(after)

\* A constructor writes the "::" before it.
EndNestedPart(d, v, begin, limit) ==
    LET name == v \o Written(d, begin)
        named == cpp_demangle_push_subst(d, name)
    IN  CASE Len(Output(d)) = begin -> GiveUp(d)
          [] Len(Output(d)) # begin /\ Cur(d) = "E" -> Skip(named, 1)
          [] Len(Output(d)) # begin /\ Cur(d) # "E" /\ limit > CPP_DEMANGLE_TRY_LIMIT -> GiveUp(d)
          [] OTHER -> IF Cur(d) \in {"I", "C1", "C2", "C3", "D0", "D1", "D2"}
                      THEN NestedPart(named, name, limit + 1)
                      ELSE NestedPart(cpp_demangle_push_str(named, <<"::">>), name \o <<"::">>, limit + 1)

\* nested-name ::= N [r] [V] [K] <part>+ E
cpp_demangle_read_nested_name(d) ==
    LET Qualifies(i) == \A j \in 1 .. i : d.cur[1 + j] \in {"r", "V", "K"}
        count == CHOOSE i \in 0 .. 3 : Qualifies(i) /\ ~Qualifies(i + 1)
        Has(t) == \E j \in 1 .. count : d.cur[1 + j] = t
    IN  NestedPart([Skip(d, 1 + count) EXCEPT !.mem_rst = @ \/ Has("r"), !.mem_vat = @ \/ Has("V"),
                                              !.mem_cst = @ \/ Has("K")], <<>>, 0)

\* local-name ::= Z <function encoding> E (s | <name>) [<discriminator>]
cpp_demangle_read_local_name(d) == Call(Skip(d, 1), <<ReadEncoding, <<"local_parameter", 0>>>>)

LocalParameter(d, limit) == Call(d, <<ReadType(TRUE), <<"end_local_parameter", limit>>>>)

EndLocalParameter(d, limit) ==
    LET rest == Skip(d, 1)
        closed == IF d.paren THEN [cpp_demangle_push_str(rest, <<")">>) EXCEPT !.paren = FALSE] ELSE rest
    IN  CASE Cur(d) # "E" -> IF limit > CPP_DEMANGLE_TRY_LIMIT THEN GiveUp(d) ELSE LocalParameter(d, limit + 1)
          [] Cur(d) = "E" /\ Cur(rest) = "" -> GiveUp(d)
          [] Cur(d) = "E" /\ Cur(rest) = "s" -> SkipDiscriminator(Skip(closed, 1))
          [] OTHER -> Call(cpp_demangle_push_str(closed, <<"::">>), <<ReadName, <<"discriminator">>>>)

cpp_demangle_read_name(d) ==
    CASE Cur(d) = "" -> GiveUp(d)
      [] IsSubstitution(Cur(d)) -> cpp_demangle_read_subst(d)
      [] Cur(d) = "N" -> cpp_demangle_read_nested_name(d)
      [] Cur(d) = "Z" -> cpp_demangle_read_local_name(d)
      [] OTHER -> Call(d, <<ReadUqname, <<"end_unscoped", Len(Output(d))>>>>)

EndUnscopedName(d, begin) == IF NamesOperator(Written(d, begin)) THEN d ELSE EndName(d, <<>>, begin)

----------------------------------------------------------------------------
(***************************************************************************)
(* Types                                                                   *)
(***************************************************************************)

\* The builtin types of the type switch, in the order of the code.
BuiltinFromAToD ==
    ("a" :> "signed char" @@ "b" :> "bool" @@ "c" :> "char" @@ "d" :> "double" @@
     "Dd" :> "decimal64" @@ "De" :> "decimal128" @@ "Df" :> "decimal32" @@ "Dh" :> "half" @@
     "Di" :> "char32_t" @@ "Dn" :> "decltype(nullptr)" @@ "Ds" :> "char16_t")

BuiltinFromEToO ==
    ("e" :> "long double" @@ "f" :> "float" @@ "g" :> "__float128" @@ "h" :> "unsigned char" @@
     "i" :> "int" @@ "j" :> "unsigned int" @@ "l" :> "long" @@ "m" :> "unsigned long" @@
     "n" :> "__int128" @@ "o" :> "unsigned __int128")

BuiltinFromSToZ ==
    ("s" :> "short" @@ "t" :> "unsigned short" @@ "v" :> "void" @@ "w" :> "wchar_t" @@
     "x" :> "long long" @@ "y" :> "unsigned long long" @@ "z" :> "...")

BuiltinType == BuiltinFromAToD @@ BuiltinFromEToO @@ BuiltinFromSToZ


\* The start of a parameter: the parenthesis before the first one, whose
\* function has left its own name as the only substitution, or a comma.
OpenParameter(d) ==
    LET opened == IF d.paren THEN d
                  ELSE [cpp_demangle_push_str(d, <<"(">>) EXCEPT
                            !.paren = TRUE, !.pfirst = TRUE,
                            !.subst = IF Len(@) = 1 THEN vector_str_pop(@) ELSE @]
    IN  CASE ~d.paren /\ d.output = <<>> -> GiveUp(d)
          [] (d.paren \/ d.output # <<>>) /\ opened.pfirst -> [opened EXCEPT !.pfirst = FALSE]
          [] OTHER -> IF Cur(d) = "I" THEN opened ELSE cpp_demangle_push_str(opened, <<", ">>)

\* Behind a ">" comes the return type of a template function.  A type keeps its
\* qualifiers, whether it is written to output_tmp, and where it begins.
cpp_demangle_read_type(d, delimit) ==
    LET headed == d.output # <<>> /\ ClosesTemplate(Last(d.output))
        start == IF headed THEN [d EXCEPT !.push_head = @ + 1]
                 ELSE IF delimit THEN OpenParameter(d) ELSE d
    IN  IF ~start.ok THEN start
        ELSE Call(start, <<<<"read_qualified",
                             [v |-> vector_type_qualifier_init, headed |-> headed,
                              p_idx |-> Len(IF headed THEN start.output_tmp ELSE start.output)]>>>>)

\* array ::= A [<number> | <expression>] _ <type>.  The bound is written behind
\* the type of the elements.
ArrayOf(d, bound) ==
    IF Cur(d) # "_" THEN GiveUp(d) ELSE Call(Skip(d, 1), <<ReadType(FALSE), Str(<<"[">> \o bound \o <<"]">>)>>)

cpp_demangle_read_array(d) ==
    LET start == Skip(d, 1)
    IN  CASE Cur(start) = "_" -> ArrayOf(start, <<>>)
          [] Cur(start) \in Digits -> ArrayOf(Skip(start, 1), <<Cur(start)>>)
          [] OTHER -> Call(start, <<ReadExpression, <<"end_bound", Len(d.output)>>>>)

EndArrayBound(d, begin) ==
    LET bound == vector_str_substr(d.output, begin)
    IN  IF bound = <<>> THEN GiveUp(d) ELSE ArrayOf([d EXCEPT !.output = SubSeq(@, 1, begin)], bound)

\* A pointer to a member: M, the class, the type of the member.
cpp_demangle_read_pointer_to_member(d) ==
    Call(Skip(d, 1), <<ReadType(FALSE), <<"end_class", Len(d.output)>>>>)

EndMemberClass(d, begin) ==
    LET class == vector_str_substr(d.output, begin)
        entered == [vector_read_cmd_push(d, "READ_PTRMEM") EXCEPT
                        !.output = SubSeq(@, 1, begin), !.class_type = vector_str_push(@, class)]
    IN  IF class = <<>> THEN GiveUp(d)
        ELSE Call(entered, <<ReadType(FALSE), <<"end_member", class, d.func_type>>>>)

EndMember(d, class, p_func_type) ==
    LET text == <<" ">> \o class \o <<"::*">>
        written == IF d.func_type = p_func_type THEN cpp_demangle_push_str(d, text) ELSE d
    IN  [vector_read_cmd_pop(written) EXCEPT !.class_type = vector_str_pop(@)]

\* function ::= F [Y] <return type> <parameter>* E.  The qualifiers of the
\* pointer to it, or the class of a pointer to a member, are written between
\* the two; the type is left without them.
cpp_demangle_read_function(d, type) ==
    Call(Skip(d, IF Cur(Skip(d, 1)) = "Y" THEN 2 ELSE 1), <<ReadType(FALSE), <<"end_result", type>>>>)

ReadsMember(d) == vector_read_cmd_find(d, "READ_PTRMEM")

FunctionParameter(d, type, limit) == Call(d, <<ReadType(FALSE), <<"end_parameter", type, limit>>>>)

EndResult(d, type) ==
    LET opened == cpp_demangle_push_str(d, <<"(">>)
        named == IF ReadsMember(d)
                 THEN [cpp_demangle_push_str(opened, Last(d.class_type) \o <<"::*">>)
                       EXCEPT !.func_type = @ + 1]
                 ELSE cpp_demangle_push_type_qualifier(opened, type.v, <<>>)
    IN  IF Cur(d) = "E" THEN Call(Skip(d, 1), <<<<"end_type", type, FALSE>>>>)
        ELSE FunctionParameter(cpp_demangle_push_str(named, <<")", "(">>),
                               IF ReadsMember(d) THEN type
                               ELSE [type EXCEPT !.v = vector_type_qualifier_init], 0)

EndParameter(d, type, limit) ==
    LET qualified == IF ReadsMember(d) THEN cpp_demangle_push_type_qualifier(d, type.v, <<>>) ELSE d
    IN  IF Cur(d) = "E"
        THEN Call(Skip(cpp_demangle_push_str(qualified, <<")">>), 1),
                  <<<<"end_type", [type EXCEPT !.v = vector_type_qualifier_init], FALSE>>>>)
        ELSE IF limit > CPP_DEMANGLE_TRY_LIMIT THEN GiveUp(d) ELSE FunctionParameter(d, type, limit + 1)

\* Dv <number> _ or Dv _ <expression> _ : the size of a vector is a qualifier.
VectorOf(d, type, size) ==
    IF Cur(d) # "_" THEN GiveUp(d)
    ELSE Call(Skip(d, 1),
              <<<<"read_qualified", [type EXCEPT !.v.q = Append(@, "Dv"),
                                                 !.v.ext_name = vector_str_push(@, size)]>>>>)

cpp_demangle_read_expression_flat(d, type) ==
    Call(Skip(d, 1), <<ReadExpression, <<"end_size", type, Len(Output(d))>>>>)

EndVectorSize(d, type, begin) ==
    IF Written(d, begin) = <<>> THEN GiveUp(d) ELSE VectorOf(TakeBack(d, begin), type, Written(d, begin))

\* The type switch: qualifiers are gathered until a type is read.  A vendor's
\* qualifier is read from its U, which is no number.
ReadQualified(d, type) ==
    LET rest == Skip(d, 1)
        after == Call(d, <<<<"end_type", type, FALSE>>>>)
    IN  CASE Cur(d) \in DOMAIN BuiltinType ->
                 Call(Skip(cpp_demangle_push_str(d, <<BuiltinType[Cur(d)]>>), 1), <<<<"end_type", type, TRUE>>>>)
          [] Cur(d) \in {"C", "G", "K", "P", "r", "R", "V"} ->
                 Call(rest, <<<<"read_qualified",
                                [type EXCEPT !.v = vector_type_qualifier_push(@, Cur(d))]>>>>)
          [] Cur(d) = "Dv" /\ Cur(rest) = "_" -> cpp_demangle_read_expression_flat(rest, type)
          [] Cur(d) = "Dv" /\ IsNumber(rest) ->
                 VectorOf(cpp_demangle_read_number(rest), type, cpp_demangle_read_number_as_string)
          [] Cur(d) = "A" -> cpp_demangle_read_array(after)
          [] Cur(d) = "F" -> cpp_demangle_read_function(d, type)
          [] Cur(d) = "M" -> cpp_demangle_read_pointer_to_member(after)
          [] IsTemplateParameter(Cur(d)) -> cpp_demangle_read_tmpl_param(after)
          [] Cur(d) = "u" -> cpp_demangle_read_sname(Skip(after, 1))
          [] Cur(d) = "U" -> GiveUp(d)
          [] OTHER -> cpp_demangle_read_name(after)

\* What was read is a substitution, unless it is builtin, and so is each of its
\* qualified forms.
EndType(d, type, is_builtin) ==
    LET type_str == vector_str_substr(IF type.headed THEN d.output_tmp ELSE d.output, type.p_idx)
        named == IF is_builtin THEN d ELSE cpp_demangle_push_subst(d, type_str)
        qualified == cpp_demangle_push_type_qualifier(named, type.v, type_str)
    IN  IF type_str = <<>> THEN GiveUp(d)
        ELSE IF d.push_head = 0 THEN qualified
        ELSE Call(qualified, <<<<"optional_args">>, <<"end_return_type">>>>)

\* The outermost type of output_tmp is a return type and goes in front.
EndReturnType(d) ==
    IF d.push_head > 1 THEN [d EXCEPT !.push_head = @ - 1]
    ELSE [d EXCEPT !.push_head = 0, !.output_tmp = <<>>, !.paren = TRUE, !.pfirst = TRUE,
                   !.output = vector_str_push(
                       vector_str_push_vector_head(@, vector_str_push(d.output_tmp, <<" ">>)), <<"(">>)]

----------------------------------------------------------------------------
(***************************************************************************)
(* Encodings                                                               *)
(***************************************************************************)

\* The special names of a type.
SpecialOfType ==
    ("TF" :> "typeinfo fn for " @@ "TI" :> "typeinfo for " @@ "TJ" :> "java Class for " @@
     "TS" :> "typeinfo name for " @@ "TT" :> "VTT for " @@ "TV" :> "vtable for ")

\* The special names of an object or a function.
SpecialOfName ==
    ("GV" :> "guard variable for " @@ "TH" :> "TLS init function for " @@
     "TW" :> "TLS wrapper function for ")

\* GR <name> <number>
cpp_demangle_read_name_flat(d) == Call(d, <<ReadName, <<"end_temporary", Len(Output(d))>>>>)

EndReferenceTemporary(d, begin) ==
    LET taken == cpp_demangle_push_str(cpp_demangle_read_number(TakeBack(d, begin)),
                                       cpp_demangle_read_number_as_string)
    IN  IF IsNumber(d) /\ Written(d, begin) # <<>>
        THEN cpp_demangle_push_str(cpp_demangle_push_str(taken, <<" for ">>), Written(d, begin))
        ELSE GiveUp(d)

\* TC <type> <number> _ <type>
cpp_demangle_read_type_flat(d) == Call(d, <<ReadType(FALSE), <<"end_construction", Len(Output(d))>>>>)

EndConstructionVtable(d, begin) ==
    LET number == cpp_demangle_read_number(TakeBack(d, begin))
    IN  IF IsNumber(d) /\ Cur(number) = "_" /\ Written(d, begin) # <<>>
        THEN Call(Skip(number, 1), <<ReadType(FALSE), Str(<<"-in-">>), Str(Written(d, begin))>>)
        ELSE GiveUp(d)

cpp_demangle_read_encoding(d) ==
    LET Push(text) == cpp_demangle_push_str(Skip(d, 1), <<text>>)
        clone == IF Cur(Skip(d, 1)) = "n" THEN "non-transaction clone for " ELSE "transaction clone for "
    IN  CASE Cur(d) = "" -> GiveUp(d)
          [] Cur(d) = "GA" -> Call(Push("hidden alias for "), <<ReadEncoding>>)
          [] Cur(d) = "GR" -> cpp_demangle_read_name_flat(Push("reference temporary #"))
          [] Cur(d) = "GT" -> Call(Skip(Push(clone), 1), <<ReadEncoding>>)
          [] Cur(d) = "Tc" ->
                 Call(Push("virtual function covariant override "), <<ReadOffset, ReadOffset, ReadEncoding>>)
          [] Cur(d) = "TC" -> cpp_demangle_read_type_flat(Push("construction vtable for "))
          [] Cur(d) = "Th" ->
                 Call(cpp_demangle_read_nv_offset(Push("virtual function non-virtual override ")),
                      <<ReadEncoding>>)
          [] Cur(d) = "Tv" -> cpp_demangle_read_v_offset(Push("virtual function virtual override "))
          [] Cur(d) \in DOMAIN SpecialOfType -> Call(Push(SpecialOfType[Cur(d)]), <<ReadType(FALSE)>>)
          [] Cur(d) \in DOMAIN SpecialOfName -> Call(Push(SpecialOfName[Cur(d)]), <<ReadName>>)
          [] OTHER -> Call(d, <<ReadName>>)

\* The parameters behind the name, up to the end or to the version of a symbol,
\* and what is written after them.
ReadParameters(d, limit) ==
    LET Mark(set, text) == IF set THEN <<<<text>>>> ELSE <<>>
    IN  CASE limit > CPP_DEMANGLE_TRY_LIMIT + 1 -> GiveUp(d)
          [] limit =< CPP_DEMANGLE_TRY_LIMIT + 1 /\ Cur(d) \in {"", "@@"} ->
                 [d EXCEPT !.output = @ \o Mark(d.paren, ")") \o Mark(d.mem_vat, " volatile")
                                        \o Mark(d.mem_cst, " const") \o Mark(d.mem_rst, " restrict")]
          [] OTHER -> Call(d, <<ReadType(TRUE), <<"read_parameters", limit + 1>>>>)

\* __cxa_demangle_gnu3() of a name; of one without _Z, as a type.
cxa_demangle_gnu3(name) ==
    CASE name[1] = "_GLOBAL__I_" ->
             [cpp_demangle_data_init(<<>>) EXCEPT !.output = <<<<"global constructors keyed to ">> \o Tail(name)>>]
      [] name[1] = "_Z" ->
             Call(cpp_demangle_data_init(Tail(name)), <<ReadEncoding, <<"read_parameters", 0>>>>)
      [] OTHER -> Call(cpp_demangle_data_init(name), <<ReadType(FALSE)>>)

\* The next call.
Step(calling) ==
    LET call == Head(calling.calls)
        d == [calling EXCEPT !.calls = Tail(@)]
    IN  CASE call[1] = "push_str" -> cpp_demangle_push_str(d, call[2])
          [] call[1] = "skip" -> Skip(d, call[2])
          [] call[1] = "read_type" -> cpp_demangle_read_type(d, call[2])
          [] call[1] = "read_qualified" -> ReadQualified(d, call[2])
          [] call[1] = "end_type" -> EndType(d, call[2], call[3])
          [] call[1] = "end_return_type" -> EndReturnType(d)
          [] call[1] = "optional_args" -> OptionalArgs(d)
          [] call[1] = "read_name" -> cpp_demangle_read_name(d)
          [] call[1] = "read_uqname" -> cpp_demangle_read_uqname(d)
          [] call[1] = "end_unscoped" -> EndUnscopedName(d, call[2])
          [] call[1] = "end_name" -> EndName(d, call[2], call[3])
          [] call[1] = "end_args" -> EndArguments(d, call[2], call[3])
          [] call[1] = "end_part" -> EndNestedPart(d, call[2], call[3], call[4])
          [] call[1] = "local_parameter" -> LocalParameter(d, call[2])
          [] call[1] = "end_local_parameter" -> EndLocalParameter(d, call[2])
          [] call[1] = "discriminator" -> SkipDiscriminator(d)
          [] call[1] = "read_tmpl_args" -> cpp_demangle_read_tmpl_args(d)
          [] call[1] = "end_tmpl_arg" -> EndTemplateArgument(d, call[2], call[3])
          [] call[1] = "read_expression" -> cpp_demangle_read_expression(d)
          [] call[1] = "end_bound" -> EndArrayBound(d, call[2])
          [] call[1] = "end_size" -> EndVectorSize(d, call[2], call[3])
          [] call[1] = "end_class" -> EndMemberClass(d, call[2])
          [] call[1] = "end_member" -> EndMember(d, call[2], call[3])
          [] call[1] = "end_result" -> EndResult(d, call[2])
          [] call[1] = "end_parameter" -> EndParameter(d, call[2], call[3])
          [] call[1] = "read_offset" -> cpp_demangle_read_offset(d)
          [] call[1] = "read_encoding" -> cpp_demangle_read_encoding(d)
          [] call[1] = "end_temporary" -> EndReferenceTemporary(d, call[2])
          [] call[1] = "end_construction" -> EndConstructionVtable(d, call[2])
          [] call[1] = "read_parameters" -> ReadParameters(d, call[2])

\* The text of a finished call of __cxa_demangle_gnu3(), <<>> for NULL.
Demangled(d) == IF d.ok THEN vector_str_get_flat(d.output) ELSE <<>>

=============================================================================
