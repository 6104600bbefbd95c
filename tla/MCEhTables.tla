----------------------------- MODULE MCEhTables -----------------------------
(***************************************************************************)
(* The program for TLC: a class hierarchy with two bases, one of them      *)
(* virtual, and functions with each kind of exception table; and the       *)
(* compiler: the bytes it emits for these functions, and for some that the *)
(* behaviours of Exceptions have no use for.                               *)
(***************************************************************************)
EXTENDS Exceptions, EhTables

MCClasses ==
    [ error   |-> << >>,
      tagged  |-> << >>,
      failure |-> <<[base |-> "error", offset |-> 0, virtual |-> FALSE]>>,
      fault   |-> <<[base |-> "failure", offset |-> 0, virtual |-> FALSE],
                    [base |-> "tagged", offset |-> 0, virtual |-> TRUE]>> ]

MCVBases == (<<"fault", "tagged">> :> 8)

MCThrown == {Class("fault"), Pointer({}, Class("failure"))}

Catch(type) == [filter |-> "catch", types |-> <<type>>]
Ellipsis == [kind |-> "any"]

\* A function with a try block around its calls: handlers, or an exception
\* specification, and a handler body that ends with __cxa_end_catch.
Guarding(clauses) ==
    [lsda |-> TRUE, clauses |-> clauses,
     sites |-> <<[start |-> 0, size |-> BODY_END, pad |-> TRUE, actions |-> clauses],
                 [start |-> BODY_END, size |-> HANDLER_END - BODY_END,
                  pad |-> TRUE, actions |-> << >>]>>]

MCFunctions ==
    [ plain     |-> [lsda |-> FALSE, clauses |-> << >>, sites |-> << >>],
      destroys  |-> Guarding(<<[filter |-> "cleanup", types |-> << >>]>>),
      tagger    |-> Guarding(<<Catch(Class("tagged")), Catch(Pointer({"const"}, Class("error"))),
                               [filter |-> "cleanup", types |-> << >>]>>),
      nothrow   |-> Guarding(<<[filter |-> "spec", types |-> <<Class("error")>>]>>),
      catchall  |-> Guarding(<<Catch(Class("error")), Catch(Ellipsis)>>) ]

MCSymmetry == Permutations(EX)

-----------------------------------------------------------------------------

RECURSIVE Uleb(_)
Uleb(v) ==
    IF v < 2 ^ DIGIT_BITS THEN <<v>>
    ELSE <<2 ^ DIGIT_BITS + (v % 2 ^ DIGIT_BITS)>> \o Uleb(v \div 2 ^ DIGIT_BITS)

RECURSIVE Sleb(_)
Sleb(v) ==
    IF v \in -(2 ^ (DIGIT_BITS - 1)) .. 2 ^ (DIGIT_BITS - 1) - 1 THEN <<v % 2 ^ DIGIT_BITS>>
    ELSE <<2 ^ DIGIT_BITS + (v % 2 ^ DIGIT_BITS)>> \o Sleb(v \div 2 ^ DIGIT_BITS)

Fixed(v, n) == [k \in 1 .. n |-> (v \div OCTET ^ (k - 1)) % OCTET]

Number(encoding, v) ==
    IF encoding = DW_EH_PE_uleb128 THEN Uleb(v) ELSE Fixed(v, dwarf_size_of_fixed_size_field(encoding))

MoreFunctions ==
    MCFunctions @@
    [ chain |-> Guarding(<<Catch(Class("tagged")), Catch(Class("failure")),
                           [filter |-> "cleanup", types |-> << >>], Catch(Ellipsis)>>),
      specs |-> Guarding(<<[filter |-> "spec", types |-> <<Class("error"), Class("tagged")>>],
                           [filter |-> "spec", types |-> << >>]>>),
      gaps  |-> [lsda |-> TRUE, clauses |-> << >>,
                 sites |-> <<[start |-> 1, size |-> 1, pad |-> FALSE, actions |-> << >>],
                             [start |-> 4, size |-> 1, pad |-> TRUE, actions |-> <<Catch(Ellipsis)>>],
                             [start |-> 6, size |-> 30, pad |-> TRUE, actions |-> <<Catch(Class("error"))>>]>>] ]

Actions(f) == UNION {Range(s.actions) : s \in Range(MoreFunctions[f].sites)}

TypesOf(f) == SetToSeq(UNION {Range(a.types) : a \in Actions(f)})

IndexOf(f, type) == CHOOSE i \in DOMAIN TypesOf(f) : TypesOf(f)[i] = type

\* The lists of the exception specifications: a list at a time, ended by 0.
Specs(f) == SetToSeq({a.types : a \in {x \in Actions(f) : x.filter = "spec"}})

SpecBytes(f, types) == [i \in DOMAIN types |-> IndexOf(f, types[i])] \o <<0>>

Joined(seqs) == FoldLeft(LAMBDA acc, s : acc \o s, << >>, seqs)

SpecOffset(f, types) ==
    LET k == CHOOSE i \in DOMAIN Specs(f) : Specs(f)[i] = types
    IN  Len(Joined([i \in 1 .. k - 1 |-> SpecBytes(f, Specs(f)[i])]))

Filter(f, a) ==
    CASE a.filter = "catch" -> IndexOf(f, a.types[1])
      [] a.filter = "spec" -> -SpecOffset(f, a.types) - 1
      [] a.filter = "cleanup" -> 0

\* The actions of all sites: each one's last record comes first, and is where
\* the chain ends.  first is the place of a site's first record, or 0.
ActionTable(f) ==
    LET Record(a, acc) ==
            LET filter == Sleb(Filter(f, a))
                place == Len(acc.bytes) + Len(filter) + 1
            IN  [bytes |-> acc.bytes \o filter \o Sleb(IF acc.next = 0 THEN 0 ELSE acc.next - place),
                 next |-> Len(acc.bytes) + 1]
        Site(acc, s) ==
            LET done == FoldRight(Record, s.actions, [bytes |-> acc.bytes, next |-> 0])
            IN  [bytes |-> done.bytes, first |-> Append(acc.first, done.next)]
    IN  FoldLeft(Site, [bytes |-> << >>, first |-> << >>], MoreFunctions[f].sites)

PadOf(f, i) == IF MoreFunctions[f].sites[i].pad THEN 10 + i ELSE 0

CallSites(f, encoding) ==
    Joined([i \in DOMAIN MoreFunctions[f].sites |->
              LET s == MoreFunctions[f].sites[i] IN
              Number(encoding, s.start) \o Number(encoding, s.size) \o Number(encoding, PadOf(f, i))
                \o Uleb(ActionTable(f).first[i])])

\* Behind a function's table is the next function's.
Following == <<DW_EH_PE_omit, DW_EH_PE_omit, DW_EH_PE_uleb128, 0, 0, 0, 0, 0, 0, 0, 0, 0, 0, 0, 0, 0>>

\* The type_info of a type is at its index, the pointer to it at 100 + index.
Got == [a \in 101 .. 110 |-> a - 100]

RegionStart == 50

Header(encoding, distance) == <<DW_EH_PE_omit, encoding>> \o Uleb(distance)

\* Backwards from base; a type that is not there, "...", has an entry of 0.
TypeTable(types, encoding, base) ==
    LET size == dwarf_size_of_fixed_size_field(encoding)
        n == Len(types)
        Entry(i) == CASE types[i].kind = "any" -> 0
                      [] is_indirect(encoding) -> 100 + i - (base - i * size)
                      [] OTHER -> i
    IN  Joined([k \in 1 .. n |-> Fixed(Entry(n + 1 - k), size)])

\* gcc's ways and llvm's.
Encodings == {DW_EH_PE_uleb128, DW_EH_PE_udata4}
TypeEncodings == {DW_EH_PE_absptr, DW_EH_PE_udata4,
                  DW_EH_PE_udata4 + DW_EH_PE_signed + DW_EH_PE_pcrel + DW_EH_PE_indirect}

-----------------------------------------------------------------------------
\* The table of a function, of which a lookup knows the bytes only, and the
\* type that is thrown.
VARIABLE call

Emitting == {f \in DOMAIN MoreFunctions : MoreFunctions[f].lsda}

LookupInit ==
    \E f \in Emitting, callsites \in Encodings, encoding \in TypeEncodings :
        \E types \in {TypesOf(f)}, sites \in {CallSites(f, callsites)}, actions \in {ActionTable(f).bytes} :
        \E middle \in {<<callsites>> \o Uleb(Len(sites)) \o sites \o actions} :
        \E distance \in {Len(middle) + Len(types) * dwarf_size_of_fixed_size_field(encoding)} :
            /\ call = [f |-> f, types |-> types, type |-> Ellipsis]
            /\ lookup = [stage |-> "none",
                         bytes |-> Header(encoding, distance) \o middle
                             \o TypeTable(types, encoding, Len(Header(encoding, distance)) + distance + 1)
                             \o Joined([k \in DOMAIN Specs(f) |-> SpecBytes(f, Specs(f)[k])]) \o Following]

\* A call that f makes from ip ends with an exception.
Start(ip, type) ==
    /\ lookup.stage = "none"
    /\ call' = [call EXCEPT !.type = type]
    /\ lookup' = Lookup(lookup.bytes, RegionStart, Got, ip,
                        {a \in 0 .. Len(call.types) :
                            check_type_signature(type, IF a = 0 THEN Ellipsis ELSE call.types[a])})

TablesNext ==
    \/ \E ip \in 0 .. 40, type \in THROWN : Start(ip, type)
    \/ LookupNext /\ UNCHANGED call

SitesAt(f, ip) ==
    {i \in DOMAIN MoreFunctions[f].sites :
        LET s == MoreFunctions[f].sites[i] IN s.start < ip /\ ip <= s.start + s.size}

\* The bytes of a table are read as the table: the same call site or none, its
\* landing pad, and the same handler with the number of its clause.  In
\* particular the reading of one call site too many never finds one.
TablesSayTheSame ==
    lookup.stage = "done" =>
        /\ lookup.site.found <=> SitesAt(call.f, lookup.ip) # {}
        /\ \A i \in SitesAt(call.f, lookup.ip) :
              LET actions == MoreFunctions[call.f].sites[i].actions IN
              /\ lookup.site.landing_pad = (IF PadOf(call.f, i) # 0 THEN RegionStart + PadOf(call.f, i) ELSE 0)
              /\ lookup.action.handler = check_action_record(actions, call.type)
              /\ lookup.action.handler \in {"catch", "spec"} =>
                   \E k \in DOMAIN actions : /\ actions[k].filter = lookup.action.handler
                                             /\ Filter(call.f, actions[k]) = lookup.action.selector

\* Numbers read back as they were written, up to the width of an int and, for
\* signed ones, with their sign.
NumbersSayTheSame ==
    lookup.stage = "done" =>
        \A v \in {3 * lookup.ip, -3 * lookup.ip} :
            /\ v >= 0 => read_uleb128(Uleb(v), 1) = [value |-> v, at |-> Len(Uleb(v)) + 1]
            /\ read_sleb128(Sleb(v), 1) = [value |-> v, at |-> Len(Sleb(v)) + 1]

=============================================================================
