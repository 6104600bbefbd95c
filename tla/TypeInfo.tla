------------------------------ MODULE TypeInfo ------------------------------
(***************************************************************************)
(* The run-time type information of libcxxrt (Common/src/libcxxrt):        *)
(* typeinfo.h describes a class by its list of bases, dynamic_cast.cc walks*)
(* that list to find out whether an object of one class is also an object  *)
(* of another and where in the object that part lies.  Catch clauses and   *)
(* dynamic_cast<> both rest on it.                                         *)
(*                                                                         *)
(* An address is an offset from the start of the complete object.          *)
(***************************************************************************)
EXTENDS Integers, Sequences, SequencesExt, FiniteSets

CONSTANTS CLASSES,  \* class -> the sequence of its bases (__base_info)
          VBASES    \* <<complete class, virtual base>> -> the base's address

ClassNames == DOMAIN CLASSES

\* A null pointer.
Null == -1

Class(c) == [kind |-> "class", name |-> c]

\* Pointer types: the qualifiers (__flags) and what is pointed to (__pointee).
Pointer(flags, to) == [kind |-> "pointer", flags |-> flags, to |-> to]

Void == [kind |-> "void"]

__is_pointer_p(t) == t.kind = "pointer"

-----------------------------------------------------------------------------
\* The address of the base b of the part at obj: a virtual base is found
\* through the object's virtual table, any other at a fixed offset.
BaseAt(b, obj, leaf) ==
    IF b.virtual THEN VBASES[<<leaf, b.base>>] ELSE obj + b.offset

\* The class of the bases tells __class_type_info (none),
\* __si_class_type_info (one base, which is not virtual and lies at the start)
\* and __vmi_class_type_info apart.
SingleInheritance(c) ==
    /\ Len(CLASSES[c]) = 1
    /\ ~CLASSES[c][1].virtual
    /\ CLASSES[c][1].offset = 0

\* A faulty upcast, which only looks at the first base of a class.
RECURSIVE __do_upcast_Mutant(_, _, _, _)
__do_upcast_Mutant(c, target, obj, leaf) ==
    CASE c = target -> obj
      [] CLASSES[c] = << >> -> Null
      [] OTHER -> __do_upcast_Mutant(CLASSES[c][1].base, target,
                                     BaseAt(CLASSES[c][1], obj, leaf), leaf)

\* The address of the target part of the class c part at obj, or Null.  The
\* bases are tried in order, each with all of its own bases.
RECURSIVE __do_upcast(_, _, _, _)
__do_upcast(c, target, obj, leaf) ==
    LET Through(b) == __do_upcast(b.base, target, BaseAt(b, obj, leaf), leaf)
        found == SelectSeq(CLASSES[c], LAMBDA b : Through(b) # Null)
    IN  CASE c = target -> obj
          [] c # target /\ SingleInheritance(c) ->
                __do_upcast(CLASSES[c][1].base, target, obj, leaf)
          [] OTHER -> IF found = << >> THEN Null ELSE Through(Head(found))

\* __class_type_info::cast_to and its overrides, which differ from the upcast
\* in nothing but the way in which they report failure.
cast_to(c, obj, other, leaf) == __do_upcast(c, other, obj, leaf)

\* dynamic_cast<dst>(p) for a pointer into an object of complete class leaf:
\* the virtual table leads from any part to the complete object.
__dynamic_cast(leaf, dst) == cast_to(leaf, 0, dst, leaf)

-----------------------------------------------------------------------------
\* type_info::__do_catch and __pbase_type_info::__do_catch: can a handler for
\* type catch a thrown ex_type?  outer is false once a pointer on the way was
\* not const.
RECURSIVE __do_catch(_, _, _)
__do_catch(type, ex_type, outer) ==
    \/ type = ex_type
    \/ /\ type.kind = "class" /\ ex_type.kind = "class"
       /\ __do_upcast(ex_type.name, type.name, 0, ex_type.name) # Null
    \/ /\ __is_pointer_p(type) /\ __is_pointer_p(ex_type)
       /\ outer
       /\ ex_type.flags \subseteq type.flags
       /\ \/ type.to = Void
          \/ __do_catch(type.to, ex_type.to, "const" \in type.flags)

-----------------------------------------------------------------------------
\* Reference definitions, for the properties.

\* Every part of an object of class leaf: <<class, address>>.
RECURSIVE PartsFrom(_, _)
PartsFrom(parts, leaf) ==
    LET more == parts \cup
            UNION {{<<b.base, BaseAt(b, p[2], leaf)>> : b \in ToSet(CLASSES[p[1]])}
                   : p \in parts}
    IN  IF more = parts THEN parts ELSE PartsFrom(more, leaf)

Parts(leaf) == PartsFrom({<<leaf, 0>>}, leaf)

IsA(c, d) == \E p \in Parts(c) : p[1] = d

\* What the language lets a handler catch: the type itself or a base of it,
\* through a pointer also with more qualifiers, and any object as void *.
Catchable(type, ex_type) ==
    \/ type.kind = "class" /\ ex_type.kind = "class" /\ IsA(ex_type.name, type.name)
    \/ /\ type.kind = "pointer" /\ ex_type.kind = "pointer"
       /\ ex_type.flags \subseteq type.flags
       /\ \/ type.to = Void
          \/ type.to.kind = "class" /\ ex_type.to.kind = "class"
             /\ IsA(ex_type.to.name, type.to.name)

=============================================================================
