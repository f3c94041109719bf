------------------------------------ MODULE Fields ------------------------------------
(*******************************************************************************)
(* How an accessor of a struct touches the struct's two sections (capnp's      *)
(* private/layout.rs), and the notation the tables of generated structs are    *)
(* written in.  A value of the data section is the set of its one bits.        *)
(*******************************************************************************)
EXTENDS Integers, Sequences, FiniteSets, FiniteSetsExt

-----------------------------------------------------------------------------
(* Notation: what a getter reads, what a setter or an initialiser writes.      *)

Void == [kind |-> "void"]
Here == [kind |-> "group"]
Data(w, at, m) == [kind |-> "data", width |-> w, at |-> at, mask |-> m]
Ptr(at) == [kind |-> "pointer", at |-> at]

Put(w, at, m) == [kind |-> "put", width |-> w, at |-> at, mask |-> m]
Const(w, at, v) == [kind |-> "const", width |-> w, at |-> at, value |-> v]
PutPtr(at) == [kind |-> "put_pointer", at |-> at]
ClearPtr(at) == [kind |-> "clear_pointer", at |-> at]

NoGuard == <<>>
Has(at) == [guard |-> NoGuard, at |-> at]
HasArm(doff, d, at) == [guard |-> <<doff, d>>, at |-> at]
Which(at, arms) == [at |-> at, arms |-> arms]
NoUnion == Which(0, <<>>)
NoFields == <<>>

\* Notation of schema nodes.  NO_DISCRIMINANT marks a field outside the union.
NO_DISCRIMINANT == 65535
Slot(name, type, offset) ==
    [kind |-> "slot", name |-> name, type |-> type, offset |-> offset, default |-> 0,
     explicit |-> FALSE, discriminant |-> NO_DISCRIMINANT]
Group(name, type) ==
    [kind |-> "group", name |-> name, type |-> type, discriminant |-> NO_DISCRIMINANT]
Default(v, f) == [f EXCEPT !.default = v, !.explicit = TRUE]
Arm(d, f) == [f EXCEPT !.discriminant = d]
Union(count, offset) == [count |-> count, offset |-> offset]
Node(data, pointers, group, union, fields) ==
    [data |-> data, pointers |-> pointers, group |-> group, union |-> union, fields |-> fields]
Struct(reader, builder, node, members) ==
    [reader |-> reader, builder |-> builder, node |-> node, members |-> members]

-----------------------------------------------------------------------------
(* The types of slots.                                                         *)

Width == [bool |-> 1, i8 |-> 8, u8 |-> 8, i16 |-> 16, u16 |-> 16, enum |-> 16,
          i32 |-> 32, u32 |-> 32, f32 |-> 32, i64 |-> 64, u64 |-> 64, f64 |-> 64]
is_pointer_type(ty) == ty \in {"text", "data", "list", "struct", "any", "interface"}

\* The bits of a number below 2^16, which every default and discriminant is, and back.
Bits(n) == IF n = 0 THEN {} ELSE {i \in 0..15 : (n \div 2^i) % 2 = 1}
NumberOf(bits) == FoldSet(LAMBDA i, n : n + 2^i, 0, bits)

-----------------------------------------------------------------------------
(* StructReader and StructBuilder.  A struct is its one bits and its pointers; *)
(* data and pointers are the sizes of its sections, in bits and in pointers.   *)

NewStruct(words, pointers) ==
    [ones |-> {}, ptrs |-> [i \in 0..(pointers - 1) |-> "null"],
     data |-> 64 * words, pointers |-> pointers]

\* A value combined with a default: an exclusive or, its own inverse.
mask(bits, m) == (bits \ m) \cup (m \ bits)

get_data_field(s, w, at) ==
    IF (at + 1) * w <= s.data
    THEN {i - at * w : i \in {j \in s.ones : j \div w = at}} ELSE {}
get_data_field_mask(s, w, at, m) == mask(get_data_field(s, w, at), Bits(m))
get_pointer_field(s, at) == IF at < s.pointers THEN s.ptrs[at] ELSE "null"

\* Mutant: the offset taken in words.
set_data_field_words(s, w, at, bits) ==
    [s EXCEPT !.ones = (@ \ (at * 64)..(at * 64 + w - 1)) \cup {at * 64 + i : i \in bits}]

set_data_field(s, w, at, bits) ==
    [s EXCEPT !.ones = (@ \ (at * w)..(at * w + w - 1)) \cup {at * w + i : i \in bits}]
set_data_field_mask(s, w, at, bits, m) == set_data_field(s, w, at, mask(bits, Bits(m)))
set_pointer_field(s, at, p) == [s EXCEPT !.ptrs[at] = p]
=============================================================================
