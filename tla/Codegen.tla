----------------------------------- MODULE Codegen ------------------------------------
(*******************************************************************************)
(* What capnpc's codegen.rs generates for a struct: the accessors of its       *)
(* Reader and Builder and its tables of members, each computed from the schema *)
(* node.  Names of Rust types and the layout of the text are left out; kept is *)
(* what each generated function reads and writes, and in which order.          *)
(* The schema is a function from the names of structs to their nodes.          *)
(*******************************************************************************)
EXTENDS Fields, Functions

CONSTANT Schema

ByName(fields, Of(_)) ==
    [n \in {fields[i].name : i \in DOMAIN fields} |->
        Of(CHOOSE f \in Range(fields) : f.name = n)]


InUnion(f) == f.discriminant # NO_DISCRIMINANT
PlainFields(node) == SelectSeq(node.fields, LAMBDA f : ~InUnion(f))
UnionFields(node) == SelectSeq(node.fields, InUnion)
IsPrim(f) == f.kind = "slot" /\ f.type \in DOMAIN Width
IsPointer(f) == f.kind = "slot" /\ is_pointer_type(f.type)

-----------------------------------------------------------------------------
\* A default of zero generates the accessor without a mask, which is a mask of zero.
prim_default(f) == f.default

getter_text(f) ==
    CASE f.kind = "group" -> Here
      [] IsPrim(f)        -> Data(Width[f.type], f.offset, f.default)
      [] IsPointer(f)     -> Ptr(f.offset)
      [] OTHER            -> Void

generate_haser(union, f) ==
    IF InUnion(f) THEN HasArm(union.offset, f.discriminant, f.offset) ELSE Has(f.offset)

\* The arms in the order of the fields; the match selects the arm by discriminant.
generate_union(node) ==
    LET arms == UnionFields(node) IN
    IF node.union.count = 0 THEN NoUnion
    ELSE Which(node.union.offset,
               [d \in 1..Len(arms) |->
                   getter_text(CHOOSE f \in Range(arms) : f.discriminant = d - 1)])

\* The lines that zero a group: every arm of its union, and the groups inside it.
zero_fields_of_group[t \in DOMAIN Schema] ==
    LET node == Schema[t]
        zero(f) == CASE f.kind = "group" -> zero_fields_of_group[f.type]
                     [] IsPrim(f)        -> {Const(Width[f.type], f.offset, 0)}
                     [] IsPointer(f)     -> {ClearPtr(f.offset)}
                     [] OTHER            -> {}
    IN  (IF node.union.count # 0 THEN {Const(16, node.union.offset, 0)} ELSE {})
            \cup UNION {zero(node.fields[i]) : i \in DOMAIN node.fields}

\* Every setter and initialiser of an arm first writes the discriminant.
discriminant_line(union, f) ==
    IF InUnion(f) THEN <<Const(16, union.offset, f.discriminant)>> ELSE <<>>

has_setter(f) == f.kind = "slot" /\ f.type # "any"
generate_setter(union, f) ==
    discriminant_line(union, f) \o
        CASE IsPrim(f) /\ f.type # "enum" -> <<Put(Width[f.type], f.offset, prim_default(f))>>
          [] f.type = "enum"    -> <<Put(16, f.offset, IF f.explicit THEN f.default ELSE 0)>>
          [] IsPointer(f)       -> <<PutPtr(f.offset)>>
          [] OTHER              -> <<>>

has_initter(f) == f.kind = "group" \/ (IsPointer(f) /\ f.type # "interface")
\* Mutant: the initialiser of a group does not choose it.
generate_initter_unchosen(union, f) ==
    CASE f.kind = "group" -> zero_fields_of_group[f.type]
      [] f.type = "any"   -> Range(discriminant_line(union, f)) \cup {ClearPtr(f.offset)}
      [] OTHER            -> Range(discriminant_line(union, f)) \cup {PutPtr(f.offset)}
generate_initter(union, f) ==
    Range(discriminant_line(union, f)) \cup
        CASE f.kind = "group" -> zero_fields_of_group[f.type]
          [] f.type = "any"   -> {ClearPtr(f.offset)}
          [] OTHER            -> {PutPtr(f.offset)}

-----------------------------------------------------------------------------
(* The struct case of generate_node.                                           *)

reader_members(node) ==
    [get |-> ByName(PlainFields(node), getter_text),
     has |-> ByName(SelectSeq(node.fields, IsPointer), LAMBDA f : generate_haser(node.union, f)),
     which |-> generate_union(node)]

builder_setters(node) ==
    ByName(SelectSeq(node.fields, has_setter), LAMBDA f : generate_setter(node.union, f))
builder_initters(node) ==
    ByName(SelectSeq(node.fields, has_initter), LAMBDA f : generate_initter(node.union, f))
builder_struct_size(node) == <<node.data, node.pointers>>

\* Fields are numbered from 0 in the tables of members.
generate_get_field_types(node) ==
    [i \in DOMAIN node.fields |-> node.fields[i].type]
indexes(node, Test(_)) ==
    LET all == [i \in DOMAIN node.fields |-> i - 1]
    IN  SelectSeq(all, LAMBDA i : Test(node.fields[i + 1]))
nonunion_members(node) == indexes(node, LAMBDA f : ~InUnion(f))
members_by_discriminant(node) ==
    [d \in 1..Cardinality(Range(indexes(node, InUnion))) |->
        CHOOSE i \in Range(indexes(node, InUnion)) : node.fields[i + 1].discriminant = d - 1]
=============================================================================
