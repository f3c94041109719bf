---------------------------------- MODULE Accessors -----------------------------------
(*******************************************************************************)
(* One struct of a message, written through the two interfaces capnp offers:   *)
(* the Builder generated for its type and the dynamic_struct::Builder that     *)
(* interprets its schema.  Groups and the arms of unions share the struct's    *)
(* sections, so that a write to one field may destroy another; the model keeps *)
(* what the program last stored and compares it with what both kinds of        *)
(* readers return.                                                             *)
(* A behaviour looks at two fields of one struct at a time: fields interfere   *)
(* only by the places they occupy, pair by pair.                               *)
(*******************************************************************************)
EXTENDS Fields, Functions, SequencesExt

CONSTANTS Structs,  \* the structs and groups of the generated files, by name
          Roots     \* the structs to look at (not groups)

Gen == INSTANCE Codegen WITH Schema <- [n \in DOMAIN Structs |-> Structs[n].node]

ASSUME RootsAssumption ==
    Roots \subseteq {n \in DOMAIN Structs : ~Structs[n].node.group}

VARIABLES root,   \* the struct
          focus,  \* the fields looked at: pairs of a struct or group and a field's number
          mem,    \* the two sections of the struct
          arm,    \* the union member the program last chose, in the struct and its groups
          want    \* what the program last stored in the fields looked at

vars == <<root, focus, mem, arm, want>>

-----------------------------------------------------------------------------
(* The fields of structs and of their groups.                                  *)

\* The union member to choose for a field to be in use.
Choice(f, t) == IF f.discriminant = NO_DISCRIMINANT THEN {} ELSE {<<t, f.discriminant>>}

\* What a schema::Field gives access to: the field, its struct or group (in), and for a
\* group its struct, its fields, and all the groups inside it; besides, the struct it
\* belongs to in the end, the group fields around it and the choices that lead to it.
Describe(structs) ==
    LET At(l) == structs[l[1]].node.fields[l[2]]
        Places(t) == {t} \X DOMAIN structs[t].node.fields
        places == UNION {Places(t) : t \in DOMAIN structs}
        family[t \in DOMAIN structs] ==
            {t} \cup UNION {family[At(l).type] : l \in {k \in Places(t) : At(k).kind = "group"}}
        around(t) == {l \in places : At(l).kind = "group" /\ t \in family[At(l).type]}
        describe[l \in places] ==
            [at |-> l, in |-> structs[l[1]], field |-> At(l),
             type |-> structs[l[1]].members.types[l[2]],
             root |-> CHOOSE t \in DOMAIN structs : ~structs[t].node.group /\ l[1] \in family[t],
             around |-> around(l[1]),
             path |-> UNION {Choice(At(k), k[1]) : k \in around(l[1])},
             group |-> IF At(l).kind = "group" THEN structs[At(l).type] ELSE <<>>,
             inside |-> IF At(l).kind = "group" THEN family[At(l).type] ELSE {},
             members |-> IF At(l).kind = "slot" THEN <<>>
                         ELSE [i \in DOMAIN structs[At(l).type].node.fields |->
                                  describe[<<At(l).type, i>>]]]
    IN  [l \in places |-> describe[l]] @@ <<>>  \* the union has TLC compute the table once
FieldTable == Describe(Structs)

IsGroup(f) == f.field.kind = "group"
InUnion(f) == f.field.discriminant # NO_DISCRIMINANT

Unknown == -1
Active(f) == \A c \in f.path : arm[c[1]] = c[2]
Chosen(f) == InUnion(f) => arm[f.at[1]] = f.field.discriminant

\* A value that is stored or read: the bits of a number, or what a pointer refers to
\* ("null", an object just initialised, one stored by the program).
Number(bits) == <<"number", bits>>
Object(p) == <<p, {}>>
Nothing == Object("void")
Anything == Object("any")      \* nothing is known of it
Empty == Object("empty")  \* null or an empty object

\* What a field reads as when nothing was stored in it, and what may be stored.
Fresh(f) ==
    CASE f.type = "void"         -> Nothing
      [] is_pointer_type(f.type) -> Object("null")
      [] OTHER                   -> Number(Bits(f.field.default))
Values(f) ==
    CASE f.type = "void"         -> {Nothing}
      [] is_pointer_type(f.type) -> {Object("a")}
      [] OTHER                   -> {Number({}), Number({0, Width[f.type] - 1})}

-----------------------------------------------------------------------------
(* The generated interface: the tables, executed.                              *)

Execute(op, s, v) ==
    CASE op.kind = "put"           -> set_data_field_mask(s, op.width, op.at, v[2], op.mask)
      [] op.kind = "const"         -> set_data_field(s, op.width, op.at, Bits(op.value))
      [] op.kind = "put_pointer"   -> set_pointer_field(s, op.at, v[1])
      [] op.kind = "clear_pointer" -> set_pointer_field(s, op.at, "null")
Run(ops, s, v) == FoldLeft(LAMBDA x, op : Execute(op, x, v), s, ops)

Look(row, s) ==
    CASE row.kind = "data"    -> Number(get_data_field_mask(s, row.width, row.at, row.mask))
      [] row.kind = "pointer" -> Object(get_pointer_field(s, row.at))
      [] OTHER                -> Nothing

\* Reader::which: the discriminant and the value of the arm, or NotInSchema.
Match(w, s, d) ==
    IF d + 1 \in DOMAIN w.arms THEN [arm |-> d, value |-> Look(w.arms[d + 1], s)]
    ELSE [arm |-> Unknown, value |-> Nothing]
StaticWhich(w, s) == Match(w, s, NumberOf(get_data_field(s, 16, w.at)))
StaticGet(f, s) ==
    IF InUnion(f) THEN StaticWhich(f.in.reader.which, s).value
    ELSE Look(f.in.reader.get[f.field.name], s)
HasRow(h, s) ==
    /\ h.guard # NoGuard => get_data_field(s, 16, h.guard[1]) = Bits(h.guard[2])
    /\ get_pointer_field(s, h.at) # "null"
StaticHas(f, s) == HasRow(f.in.reader.has[f.field.name], s)

-----------------------------------------------------------------------------
(* The dynamic interface: dynamic_struct.rs over schema.rs.  A struct's tables *)
(* of members count its fields from 0.                                         *)

get_field_by_discriminant(t, d) ==
    {t.members.by_discriminant[i] + 1 : i \in {d + 1} \cap DOMAIN t.members.by_discriminant}

\* The field chosen in the union, as a set with at most one element.
which(t, s) ==
    UNION {get_field_by_discriminant(t, d) :
              d \in {NumberOf(get_data_field(s, 16, t.node.union.offset))}
                      \cap 0..(t.node.union.count - 1)}

PointerOf(f) == IF is_pointer_type(f.type) THEN f.field.offset ELSE -1
PointerIsNull(f, s) ==
    f.field.kind = "slot" /\ is_pointer_type(f.type) /\ get_pointer_field(s, f.field.offset) = "null"
\* Mutant: the union is not looked at.
has_anyway(f, s) == ~PointerIsNull(f, s)
has(f, s) ==
    /\ InUnion(f) =>
           get_data_field(s, 16, f.in.node.union.offset) = Bits(f.field.discriminant)
    /\ ~PointerIsNull(f, s)
get(f, s) ==
    CASE f.type = "void"         -> Nothing
      [] is_pointer_type(f.type) -> Object(get_pointer_field(s, f.field.offset))
      [] OTHER -> Number(get_data_field_mask(s, Width[f.type], f.field.offset, f.field.default))

\* Mutant: the discriminant is left alone when the field is the union's first member.
set_in_union_unless_first(f, s) ==
    IF InUnion(f) /\ f.field.discriminant # 0
    THEN set_data_field(s, 16, f.in.node.union.offset, Bits(f.field.discriminant))
    ELSE s
set_in_union(f, s) ==
    IF InUnion(f)
    THEN set_data_field(s, 16, f.in.node.union.offset, Bits(f.field.discriminant))
    ELSE s

\* set, of a slot: the discriminant first, then the value.
StoreSlot(f, s, v) ==
    CASE f.type = "void"         -> s
      [] is_pointer_type(f.type) -> set_pointer_field(s, f.field.offset, v[1])
      [] OTHER -> set_data_field_mask(s, Width[f.type], f.field.offset, v[2], f.field.default)
set(f, s, v) == StoreSlot(f, set_in_union(f, s), v)

ClearSlot(f, s) ==
    CASE f.type = "void"         -> s
      [] is_pointer_type(f.type) -> set_pointer_field(s, f.field.offset, "null")
      [] OTHER                   -> set_data_field(s, Width[f.type], f.field.offset, {})

\* The members of a group that are cleared or copied: one arm, then the others in order.
MembersOf(f, arms) ==
    SetToSeq({f.members[i] : i \in arms}) \o
        [n \in DOMAIN f.group.members.nonunion |-> f.members[f.group.members.nonunion[n] + 1]]

RECURSIVE clear(_, _)
clear(f, s) ==
    IF IsGroup(f)
    THEN FoldLeft(LAMBDA x, k : clear(k, x), set_in_union(f, s),
                  MembersOf(f, get_field_by_discriminant(f.group, 0)))
    ELSE ClearSlot(f, set_in_union(f, s))

\* init and initn, of a slot.
init(f, s) ==
    set_pointer_field(set_in_union(f, s), f.field.offset, IF f.type = "any" THEN "null" ELSE "new")

\* Setting a field to what was read from one like it.  A null pointer reads as an empty
\* value and is stored as one; an AnyPointer or a capability is refused, after the union
\* was switched.
set_from(f, s, v) ==
    IF f.type \in {"any", "interface"} THEN [mem |-> set_in_union(f, s), ok |-> FALSE]
    ELSE [mem |-> set(f, s, IF v = Object("null") THEN Object("new") ELSE v), ok |-> TRUE]

\* set, of a group, to a group src of the same type: the chosen arm of the source,
\* then its other fields if they are present, each group among them set in its turn.
RECURSIVE set_group(_, _, _)
set_group(f, s, src) ==
    FoldLeft(LAMBDA x, k :
                IF ~x.ok \/ (~InUnion(k) /\ ~has(k, src)) THEN x
                ELSE IF IsGroup(k) THEN set_group(k, x.mem, src)
                ELSE set_from(k, x.mem, get(k, src)),
             [mem |-> clear(f, set_in_union(f, s)), ok |-> TRUE],
             MembersOf(f, which(f.group, src)))

-----------------------------------------------------------------------------
(* What the program expects: the effect of its calls on the fields it looks    *)
(* at, without regard to where they are stored.                                *)

ChooseArm(f) == IF InUnion(f) THEN [arm EXCEPT ![f.at[1]] = f.field.discriminant] ELSE arm

\* A group starts over: its fields are fresh and its unions have their first member.
StartOver(g) ==
    /\ arm' = [t \in DOMAIN arm |-> IF t \in g.inside THEN 0 ELSE ChooseArm(g)[t]]
    /\ want' = [l \in focus |-> IF l[1] \in g.inside THEN Fresh(FieldTable[l]) ELSE want[l]]

\* Nothing is known of what is in a group.
Forget(g) ==
    /\ arm' = [t \in DOMAIN arm |-> IF t \in g.inside THEN Unknown ELSE ChooseArm(g)[t]]
    /\ want' = [l \in focus |-> IF l[1] \in g.inside THEN Anything ELSE want[l]]

Store(f, v) ==
    /\ arm' = ChooseArm(f)
    /\ want' = [want EXCEPT ![f.at] = v]

-----------------------------------------------------------------------------
Init ==
    /\ root \in Roots
    /\ \E own \in {{f \in Range(FieldTable) : f.root = root}} :
           /\ \E f, g \in {h \in own : h.field.kind = "slot"} :
                  /\ focus = {f.at, g.at}
                  /\ want = (f.at :> Fresh(f) @@ g.at :> Fresh(g))
           /\ arm = [t \in {f.at[1] : f \in own} |-> 0]
    /\ \E size \in {Structs[root].builder.size} : mem = NewStruct(size[1], size[2])

\* set_x of the generated Builder.
StaticSet(f, v) ==
    /\ Active(f) /\ f.field.name \in DOMAIN f.in.builder.set
    /\ mem' = Run(f.in.builder.set[f.field.name], mem, v)
    /\ Store(f, v)
    /\ UNCHANGED <<root, focus>>

\* init_x of the generated Builder, for a pointer: an empty object, or null for AnyPointer.
StaticInit(f) ==
    /\ Active(f) /\ f.field.name \in DOMAIN f.in.builder.init
    /\ mem' = Run(f.in.builder.init[f.field.name], mem, Object("new"))
    /\ Store(f, Object(IF f.type = "any" THEN "null" ELSE "new"))
    /\ UNCHANGED <<root, focus>>

\* init_x of the generated Builder, for a group.
StaticInitGroup(g) ==
    /\ Active(g)
    /\ mem' = Run(g.in.builder.init[g.field.name], mem, Nothing)
    /\ StartOver(g)
    /\ UNCHANGED <<root, focus>>

\* get_x of the generated Builder, of a struct: a null pointer becomes a struct.
StaticGetBuilder(f) ==
    /\ Active(f) /\ Chosen(f) /\ f.type = "struct" /\ PointerIsNull(f, mem)
    /\ mem' = set_pointer_field(mem, f.field.offset, "new")
    /\ Store(f, Object("new"))
    /\ UNCHANGED <<root, focus>>

\* get of the dynamic Builder: a null struct, text or data is given its default, which is
\* empty; a list stays null, for its default is null.  The union is not looked at: under
\* another member than the one chosen the pointer is that member's, whose value is lost.
DynamicGetBuilder(f) ==
    /\ Active(f) /\ f.type \in {"struct", "text", "data"} /\ PointerIsNull(f, mem)
    /\ mem' = set_pointer_field(mem, f.field.offset, "new")
    /\ want' = [l \in focus |->
                   CASE l = f.at -> IF Chosen(f) THEN Object("new") ELSE want[l]
                     [] l # f.at /\ PointerOf(FieldTable[l]) = PointerOf(f) -> Anything
                     [] OTHER -> want[l]]
    /\ UNCHANGED <<root, focus, arm>>

\* Capabilities cannot be set.
DynamicSet(f, v) ==
    /\ Active(f) /\ f.type # "interface"
    /\ mem' = set(f, mem, v)
    /\ Store(f, v)
    /\ UNCHANGED <<root, focus>>

\* set with a value of another type, init of what cannot be initialised: the error is
\* returned after the union was switched.  A field that was not chosen holds anything.
DynamicSetMismatch(f) ==
    /\ Active(f) /\ f.type # "void"
    /\ mem' = set_in_union(f, mem)
    /\ \/ Chosen(f) /\ UNCHANGED <<arm, want>>
       \/ ~Chosen(f) /\ Store(f, Anything)
    /\ UNCHANGED <<root, focus>>

\* The same of a group.
DynamicSetGroupMismatch(g) ==
    /\ Active(g)
    /\ mem' = set_in_union(g, mem)
    /\ \/ Chosen(g) /\ UNCHANGED <<arm, want>>
       \/ ~Chosen(g) /\ Forget(g)
    /\ UNCHANGED <<root, focus>>

\* init of a struct or an AnyPointer, initn of a text, data or list.
DynamicInit(f) ==
    /\ Active(f) /\ is_pointer_type(f.type) /\ f.type # "interface"
    /\ mem' = init(f, mem)
    /\ Store(f, Object(IF f.type = "any" THEN "null" ELSE "new"))
    /\ UNCHANGED <<root, focus>>

DynamicClear(f) ==
    /\ Active(f)
    /\ mem' = clear(f, mem)
    /\ Store(f, Fresh(f))
    /\ UNCHANGED <<root, focus>>

\* clear of a group, and init of a group, which clears it.
DynamicClearGroup(g) ==
    /\ Active(g)
    /\ mem' = clear(g, mem)
    /\ StartOver(g)
    /\ UNCHANGED <<root, focus>>

\* A group elsewhere in which the program stored v in field f, after choosing the members
\* that lead to it.
Source(f, v) ==
    set(f, FoldSet(LAMBDA k, x : set_in_union(FieldTable[k], x),
                   NewStruct(mem.data \div 64, mem.pointers), f.around), v)

\* set of a group to another one.  If an AnyPointer is met the group is left half copied.
DynamicSetGroup(g, f, v) ==
    \E done \in {set_group(g, mem, Source(f, v))} :
        /\ Active(g) /\ f.at[1] \in g.inside
        /\ mem' = done.mem
        /\ \/ ~done.ok /\ Forget(g)
           \/ /\ done.ok
              /\ arm' = [t \in DOMAIN arm |->
                            IF t \notin g.inside THEN ChooseArm(g)[t]
                            ELSE FoldSet(LAMBDA c, d : c[2], 0,
                                     {c \in f.path \cup Choice(f.field, f.at[1]) : c[1] = t})]
              /\ want' = [l \in focus |->
                             CASE l = f.at -> v
                               [] l # f.at /\ l[1] \notin g.inside -> want[l]
                               [] OTHER -> IF is_pointer_type(FieldTable[l].type) THEN Empty
                                           ELSE Fresh(FieldTable[l])]
        /\ UNCHANGED <<root, focus>>

Next ==
    \/ \E f \in {FieldTable[l] : l \in focus} :
           \/ \E v \in Values(f) : StaticSet(f, v) \/ DynamicSet(f, v)
           \/ StaticInit(f) \/ DynamicInit(f) \/ DynamicClear(f)
           \/ StaticGetBuilder(f) \/ DynamicGetBuilder(f) \/ DynamicSetMismatch(f)
    \/ \E g \in {FieldTable[k] : k \in UNION {FieldTable[l].around : l \in focus}} :
           \/ StaticInitGroup(g) \/ DynamicClearGroup(g) \/ DynamicSetGroupMismatch(g)
           \/ \E f \in {FieldTable[l] : l \in focus} :
                  \E v \in Values(f) : DynamicSetGroup(g, f, v)

Spec == Init /\ [][Next]_vars

-----------------------------------------------------------------------------
(* Properties.                                                                 *)

\* No write of either interface leaves the struct's sections: StructBuilder does not
\* check offsets, it relies on the generated numbers and the schema.
WritesStayInside ==
    \E size \in {Structs[root].builder.size} :
        /\ mem.ones \subseteq 0..(64 * size[1] - 1)
        /\ DOMAIN mem.ptrs = 0..(size[2] - 1)
        /\ \A f \in {FieldTable[l] : l \in focus} :
               is_pointer_type(f.type) => f.field.offset < size[2]

\* What reading a field must say, given a reader's value and its answer to has.
Agrees(f, value, present) ==
    CASE want[f.at] = Anything   -> TRUE
      [] want[f.at] = Empty -> value[1] \in {"null", "new"} /\ present = (value[1] = "new")
      [] OTHER -> /\ value = want[f.at]
                  /\ is_pointer_type(f.type) => present = (want[f.at] # Object("null"))

\* The generated readers return, for every field that is chosen, what was last stored in
\* it through either interface, whatever happened to the fields around it; which() names
\* the member last chosen, and has_x is false for the members of the union not chosen.
\* A dynamic get of a member that is not chosen may write the chosen member's pointer: of
\* a field that lost its value in this way nothing is said until it is stored again.
StaticReads ==
    \A f \in {FieldTable[l] : l \in focus} : Active(f) =>
        /\ InUnion(f) /\ arm[f.at[1]] # Unknown =>
               StaticWhich(f.in.reader.which, mem).arm = arm[f.at[1]]
        /\ Chosen(f) => Agrees(f, StaticGet(f, mem),
                               is_pointer_type(f.type) /\ StaticHas(f, mem))
        /\ ~Chosen(f) /\ arm[f.at[1]] # Unknown /\ is_pointer_type(f.type) => ~StaticHas(f, mem)

\* The same of dynamic_struct::Reader; its which() finds the member, and no other.
DynamicReads ==
    \A f \in {FieldTable[l] : l \in focus} : Active(f) =>
        /\ InUnion(f) /\ arm[f.at[1]] # Unknown =>
               {f.in.node.fields[i].discriminant : i \in which(f.in, mem)} = {arm[f.at[1]]}
        /\ Chosen(f) => Agrees(f, get(f, mem), has(f, mem))
        /\ ~Chosen(f) /\ arm[f.at[1]] # Unknown => ~has(f, mem)

Generated ==
    {t \in DOMAIN Structs :
        LET node == Structs[t].node
            builder == Structs[t].builder
            members == Structs[t].members
        IN  /\ Structs[t].reader = Gen!reader_members(node)
            /\ builder.size = Gen!builder_struct_size(node)
            /\ builder.as_reader = Structs[t].reader
            /\ builder.set = Gen!builder_setters(node)
            /\ [n \in DOMAIN builder.init |-> Range(builder.init[n])] = Gen!builder_initters(node)
            /\ members.types = Gen!generate_get_field_types(node)
            /\ members.nonunion = Gen!nonunion_members(node)
            /\ members.by_discriminant = Gen!members_by_discriminant(node)
            /\ Range(members.by_name) = {i - 1 : i \in DOMAIN node.fields}}

\* The accessors and tables in the repository are what its own generator makes of the
\* schema nodes they carry: generated code and generator have not drifted apart.
GeneratedFromSchema == DOMAIN arm \subseteq Generated
=============================================================================
