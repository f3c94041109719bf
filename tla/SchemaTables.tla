-------------------------------- MODULE SchemaTables --------------------------------
(*******************************************************************************)
(* The structs of schema.capnp as capnp/src/schema_capnp.rs accesses them; the *)
(* definitions are laid out as those of RpcTables.                             *)
(*******************************************************************************)
EXTENDS Fields

\* node::Reader
node_reader ==
    [get |-> [id |-> Data(64, 0, 0), displayName |-> Ptr(0),
            displayNamePrefixLength |-> Data(32, 2, 0), scopeId |-> Data(64, 2, 0),
            nestedNodes |-> Ptr(1), annotations |-> Ptr(2), parameters |-> Ptr(5),
            isGeneric |-> Data(1, 288, 0)],
     has |-> [displayName |-> Has(0), nestedNodes |-> Has(1), annotations |-> Has(2),
            parameters |-> Has(5)],
     which |-> Which(6, <<Void, Here, Here, Here, Here, Here>>)]
node_builder ==
    [size |-> <<5, 6>>, as_reader |-> node_reader,
     set |-> [id |-> <<Put(64, 0, 0)>>, displayName |-> <<PutPtr(0)>>,
            displayNamePrefixLength |-> <<Put(32, 2, 0)>>, scopeId |-> <<Put(64, 2, 0)>>,
            nestedNodes |-> <<PutPtr(1)>>, annotations |-> <<PutPtr(2)>>,
            file |-> <<Const(16, 6, 0)>>, parameters |-> <<PutPtr(5)>>,
            isGeneric |-> <<Put(1, 288, 0)>>],
     init |-> [displayName |-> <<PutPtr(0)>>, nestedNodes |-> <<PutPtr(1)>>,
            annotations |-> <<PutPtr(2)>>,
            struct |-> <<Const(16, 6, 1), Const(16, 7, 0), Const(16, 12, 0), Const(16, 13, 0), Const(1, 224, 0), Const(16, 15, 0), Const(32, 8, 0), ClearPtr(3)>>,
            enum |-> <<Const(16, 6, 2), ClearPtr(3)>>,
            interface |-> <<Const(16, 6, 3), ClearPtr(3), ClearPtr(4)>>,
            const |-> <<Const(16, 6, 4), ClearPtr(3), ClearPtr(4)>>,
            annotation |-> <<Const(16, 6, 5), ClearPtr(3), Const(1, 112, 0), Const(1, 113, 0), Const(1, 114, 0), Const(1, 115, 0), Const(1, 116, 0), Const(1, 117, 0), Const(1, 118, 0), Const(1, 119, 0), Const(1, 120, 0), Const(1, 121, 0), Const(1, 122, 0), Const(1, 123, 0)>>,
            parameters |-> <<PutPtr(5)>>]]
node_node ==
    Node(5, 6, FALSE, Union(6, 6),
         <<Slot("id", "u64", 0), Slot("displayName", "text", 0),
           Slot("displayNamePrefixLength", "u32", 2), Slot("scopeId", "u64", 2),
           Slot("nestedNodes", "list", 1), Slot("annotations", "list", 2),
           Arm(0, Slot("file", "void", 0)), Arm(1, Group("struct", "node_struct")),
           Arm(2, Group("enum", "node_enum")), Arm(3, Group("interface", "node_interface")),
           Arm(4, Group("const", "node_const")), Arm(5, Group("annotation", "node_annotation")),
           Slot("parameters", "list", 5), Slot("isGeneric", "bool", 288)>>)
node_members ==
    [types |-> <<"u64", "text", "u32", "u64", "list", "list", "void", "node_struct", "node_enum",
            "node_interface", "node_const", "node_annotation", "list", "bool">>,
     nonunion |-> <<0, 1, 2, 3, 4, 5, 12, 13>>,
     by_discriminant |-> <<6, 7, 8, 9, 10, 11>>,
     by_name |-> <<11, 5, 10, 1, 2, 8, 6, 0, 9, 13, 4, 12, 3, 7>>]

\* node::parameter::Reader
node_parameter_reader ==
    [get |-> [name |-> Ptr(0)],
     has |-> [name |-> Has(0)],
     which |-> NoUnion]
node_parameter_builder ==
    [size |-> <<0, 1>>, as_reader |-> node_parameter_reader,
     set |-> [name |-> <<PutPtr(0)>>],
     init |-> [name |-> <<PutPtr(0)>>]]
node_parameter_node ==
    Node(0, 1, FALSE, Union(0, 0),
         <<Slot("name", "text", 0)>>)
node_parameter_members ==
    [types |-> <<"text">>,
     nonunion |-> <<0>>,
     by_discriminant |-> << >>,
     by_name |-> <<0>>]

\* node::nested_node::Reader
node_nested_node_reader ==
    [get |-> [name |-> Ptr(0), id |-> Data(64, 0, 0)],
     has |-> [name |-> Has(0)],
     which |-> NoUnion]
node_nested_node_builder ==
    [size |-> <<1, 1>>, as_reader |-> node_nested_node_reader,
     set |-> [name |-> <<PutPtr(0)>>, id |-> <<Put(64, 0, 0)>>],
     init |-> [name |-> <<PutPtr(0)>>]]
node_nested_node_node ==
    Node(1, 1, FALSE, Union(0, 0),
         <<Slot("name", "text", 0), Slot("id", "u64", 0)>>)
node_nested_node_members ==
    [types |-> <<"text", "u64">>,
     nonunion |-> <<0, 1>>,
     by_discriminant |-> << >>,
     by_name |-> <<1, 0>>]

\* node::source_info::Reader
node_source_info_reader ==
    [get |-> [id |-> Data(64, 0, 0), docComment |-> Ptr(0), members |-> Ptr(1)],
     has |-> [docComment |-> Has(0), members |-> Has(1)],
     which |-> NoUnion]
node_source_info_builder ==
    [size |-> <<1, 2>>, as_reader |-> node_source_info_reader,
     set |-> [id |-> <<Put(64, 0, 0)>>, docComment |-> <<PutPtr(0)>>, members |-> <<PutPtr(1)>>],
     init |-> [docComment |-> <<PutPtr(0)>>, members |-> <<PutPtr(1)>>]]
node_source_info_node ==
    Node(1, 2, FALSE, Union(0, 0),
         <<Slot("id", "u64", 0), Slot("docComment", "text", 0), Slot("members", "list", 1)>>)
node_source_info_members ==
    [types |-> <<"u64", "text", "list">>,
     nonunion |-> <<0, 1, 2>>,
     by_discriminant |-> << >>,
     by_name |-> <<1, 0, 2>>]

\* node::source_info::member::Reader
node_source_info_member_reader ==
    [get |-> [docComment |-> Ptr(0)],
     has |-> [docComment |-> Has(0)],
     which |-> NoUnion]
node_source_info_member_builder ==
    [size |-> <<0, 1>>, as_reader |-> node_source_info_member_reader,
     set |-> [docComment |-> <<PutPtr(0)>>],
     init |-> [docComment |-> <<PutPtr(0)>>]]
node_source_info_member_node ==
    Node(0, 1, FALSE, Union(0, 0),
         <<Slot("docComment", "text", 0)>>)
node_source_info_member_members ==
    [types |-> <<"text">>,
     nonunion |-> <<0>>,
     by_discriminant |-> << >>,
     by_name |-> <<0>>]

\* node::struct_::Reader
node_struct_reader ==
    [get |-> [dataWordCount |-> Data(16, 7, 0), pointerCount |-> Data(16, 12, 0),
            preferredListEncoding |-> Data(16, 13, 0), isGroup |-> Data(1, 224, 0),
            discriminantCount |-> Data(16, 15, 0), discriminantOffset |-> Data(32, 8, 0),
            fields |-> Ptr(3)],
     has |-> [fields |-> Has(3)],
     which |-> NoUnion]
node_struct_builder ==
    [size |-> <<5, 6>>, as_reader |-> node_struct_reader,
     set |-> [dataWordCount |-> <<Put(16, 7, 0)>>, pointerCount |-> <<Put(16, 12, 0)>>,
            preferredListEncoding |-> <<Put(16, 13, 0)>>, isGroup |-> <<Put(1, 224, 0)>>,
            discriminantCount |-> <<Put(16, 15, 0)>>, discriminantOffset |-> <<Put(32, 8, 0)>>,
            fields |-> <<PutPtr(3)>>],
     init |-> [fields |-> <<PutPtr(3)>>]]
node_struct_node ==
    Node(5, 6, TRUE, Union(0, 0),
         <<Slot("dataWordCount", "u16", 7), Slot("pointerCount", "u16", 12),
           Slot("preferredListEncoding", "enum", 13), Slot("isGroup", "bool", 224),
           Slot("discriminantCount", "u16", 15), Slot("discriminantOffset", "u32", 8),
           Slot("fields", "list", 3)>>)
node_struct_members ==
    [types |-> <<"u16", "u16", "enum", "bool", "u16", "u32", "list">>,
     nonunion |-> <<0, 1, 2, 3, 4, 5, 6>>,
     by_discriminant |-> << >>,
     by_name |-> <<0, 4, 5, 6, 3, 1, 2>>]

\* node::enum_::Reader
node_enum_reader ==
    [get |-> [enumerants |-> Ptr(3)],
     has |-> [enumerants |-> Has(3)],
     which |-> NoUnion]
node_enum_builder ==
    [size |-> <<5, 6>>, as_reader |-> node_enum_reader,
     set |-> [enumerants |-> <<PutPtr(3)>>],
     init |-> [enumerants |-> <<PutPtr(3)>>]]
node_enum_node ==
    Node(5, 6, TRUE, Union(0, 0),
         <<Slot("enumerants", "list", 3)>>)
node_enum_members ==
    [types |-> <<"list">>,
     nonunion |-> <<0>>,
     by_discriminant |-> << >>,
     by_name |-> <<0>>]

\* node::interface::Reader
node_interface_reader ==
    [get |-> [methods |-> Ptr(3), superclasses |-> Ptr(4)],
     has |-> [methods |-> Has(3), superclasses |-> Has(4)],
     which |-> NoUnion]
node_interface_builder ==
    [size |-> <<5, 6>>, as_reader |-> node_interface_reader,
     set |-> [methods |-> <<PutPtr(3)>>, superclasses |-> <<PutPtr(4)>>],
     init |-> [methods |-> <<PutPtr(3)>>, superclasses |-> <<PutPtr(4)>>]]
node_interface_node ==
    Node(5, 6, TRUE, Union(0, 0),
         <<Slot("methods", "list", 3), Slot("superclasses", "list", 4)>>)
node_interface_members ==
    [types |-> <<"list", "list">>,
     nonunion |-> <<0, 1>>,
     by_discriminant |-> << >>,
     by_name |-> <<0, 1>>]

\* node::const_::Reader
node_const_reader ==
    [get |-> [type |-> Ptr(3), value |-> Ptr(4)],
     has |-> [type |-> Has(3), value |-> Has(4)],
     which |-> NoUnion]
node_const_builder ==
    [size |-> <<5, 6>>, as_reader |-> node_const_reader,
     set |-> [type |-> <<PutPtr(3)>>, value |-> <<PutPtr(4)>>],
     init |-> [type |-> <<PutPtr(3)>>, value |-> <<PutPtr(4)>>]]
node_const_node ==
    Node(5, 6, TRUE, Union(0, 0),
         <<Slot("type", "struct", 3), Slot("value", "struct", 4)>>)
node_const_members ==
    [types |-> <<"struct", "struct">>,
     nonunion |-> <<0, 1>>,
     by_discriminant |-> << >>,
     by_name |-> <<0, 1>>]

\* node::annotation::Reader
node_annotation_reader ==
    [get |-> [type |-> Ptr(3), targetsFile |-> Data(1, 112, 0), targetsConst |-> Data(1, 113, 0),
            targetsEnum |-> Data(1, 114, 0), targetsEnumerant |-> Data(1, 115, 0),
            targetsStruct |-> Data(1, 116, 0), targetsField |-> Data(1, 117, 0),
            targetsUnion |-> Data(1, 118, 0), targetsGroup |-> Data(1, 119, 0),
            targetsInterface |-> Data(1, 120, 0), targetsMethod |-> Data(1, 121, 0),
            targetsParam |-> Data(1, 122, 0), targetsAnnotation |-> Data(1, 123, 0)],
     has |-> [type |-> Has(3)],
     which |-> NoUnion]
node_annotation_builder ==
    [size |-> <<5, 6>>, as_reader |-> node_annotation_reader,
     set |-> [type |-> <<PutPtr(3)>>, targetsFile |-> <<Put(1, 112, 0)>>,
            targetsConst |-> <<Put(1, 113, 0)>>, targetsEnum |-> <<Put(1, 114, 0)>>,
            targetsEnumerant |-> <<Put(1, 115, 0)>>, targetsStruct |-> <<Put(1, 116, 0)>>,
            targetsField |-> <<Put(1, 117, 0)>>, targetsUnion |-> <<Put(1, 118, 0)>>,
            targetsGroup |-> <<Put(1, 119, 0)>>, targetsInterface |-> <<Put(1, 120, 0)>>,
            targetsMethod |-> <<Put(1, 121, 0)>>, targetsParam |-> <<Put(1, 122, 0)>>,
            targetsAnnotation |-> <<Put(1, 123, 0)>>],
     init |-> [type |-> <<PutPtr(3)>>]]
node_annotation_node ==
    Node(5, 6, TRUE, Union(0, 0),
         <<Slot("type", "struct", 3), Slot("targetsFile", "bool", 112),
           Slot("targetsConst", "bool", 113), Slot("targetsEnum", "bool", 114),
           Slot("targetsEnumerant", "bool", 115), Slot("targetsStruct", "bool", 116),
           Slot("targetsField", "bool", 117), Slot("targetsUnion", "bool", 118),
           Slot("targetsGroup", "bool", 119), Slot("targetsInterface", "bool", 120),
           Slot("targetsMethod", "bool", 121), Slot("targetsParam", "bool", 122),
           Slot("targetsAnnotation", "bool", 123)>>)
node_annotation_members ==
    [types |-> <<"struct", "bool", "bool", "bool", "bool", "bool", "bool", "bool", "bool", "bool",
            "bool", "bool", "bool">>,
     nonunion |-> <<0, 1, 2, 3, 4, 5, 6, 7, 8, 9, 10, 11, 12>>,
     by_discriminant |-> << >>,
     by_name |-> <<12, 2, 3, 4, 6, 1, 8, 9, 10, 11, 5, 7, 0>>]

\* field::Reader
field_reader ==
    [get |-> [name |-> Ptr(0), codeOrder |-> Data(16, 0, 0), annotations |-> Ptr(1),
            discriminantValue |-> Data(16, 1, 65535), ordinal |-> Here],
     has |-> [name |-> Has(0), annotations |-> Has(1)],
     which |-> Which(4, <<Here, Here>>)]
field_builder ==
    [size |-> <<3, 4>>, as_reader |-> field_reader,
     set |-> [name |-> <<PutPtr(0)>>, codeOrder |-> <<Put(16, 0, 0)>>,
            annotations |-> <<PutPtr(1)>>, discriminantValue |-> <<Put(16, 1, 65535)>>],
     init |-> [name |-> <<PutPtr(0)>>, annotations |-> <<PutPtr(1)>>,
            slot |-> <<Const(16, 4, 0), Const(32, 1, 0), ClearPtr(2), ClearPtr(3), Const(1, 128, 0)>>,
            group |-> <<Const(16, 4, 1), Const(64, 2, 0)>>,
            ordinal |-> <<Const(16, 5, 0), Const(16, 6, 0)>>]]
field_node ==
    Node(3, 4, FALSE, Union(2, 4),
         <<Slot("name", "text", 0), Slot("codeOrder", "u16", 0), Slot("annotations", "list", 1),
           Default(65535, Slot("discriminantValue", "u16", 1)),
           Arm(0, Group("slot", "field_slot")), Arm(1, Group("group", "field_group")),
           Group("ordinal", "field_ordinal")>>)
field_members ==
    [types |-> <<"text", "u16", "list", "u16", "field_slot", "field_group", "field_ordinal">>,
     nonunion |-> <<0, 1, 2, 3, 6>>,
     by_discriminant |-> <<4, 5>>,
     by_name |-> <<2, 1, 3, 5, 0, 6, 4>>]

\* field::slot::Reader
field_slot_reader ==
    [get |-> [offset |-> Data(32, 1, 0), type |-> Ptr(2), defaultValue |-> Ptr(3),
            hadExplicitDefault |-> Data(1, 128, 0)],
     has |-> [type |-> Has(2), defaultValue |-> Has(3)],
     which |-> NoUnion]
field_slot_builder ==
    [size |-> <<3, 4>>, as_reader |-> field_slot_reader,
     set |-> [offset |-> <<Put(32, 1, 0)>>, type |-> <<PutPtr(2)>>,
            defaultValue |-> <<PutPtr(3)>>, hadExplicitDefault |-> <<Put(1, 128, 0)>>],
     init |-> [type |-> <<PutPtr(2)>>, defaultValue |-> <<PutPtr(3)>>]]
field_slot_node ==
    Node(3, 4, TRUE, Union(0, 0),
         <<Slot("offset", "u32", 1), Slot("type", "struct", 2), Slot("defaultValue", "struct", 3),
           Slot("hadExplicitDefault", "bool", 128)>>)
field_slot_members ==
    [types |-> <<"u32", "struct", "struct", "bool">>,
     nonunion |-> <<0, 1, 2, 3>>,
     by_discriminant |-> << >>,
     by_name |-> <<2, 3, 0, 1>>]

\* field::group::Reader
field_group_reader ==
    [get |-> [typeId |-> Data(64, 2, 0)],
     has |-> NoFields,
     which |-> NoUnion]
field_group_builder ==
    [size |-> <<3, 4>>, as_reader |-> field_group_reader,
     set |-> [typeId |-> <<Put(64, 2, 0)>>],
     init |-> NoFields]
field_group_node ==
    Node(3, 4, TRUE, Union(0, 0),
         <<Slot("typeId", "u64", 2)>>)
field_group_members ==
    [types |-> <<"u64">>,
     nonunion |-> <<0>>,
     by_discriminant |-> << >>,
     by_name |-> <<0>>]

\* field::ordinal::Reader
field_ordinal_reader ==
    [get |-> NoFields,
     has |-> NoFields,
     which |-> Which(5, <<Void, Data(16, 6, 0)>>)]
field_ordinal_builder ==
    [size |-> <<3, 4>>, as_reader |-> field_ordinal_reader,
     set |-> [implicit |-> <<Const(16, 5, 0)>>, explicit |-> <<Const(16, 5, 1), Put(16, 6, 0)>>],
     init |-> NoFields]
field_ordinal_node ==
    Node(3, 4, TRUE, Union(2, 5),
         <<Arm(0, Slot("implicit", "void", 0)), Arm(1, Slot("explicit", "u16", 6))>>)
field_ordinal_members ==
    [types |-> <<"void", "u16">>,
     nonunion |-> << >>,
     by_discriminant |-> <<0, 1>>,
     by_name |-> <<1, 0>>]

\* enumerant::Reader
enumerant_reader ==
    [get |-> [name |-> Ptr(0), codeOrder |-> Data(16, 0, 0), annotations |-> Ptr(1)],
     has |-> [name |-> Has(0), annotations |-> Has(1)],
     which |-> NoUnion]
enumerant_builder ==
    [size |-> <<1, 2>>, as_reader |-> enumerant_reader,
     set |-> [name |-> <<PutPtr(0)>>, codeOrder |-> <<Put(16, 0, 0)>>,
            annotations |-> <<PutPtr(1)>>],
     init |-> [name |-> <<PutPtr(0)>>, annotations |-> <<PutPtr(1)>>]]
enumerant_node ==
    Node(1, 2, FALSE, Union(0, 0),
         <<Slot("name", "text", 0), Slot("codeOrder", "u16", 0), Slot("annotations", "list", 1)>>)
enumerant_members ==
    [types |-> <<"text", "u16", "list">>,
     nonunion |-> <<0, 1, 2>>,
     by_discriminant |-> << >>,
     by_name |-> <<2, 1, 0>>]

\* superclass::Reader
superclass_reader ==
    [get |-> [id |-> Data(64, 0, 0), brand |-> Ptr(0)],
     has |-> [brand |-> Has(0)],
     which |-> NoUnion]
superclass_builder ==
    [size |-> <<1, 1>>, as_reader |-> superclass_reader,
     set |-> [id |-> <<Put(64, 0, 0)>>, brand |-> <<PutPtr(0)>>],
     init |-> [brand |-> <<PutPtr(0)>>]]
superclass_node ==
    Node(1, 1, FALSE, Union(0, 0),
         <<Slot("id", "u64", 0), Slot("brand", "struct", 0)>>)
superclass_members ==
    [types |-> <<"u64", "struct">>,
     nonunion |-> <<0, 1>>,
     by_discriminant |-> << >>,
     by_name |-> <<1, 0>>]

\* method::Reader
method_reader ==
    [get |-> [name |-> Ptr(0), codeOrder |-> Data(16, 0, 0), paramStructType |-> Data(64, 1, 0),
            resultStructType |-> Data(64, 2, 0), annotations |-> Ptr(1), paramBrand |-> Ptr(2),
            resultBrand |-> Ptr(3), implicitParameters |-> Ptr(4)],
     has |-> [name |-> Has(0), annotations |-> Has(1), paramBrand |-> Has(2),
            resultBrand |-> Has(3), implicitParameters |-> Has(4)],
     which |-> NoUnion]
method_builder ==
    [size |-> <<3, 5>>, as_reader |-> method_reader,
     set |-> [name |-> <<PutPtr(0)>>, codeOrder |-> <<Put(16, 0, 0)>>,
            paramStructType |-> <<Put(64, 1, 0)>>, resultStructType |-> <<Put(64, 2, 0)>>,
            annotations |-> <<PutPtr(1)>>, paramBrand |-> <<PutPtr(2)>>,
            resultBrand |-> <<PutPtr(3)>>, implicitParameters |-> <<PutPtr(4)>>],
     init |-> [name |-> <<PutPtr(0)>>, annotations |-> <<PutPtr(1)>>,
            paramBrand |-> <<PutPtr(2)>>, resultBrand |-> <<PutPtr(3)>>,
            implicitParameters |-> <<PutPtr(4)>>]]
method_node ==
    Node(3, 5, FALSE, Union(0, 0),
         <<Slot("name", "text", 0), Slot("codeOrder", "u16", 0),
           Slot("paramStructType", "u64", 1), Slot("resultStructType", "u64", 2),
           Slot("annotations", "list", 1), Slot("paramBrand", "struct", 2),
           Slot("resultBrand", "struct", 3), Slot("implicitParameters", "list", 4)>>)
method_members ==
    [types |-> <<"text", "u16", "u64", "u64", "list", "struct", "struct", "list">>,
     nonunion |-> <<0, 1, 2, 3, 4, 5, 6, 7>>,
     by_discriminant |-> << >>,
     by_name |-> <<4, 1, 7, 0, 5, 2, 6, 3>>]

\* type_::Reader
type_reader ==
    [get |-> NoFields,
     has |-> NoFields,
     which |-> Which(0, <<Void, Void, Void, Void, Void, Void, Void, Void, Void, Void, Void, Void,
            Void, Void, Here, Here, Here, Here, Here>>)]
type_builder ==
    [size |-> <<3, 1>>, as_reader |-> type_reader,
     set |-> [void |-> <<Const(16, 0, 0)>>, bool |-> <<Const(16, 0, 1)>>,
            int8 |-> <<Const(16, 0, 2)>>, int16 |-> <<Const(16, 0, 3)>>,
            int32 |-> <<Const(16, 0, 4)>>, int64 |-> <<Const(16, 0, 5)>>,
            uint8 |-> <<Const(16, 0, 6)>>, uint16 |-> <<Const(16, 0, 7)>>,
            uint32 |-> <<Const(16, 0, 8)>>, uint64 |-> <<Const(16, 0, 9)>>,
            float32 |-> <<Const(16, 0, 10)>>, float64 |-> <<Const(16, 0, 11)>>,
            text |-> <<Const(16, 0, 12)>>, data |-> <<Const(16, 0, 13)>>],
     init |-> [list |-> <<Const(16, 0, 14), ClearPtr(0)>>,
            enum |-> <<Const(16, 0, 15), Const(64, 1, 0), ClearPtr(0)>>,
            struct |-> <<Const(16, 0, 16), Const(64, 1, 0), ClearPtr(0)>>,
            interface |-> <<Const(16, 0, 17), Const(64, 1, 0), ClearPtr(0)>>,
            anyPointer |-> <<Const(16, 0, 18), Const(16, 4, 0), Const(16, 5, 0), Const(64, 2, 0), Const(16, 5, 0), Const(16, 5, 0)>>]]
type_node ==
    Node(3, 1, FALSE, Union(19, 0),
         <<Arm(0, Slot("void", "void", 0)), Arm(1, Slot("bool", "void", 0)),
           Arm(2, Slot("int8", "void", 0)), Arm(3, Slot("int16", "void", 0)),
           Arm(4, Slot("int32", "void", 0)), Arm(5, Slot("int64", "void", 0)),
           Arm(6, Slot("uint8", "void", 0)), Arm(7, Slot("uint16", "void", 0)),
           Arm(8, Slot("uint32", "void", 0)), Arm(9, Slot("uint64", "void", 0)),
           Arm(10, Slot("float32", "void", 0)), Arm(11, Slot("float64", "void", 0)),
           Arm(12, Slot("text", "void", 0)), Arm(13, Slot("data", "void", 0)),
           Arm(14, Group("list", "type_list")), Arm(15, Group("enum", "type_enum")),
           Arm(16, Group("struct", "type_struct")), Arm(17, Group("interface", "type_interface")),
           Arm(18, Group("anyPointer", "type_any_pointer"))>>)
type_members ==
    [types |-> <<"void", "void", "void", "void", "void", "void", "void", "void", "void", "void",
            "void", "void", "void", "void", "type_list", "type_enum", "type_struct",
            "type_interface", "type_any_pointer">>,
     nonunion |-> << >>,
     by_discriminant |-> <<0, 1, 2, 3, 4, 5, 6, 7, 8, 9, 10, 11, 12, 13, 14, 15, 16, 17, 18>>,
     by_name |-> <<18, 1, 13, 15, 10, 11, 3, 4, 5, 2, 17, 14, 16, 12, 7, 8, 9, 6, 0>>]

\* type_::list::Reader
type_list_reader ==
    [get |-> [elementType |-> Ptr(0)],
     has |-> [elementType |-> Has(0)],
     which |-> NoUnion]
type_list_builder ==
    [size |-> <<3, 1>>, as_reader |-> type_list_reader,
     set |-> [elementType |-> <<PutPtr(0)>>],
     init |-> [elementType |-> <<PutPtr(0)>>]]
type_list_node ==
    Node(3, 1, TRUE, Union(0, 0),
         <<Slot("elementType", "struct", 0)>>)
type_list_members ==
    [types |-> <<"struct">>,
     nonunion |-> <<0>>,
     by_discriminant |-> << >>,
     by_name |-> <<0>>]

\* type_::enum_::Reader
type_enum_reader ==
    [get |-> [typeId |-> Data(64, 1, 0), brand |-> Ptr(0)],
     has |-> [brand |-> Has(0)],
     which |-> NoUnion]
type_enum_builder ==
    [size |-> <<3, 1>>, as_reader |-> type_enum_reader,
     set |-> [typeId |-> <<Put(64, 1, 0)>>, brand |-> <<PutPtr(0)>>],
     init |-> [brand |-> <<PutPtr(0)>>]]
type_enum_node ==
    Node(3, 1, TRUE, Union(0, 0),
         <<Slot("typeId", "u64", 1), Slot("brand", "struct", 0)>>)
type_enum_members ==
    [types |-> <<"u64", "struct">>,
     nonunion |-> <<0, 1>>,
     by_discriminant |-> << >>,
     by_name |-> <<1, 0>>]

\* type_::struct_::Reader
type_struct_reader ==
    [get |-> [typeId |-> Data(64, 1, 0), brand |-> Ptr(0)],
     has |-> [brand |-> Has(0)],
     which |-> NoUnion]
type_struct_builder ==
    [size |-> <<3, 1>>, as_reader |-> type_struct_reader,
     set |-> [typeId |-> <<Put(64, 1, 0)>>, brand |-> <<PutPtr(0)>>],
     init |-> [brand |-> <<PutPtr(0)>>]]
type_struct_node ==
    Node(3, 1, TRUE, Union(0, 0),
         <<Slot("typeId", "u64", 1), Slot("brand", "struct", 0)>>)
type_struct_members ==
    [types |-> <<"u64", "struct">>,
     nonunion |-> <<0, 1>>,
     by_discriminant |-> << >>,
     by_name |-> <<1, 0>>]

\* type_::interface::Reader
type_interface_reader ==
    [get |-> [typeId |-> Data(64, 1, 0), brand |-> Ptr(0)],
     has |-> [brand |-> Has(0)],
     which |-> NoUnion]
type_interface_builder ==
    [size |-> <<3, 1>>, as_reader |-> type_interface_reader,
     set |-> [typeId |-> <<Put(64, 1, 0)>>, brand |-> <<PutPtr(0)>>],
     init |-> [brand |-> <<PutPtr(0)>>]]
type_interface_node ==
    Node(3, 1, TRUE, Union(0, 0),
         <<Slot("typeId", "u64", 1), Slot("brand", "struct", 0)>>)
type_interface_members ==
    [types |-> <<"u64", "struct">>,
     nonunion |-> <<0, 1>>,
     by_discriminant |-> << >>,
     by_name |-> <<1, 0>>]

\* type_::any_pointer::Reader
type_any_pointer_reader ==
    [get |-> NoFields,
     has |-> NoFields,
     which |-> Which(4, <<Here, Here, Here>>)]
type_any_pointer_builder ==
    [size |-> <<3, 1>>, as_reader |-> type_any_pointer_reader,
     set |-> NoFields,
     init |-> [unconstrained |-> <<Const(16, 4, 0), Const(16, 5, 0)>>,
            parameter |-> <<Const(16, 4, 1), Const(64, 2, 0), Const(16, 5, 0)>>,
            implicitMethodParameter |-> <<Const(16, 4, 2), Const(16, 5, 0)>>]]
type_any_pointer_node ==
    Node(3, 1, TRUE, Union(3, 4),
         <<Arm(0, Group("unconstrained", "type_any_pointer_unconstrained")),
           Arm(1, Group("parameter", "type_any_pointer_parameter")),
           Arm(2, Group("implicitMethodParameter", "type_any_pointer_implicit_method_parameter"))>>)
type_any_pointer_members ==
    [types |-> <<"type_any_pointer_unconstrained", "type_any_pointer_parameter",
            "type_any_pointer_implicit_method_parameter">>,
     nonunion |-> << >>,
     by_discriminant |-> <<0, 1, 2>>,
     by_name |-> <<2, 1, 0>>]

\* type_::any_pointer::unconstrained::Reader
type_any_pointer_unconstrained_reader ==
    [get |-> NoFields,
     has |-> NoFields,
     which |-> Which(5, <<Void, Void, Void, Void>>)]
type_any_pointer_unconstrained_builder ==
    [size |-> <<3, 1>>, as_reader |-> type_any_pointer_unconstrained_reader,
     set |-> [anyKind |-> <<Const(16, 5, 0)>>, struct |-> <<Const(16, 5, 1)>>,
            list |-> <<Const(16, 5, 2)>>, capability |-> <<Const(16, 5, 3)>>],
     init |-> NoFields]
type_any_pointer_unconstrained_node ==
    Node(3, 1, TRUE, Union(4, 5),
         <<Arm(0, Slot("anyKind", "void", 0)), Arm(1, Slot("struct", "void", 0)),
           Arm(2, Slot("list", "void", 0)), Arm(3, Slot("capability", "void", 0))>>)
type_any_pointer_unconstrained_members ==
    [types |-> <<"void", "void", "void", "void">>,
     nonunion |-> << >>,
     by_discriminant |-> <<0, 1, 2, 3>>,
     by_name |-> <<0, 3, 2, 1>>]

\* type_::any_pointer::parameter::Reader
type_any_pointer_parameter_reader ==
    [get |-> [scopeId |-> Data(64, 2, 0), parameterIndex |-> Data(16, 5, 0)],
     has |-> NoFields,
     which |-> NoUnion]
type_any_pointer_parameter_builder ==
    [size |-> <<3, 1>>, as_reader |-> type_any_pointer_parameter_reader,
     set |-> [scopeId |-> <<Put(64, 2, 0)>>, parameterIndex |-> <<Put(16, 5, 0)>>],
     init |-> NoFields]
type_any_pointer_parameter_node ==
    Node(3, 1, TRUE, Union(0, 0),
         <<Slot("scopeId", "u64", 2), Slot("parameterIndex", "u16", 5)>>)
type_any_pointer_parameter_members ==
    [types |-> <<"u64", "u16">>,
     nonunion |-> <<0, 1>>,
     by_discriminant |-> << >>,
     by_name |-> <<1, 0>>]

\* type_::any_pointer::implicit_method_parameter::Reader
type_any_pointer_implicit_method_parameter_reader ==
    [get |-> [parameterIndex |-> Data(16, 5, 0)],
     has |-> NoFields,
     which |-> NoUnion]
type_any_pointer_implicit_method_parameter_builder ==
    [size |-> <<3, 1>>, as_reader |-> type_any_pointer_implicit_method_parameter_reader,
     set |-> [parameterIndex |-> <<Put(16, 5, 0)>>],
     init |-> NoFields]
type_any_pointer_implicit_method_parameter_node ==
    Node(3, 1, TRUE, Union(0, 0),
         <<Slot("parameterIndex", "u16", 5)>>)
type_any_pointer_implicit_method_parameter_members ==
    [types |-> <<"u16">>,
     nonunion |-> <<0>>,
     by_discriminant |-> << >>,
     by_name |-> <<0>>]

\* brand::Reader
brand_reader ==
    [get |-> [scopes |-> Ptr(0)],
     has |-> [scopes |-> Has(0)],
     which |-> NoUnion]
brand_builder ==
    [size |-> <<0, 1>>, as_reader |-> brand_reader,
     set |-> [scopes |-> <<PutPtr(0)>>],
     init |-> [scopes |-> <<PutPtr(0)>>]]
brand_node ==
    Node(0, 1, FALSE, Union(0, 0),
         <<Slot("scopes", "list", 0)>>)
brand_members ==
    [types |-> <<"list">>,
     nonunion |-> <<0>>,
     by_discriminant |-> << >>,
     by_name |-> <<0>>]

\* brand::scope::Reader
brand_scope_reader ==
    [get |-> [scopeId |-> Data(64, 0, 0)],
     has |-> [bind |-> HasArm(4, 0, 0)],
     which |-> Which(4, <<Ptr(0), Void>>)]
brand_scope_builder ==
    [size |-> <<2, 1>>, as_reader |-> brand_scope_reader,
     set |-> [scopeId |-> <<Put(64, 0, 0)>>, bind |-> <<Const(16, 4, 0), PutPtr(0)>>,
            inherit |-> <<Const(16, 4, 1)>>],
     init |-> [bind |-> <<Const(16, 4, 0), PutPtr(0)>>]]
brand_scope_node ==
    Node(2, 1, FALSE, Union(2, 4),
         <<Slot("scopeId", "u64", 0), Arm(0, Slot("bind", "list", 0)),
           Arm(1, Slot("inherit", "void", 0))>>)
brand_scope_members ==
    [types |-> <<"u64", "list", "void">>,
     nonunion |-> <<0>>,
     by_discriminant |-> <<1, 2>>,
     by_name |-> <<1, 2, 0>>]

\* brand::binding::Reader
brand_binding_reader ==
    [get |-> NoFields,
     has |-> [type |-> HasArm(0, 1, 0)],
     which |-> Which(0, <<Void, Ptr(0)>>)]
brand_binding_builder ==
    [size |-> <<1, 1>>, as_reader |-> brand_binding_reader,
     set |-> [unbound |-> <<Const(16, 0, 0)>>, type |-> <<Const(16, 0, 1), PutPtr(0)>>],
     init |-> [type |-> <<Const(16, 0, 1), PutPtr(0)>>]]
brand_binding_node ==
    Node(1, 1, FALSE, Union(2, 0),
         <<Arm(0, Slot("unbound", "void", 0)), Arm(1, Slot("type", "struct", 0))>>)
brand_binding_members ==
    [types |-> <<"void", "struct">>,
     nonunion |-> << >>,
     by_discriminant |-> <<0, 1>>,
     by_name |-> <<1, 0>>]

\* value::Reader
value_reader ==
    [get |-> NoFields,
     has |-> [text |-> HasArm(0, 12, 0), data |-> HasArm(0, 13, 0), list |-> HasArm(0, 14, 0),
            struct |-> HasArm(0, 16, 0), anyPointer |-> HasArm(0, 18, 0)],
     which |-> Which(0, <<Void, Data(1, 16, 0), Data(8, 2, 0), Data(16, 1, 0), Data(32, 1, 0),
            Data(64, 1, 0), Data(8, 2, 0), Data(16, 1, 0), Data(32, 1, 0), Data(64, 1, 0),
            Data(32, 1, 0), Data(64, 1, 0), Ptr(0), Ptr(0), Ptr(0), Data(16, 1, 0), Ptr(0), Void,
            Ptr(0)>>)]
value_builder ==
    [size |-> <<2, 1>>, as_reader |-> value_reader,
     set |-> [void |-> <<Const(16, 0, 0)>>, bool |-> <<Const(16, 0, 1), Put(1, 16, 0)>>,
            int8 |-> <<Const(16, 0, 2), Put(8, 2, 0)>>,
            int16 |-> <<Const(16, 0, 3), Put(16, 1, 0)>>,
            int32 |-> <<Const(16, 0, 4), Put(32, 1, 0)>>,
            int64 |-> <<Const(16, 0, 5), Put(64, 1, 0)>>,
            uint8 |-> <<Const(16, 0, 6), Put(8, 2, 0)>>,
            uint16 |-> <<Const(16, 0, 7), Put(16, 1, 0)>>,
            uint32 |-> <<Const(16, 0, 8), Put(32, 1, 0)>>,
            uint64 |-> <<Const(16, 0, 9), Put(64, 1, 0)>>,
            float32 |-> <<Const(16, 0, 10), Put(32, 1, 0)>>,
            float64 |-> <<Const(16, 0, 11), Put(64, 1, 0)>>,
            text |-> <<Const(16, 0, 12), PutPtr(0)>>, data |-> <<Const(16, 0, 13), PutPtr(0)>>,
            enum |-> <<Const(16, 0, 15), Put(16, 1, 0)>>, interface |-> <<Const(16, 0, 17)>>],
     init |-> [text |-> <<Const(16, 0, 12), PutPtr(0)>>, data |-> <<Const(16, 0, 13), PutPtr(0)>>,
            list |-> <<Const(16, 0, 14), ClearPtr(0)>>,
            struct |-> <<Const(16, 0, 16), ClearPtr(0)>>,
            anyPointer |-> <<Const(16, 0, 18), ClearPtr(0)>>]]
value_node ==
    Node(2, 1, FALSE, Union(19, 0),
         <<Arm(0, Slot("void", "void", 0)), Arm(1, Slot("bool", "bool", 16)),
           Arm(2, Slot("int8", "i8", 2)), Arm(3, Slot("int16", "i16", 1)),
           Arm(4, Slot("int32", "i32", 1)), Arm(5, Slot("int64", "i64", 1)),
           Arm(6, Slot("uint8", "u8", 2)), Arm(7, Slot("uint16", "u16", 1)),
           Arm(8, Slot("uint32", "u32", 1)), Arm(9, Slot("uint64", "u64", 1)),
           Arm(10, Slot("float32", "f32", 1)), Arm(11, Slot("float64", "f64", 1)),
           Arm(12, Slot("text", "text", 0)), Arm(13, Slot("data", "data", 0)),
           Arm(14, Slot("list", "any", 0)), Arm(15, Slot("enum", "u16", 1)),
           Arm(16, Slot("struct", "any", 0)), Arm(17, Slot("interface", "void", 0)),
           Arm(18, Slot("anyPointer", "any", 0))>>)
value_members ==
    [types |-> <<"void", "bool", "i8", "i16", "i32", "i64", "u8", "u16", "u32", "u64", "f32",
            "f64", "text", "data", "any", "u16", "any", "void", "any">>,
     nonunion |-> << >>,
     by_discriminant |-> <<0, 1, 2, 3, 4, 5, 6, 7, 8, 9, 10, 11, 12, 13, 14, 15, 16, 17, 18>>,
     by_name |-> <<18, 1, 13, 15, 10, 11, 3, 4, 5, 2, 17, 14, 16, 12, 7, 8, 9, 6, 0>>]

\* annotation::Reader
annotation_reader ==
    [get |-> [id |-> Data(64, 0, 0), value |-> Ptr(0), brand |-> Ptr(1)],
     has |-> [value |-> Has(0), brand |-> Has(1)],
     which |-> NoUnion]
annotation_builder ==
    [size |-> <<1, 2>>, as_reader |-> annotation_reader,
     set |-> [id |-> <<Put(64, 0, 0)>>, value |-> <<PutPtr(0)>>, brand |-> <<PutPtr(1)>>],
     init |-> [value |-> <<PutPtr(0)>>, brand |-> <<PutPtr(1)>>]]
annotation_node ==
    Node(1, 2, FALSE, Union(0, 0),
         <<Slot("id", "u64", 0), Slot("value", "struct", 0), Slot("brand", "struct", 1)>>)
annotation_members ==
    [types |-> <<"u64", "struct", "struct">>,
     nonunion |-> <<0, 1, 2>>,
     by_discriminant |-> << >>,
     by_name |-> <<2, 0, 1>>]

\* capnp_version::Reader
capnp_version_reader ==
    [get |-> [major |-> Data(16, 0, 0), minor |-> Data(8, 2, 0), micro |-> Data(8, 3, 0)],
     has |-> NoFields,
     which |-> NoUnion]
capnp_version_builder ==
    [size |-> <<1, 0>>, as_reader |-> capnp_version_reader,
     set |-> [major |-> <<Put(16, 0, 0)>>, minor |-> <<Put(8, 2, 0)>>, micro |-> <<Put(8, 3, 0)>>],
     init |-> NoFields]
capnp_version_node ==
    Node(1, 0, FALSE, Union(0, 0),
         <<Slot("major", "u16", 0), Slot("minor", "u8", 2), Slot("micro", "u8", 3)>>)
capnp_version_members ==
    [types |-> <<"u16", "u8", "u8">>,
     nonunion |-> <<0, 1, 2>>,
     by_discriminant |-> << >>,
     by_name |-> <<0, 2, 1>>]

\* code_generator_request::Reader
code_generator_request_reader ==
    [get |-> [nodes |-> Ptr(0), requestedFiles |-> Ptr(1), capnpVersion |-> Ptr(2),
            sourceInfo |-> Ptr(3)],
     has |-> [nodes |-> Has(0), requestedFiles |-> Has(1), capnpVersion |-> Has(2),
            sourceInfo |-> Has(3)],
     which |-> NoUnion]
code_generator_request_builder ==
    [size |-> <<0, 4>>, as_reader |-> code_generator_request_reader,
     set |-> [nodes |-> <<PutPtr(0)>>, requestedFiles |-> <<PutPtr(1)>>,
            capnpVersion |-> <<PutPtr(2)>>, sourceInfo |-> <<PutPtr(3)>>],
     init |-> [nodes |-> <<PutPtr(0)>>, requestedFiles |-> <<PutPtr(1)>>,
            capnpVersion |-> <<PutPtr(2)>>, sourceInfo |-> <<PutPtr(3)>>]]
code_generator_request_node ==
    Node(0, 4, FALSE, Union(0, 0),
         <<Slot("nodes", "list", 0), Slot("requestedFiles", "list", 1),
           Slot("capnpVersion", "struct", 2), Slot("sourceInfo", "list", 3)>>)
code_generator_request_members ==
    [types |-> <<"list", "list", "struct", "list">>,
     nonunion |-> <<0, 1, 2, 3>>,
     by_discriminant |-> << >>,
     by_name |-> <<2, 0, 1, 3>>]

\* code_generator_request::requested_file::Reader
code_generator_request_requested_file_reader ==
    [get |-> [id |-> Data(64, 0, 0), filename |-> Ptr(0), imports |-> Ptr(1)],
     has |-> [filename |-> Has(0), imports |-> Has(1)],
     which |-> NoUnion]
code_generator_request_requested_file_builder ==
    [size |-> <<1, 2>>, as_reader |-> code_generator_request_requested_file_reader,
     set |-> [id |-> <<Put(64, 0, 0)>>, filename |-> <<PutPtr(0)>>, imports |-> <<PutPtr(1)>>],
     init |-> [filename |-> <<PutPtr(0)>>, imports |-> <<PutPtr(1)>>]]
code_generator_request_requested_file_node ==
    Node(1, 2, FALSE, Union(0, 0),
         <<Slot("id", "u64", 0), Slot("filename", "text", 0), Slot("imports", "list", 1)>>)
code_generator_request_requested_file_members ==
    [types |-> <<"u64", "text", "list">>,
     nonunion |-> <<0, 1, 2>>,
     by_discriminant |-> << >>,
     by_name |-> <<1, 0, 2>>]

\* code_generator_request::requested_file::import::Reader
code_generator_request_requested_file_import_reader ==
    [get |-> [id |-> Data(64, 0, 0), name |-> Ptr(0)],
     has |-> [name |-> Has(0)],
     which |-> NoUnion]
code_generator_request_requested_file_import_builder ==
    [size |-> <<1, 1>>, as_reader |-> code_generator_request_requested_file_import_reader,
     set |-> [id |-> <<Put(64, 0, 0)>>, name |-> <<PutPtr(0)>>],
     init |-> [name |-> <<PutPtr(0)>>]]
code_generator_request_requested_file_import_node ==
    Node(1, 1, FALSE, Union(0, 0),
         <<Slot("id", "u64", 0), Slot("name", "text", 0)>>)
code_generator_request_requested_file_import_members ==
    [types |-> <<"u64", "text">>,
     nonunion |-> <<0, 1>>,
     by_discriminant |-> << >>,
     by_name |-> <<0, 1>>]

\* The structs by name.
SchemaStructs ==
    [node |-> Struct(node_reader, node_builder, node_node, node_members),
     node_parameter |-> Struct(node_parameter_reader, node_parameter_builder, node_parameter_node, node_parameter_members),
     node_nested_node |-> Struct(node_nested_node_reader, node_nested_node_builder, node_nested_node_node, node_nested_node_members),
     node_source_info |-> Struct(node_source_info_reader, node_source_info_builder, node_source_info_node, node_source_info_members),
     node_source_info_member |-> Struct(node_source_info_member_reader, node_source_info_member_builder, node_source_info_member_node, node_source_info_member_members),
     node_struct |-> Struct(node_struct_reader, node_struct_builder, node_struct_node, node_struct_members),
     node_enum |-> Struct(node_enum_reader, node_enum_builder, node_enum_node, node_enum_members),
     node_interface |-> Struct(node_interface_reader, node_interface_builder, node_interface_node, node_interface_members),
     node_const |-> Struct(node_const_reader, node_const_builder, node_const_node, node_const_members),
     node_annotation |-> Struct(node_annotation_reader, node_annotation_builder, node_annotation_node, node_annotation_members),
     field |-> Struct(field_reader, field_builder, field_node, field_members),
     field_slot |-> Struct(field_slot_reader, field_slot_builder, field_slot_node, field_slot_members),
     field_group |-> Struct(field_group_reader, field_group_builder, field_group_node, field_group_members),
     field_ordinal |-> Struct(field_ordinal_reader, field_ordinal_builder, field_ordinal_node, field_ordinal_members),
     enumerant |-> Struct(enumerant_reader, enumerant_builder, enumerant_node, enumerant_members),
     superclass |-> Struct(superclass_reader, superclass_builder, superclass_node, superclass_members),
     method |-> Struct(method_reader, method_builder, method_node, method_members),
     type |-> Struct(type_reader, type_builder, type_node, type_members),
     type_list |-> Struct(type_list_reader, type_list_builder, type_list_node, type_list_members),
     type_enum |-> Struct(type_enum_reader, type_enum_builder, type_enum_node, type_enum_members),
     type_struct |-> Struct(type_struct_reader, type_struct_builder, type_struct_node, type_struct_members),
     type_interface |-> Struct(type_interface_reader, type_interface_builder, type_interface_node, type_interface_members),
     type_any_pointer |-> Struct(type_any_pointer_reader, type_any_pointer_builder, type_any_pointer_node, type_any_pointer_members),
     type_any_pointer_unconstrained |-> Struct(type_any_pointer_unconstrained_reader, type_any_pointer_unconstrained_builder, type_any_pointer_unconstrained_node, type_any_pointer_unconstrained_members),
     type_any_pointer_parameter |-> Struct(type_any_pointer_parameter_reader, type_any_pointer_parameter_builder, type_any_pointer_parameter_node, type_any_pointer_parameter_members),
     type_any_pointer_implicit_method_parameter |-> Struct(type_any_pointer_implicit_method_parameter_reader, type_any_pointer_implicit_method_parameter_builder, type_any_pointer_implicit_method_parameter_node, type_any_pointer_implicit_method_parameter_members),
     brand |-> Struct(brand_reader, brand_builder, brand_node, brand_members),
     brand_scope |-> Struct(brand_scope_reader, brand_scope_builder, brand_scope_node, brand_scope_members),
     brand_binding |-> Struct(brand_binding_reader, brand_binding_builder, brand_binding_node, brand_binding_members),
     value |-> Struct(value_reader, value_builder, value_node, value_members),
     annotation |-> Struct(annotation_reader, annotation_builder, annotation_node, annotation_members),
     capnp_version |-> Struct(capnp_version_reader, capnp_version_builder, capnp_version_node, capnp_version_members),
     code_generator_request |-> Struct(code_generator_request_reader, code_generator_request_builder, code_generator_request_node, code_generator_request_members),
     code_generator_request_requested_file |-> Struct(code_generator_request_requested_file_reader, code_generator_request_requested_file_builder, code_generator_request_requested_file_node, code_generator_request_requested_file_members),
     code_generator_request_requested_file_import |-> Struct(code_generator_request_requested_file_import_reader, code_generator_request_requested_file_import_builder, code_generator_request_requested_file_import_node, code_generator_request_requested_file_import_members)]
===============================================================================
