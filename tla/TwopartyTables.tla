------------------------------- MODULE TwopartyTables -------------------------------
(*******************************************************************************)
(* The structs of rpc-twoparty.capnp as capnp-rpc/src/rpc_twoparty_capnp.rs    *)
(* accesses them; the definitions are laid out as those of RpcTables.          *)
(*******************************************************************************)
EXTENDS Fields

\* vat_id::Reader
vat_id_reader ==
    [get |-> [side |-> Data(16, 0, 0)],
     has |-> NoFields,
     which |-> NoUnion]
vat_id_builder ==
    [size |-> <<1, 0>>, as_reader |-> vat_id_reader,
     set |-> [side |-> <<Put(16, 0, 0)>>],
     init |-> NoFields]
vat_id_node ==
    Node(1, 0, FALSE, Union(0, 0),
         <<Slot("side", "enum", 0)>>)
vat_id_members ==
    [types |-> <<"enum">>,
     nonunion |-> <<0>>,
     by_discriminant |-> << >>,
     by_name |-> <<0>>]

\* provision_id::Reader
provision_id_reader ==
    [get |-> [joinId |-> Data(32, 0, 0)],
     has |-> NoFields,
     which |-> NoUnion]
provision_id_builder ==
    [size |-> <<1, 0>>, as_reader |-> provision_id_reader,
     set |-> [joinId |-> <<Put(32, 0, 0)>>],
     init |-> NoFields]
provision_id_node ==
    Node(1, 0, FALSE, Union(0, 0),
         <<Slot("joinId", "u32", 0)>>)
provision_id_members ==
    [types |-> <<"u32">>,
     nonunion |-> <<0>>,
     by_discriminant |-> << >>,
     by_name |-> <<0>>]

\* recipient_id::Reader
recipient_id_reader ==
    [get |-> NoFields,
     has |-> NoFields,
     which |-> NoUnion]
recipient_id_builder ==
    [size |-> <<0, 0>>, as_reader |-> recipient_id_reader,
     set |-> NoFields,
     init |-> NoFields]
recipient_id_node ==
    Node(0, 0, FALSE, Union(0, 0),
         << >>)
recipient_id_members ==
    [types |-> << >>,
     nonunion |-> << >>,
     by_discriminant |-> << >>,
     by_name |-> << >>]

\* third_party_cap_id::Reader
third_party_cap_id_reader ==
    [get |-> NoFields,
     has |-> NoFields,
     which |-> NoUnion]
third_party_cap_id_builder ==
    [size |-> <<0, 0>>, as_reader |-> third_party_cap_id_reader,
     set |-> NoFields,
     init |-> NoFields]
third_party_cap_id_node ==
    Node(0, 0, FALSE, Union(0, 0),
         << >>)
third_party_cap_id_members ==
    [types |-> << >>,
     nonunion |-> << >>,
     by_discriminant |-> << >>,
     by_name |-> << >>]

\* join_key_part::Reader
join_key_part_reader ==
    [get |-> [joinId |-> Data(32, 0, 0), partCount |-> Data(16, 2, 0), partNum |-> Data(16, 3, 0)],
     has |-> NoFields,
     which |-> NoUnion]
join_key_part_builder ==
    [size |-> <<1, 0>>, as_reader |-> join_key_part_reader,
     set |-> [joinId |-> <<Put(32, 0, 0)>>, partCount |-> <<Put(16, 2, 0)>>,
            partNum |-> <<Put(16, 3, 0)>>],
     init |-> NoFields]
join_key_part_node ==
    Node(1, 0, FALSE, Union(0, 0),
         <<Slot("joinId", "u32", 0), Slot("partCount", "u16", 2), Slot("partNum", "u16", 3)>>)
join_key_part_members ==
    [types |-> <<"u32", "u16", "u16">>,
     nonunion |-> <<0, 1, 2>>,
     by_discriminant |-> << >>,
     by_name |-> <<0, 1, 2>>]

\* join_result::Reader
join_result_reader ==
    [get |-> [joinId |-> Data(32, 0, 0), succeeded |-> Data(1, 32, 0), cap |-> Ptr(0)],
     has |-> [cap |-> Has(0)],
     which |-> NoUnion]
join_result_builder ==
    [size |-> <<1, 1>>, as_reader |-> join_result_reader,
     set |-> [joinId |-> <<Put(32, 0, 0)>>, succeeded |-> <<Put(1, 32, 0)>>],
     init |-> [cap |-> <<ClearPtr(0)>>]]
join_result_node ==
    Node(1, 1, FALSE, Union(0, 0),
         <<Slot("joinId", "u32", 0), Slot("succeeded", "bool", 32), Slot("cap", "any", 0)>>)
join_result_members ==
    [types |-> <<"u32", "bool", "any">>,
     nonunion |-> <<0, 1, 2>>,
     by_discriminant |-> << >>,
     by_name |-> <<2, 0, 1>>]

\* The structs by name.
TwopartyStructs ==
    [vat_id |-> Struct(vat_id_reader, vat_id_builder, vat_id_node, vat_id_members),
     provision_id |-> Struct(provision_id_reader, provision_id_builder, provision_id_node, provision_id_members),
     recipient_id |-> Struct(recipient_id_reader, recipient_id_builder, recipient_id_node, recipient_id_members),
     third_party_cap_id |-> Struct(third_party_cap_id_reader, third_party_cap_id_builder, third_party_cap_id_node, third_party_cap_id_members),
     join_key_part |-> Struct(join_key_part_reader, join_key_part_builder, join_key_part_node, join_key_part_members),
     join_result |-> Struct(join_result_reader, join_result_builder, join_result_node, join_result_members)]
===============================================================================
