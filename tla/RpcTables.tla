---------------------------------- MODULE RpcTables ----------------------------------
(*******************************************************************************)
(* The structs of rpc.capnp as capnp-rpc/src/rpc_capnp.rs accesses them: for    *)
(* every struct and group the Reader and the Builder (what each get_, has_,    *)
(* which, set_ and init_ touches), the schema node kept as an encoded message, *)
(* and the tables of members reflection looks fields up in.                    *)
(*******************************************************************************)
EXTENDS Fields

\* message::Reader
message_reader ==
    [get |-> NoFields,
     has |-> [unimplemented |-> HasArm(0, 0, 0), abort |-> HasArm(0, 1, 0),
            call |-> HasArm(0, 2, 0), return |-> HasArm(0, 3, 0), finish |-> HasArm(0, 4, 0),
            resolve |-> HasArm(0, 5, 0), release |-> HasArm(0, 6, 0),
            obsoleteSave |-> HasArm(0, 7, 0), bootstrap |-> HasArm(0, 8, 0),
            obsoleteDelete |-> HasArm(0, 9, 0), provide |-> HasArm(0, 10, 0),
            accept |-> HasArm(0, 11, 0), join |-> HasArm(0, 12, 0),
            disembargo |-> HasArm(0, 13, 0)],
     which |-> Which(0, <<Ptr(0), Ptr(0), Ptr(0), Ptr(0), Ptr(0), Ptr(0), Ptr(0), Ptr(0), Ptr(0),
            Ptr(0), Ptr(0), Ptr(0), Ptr(0), Ptr(0)>>)]
message_builder ==
    [size |-> <<1, 1>>, as_reader |-> message_reader,
     set |-> [unimplemented |-> <<Const(16, 0, 0), PutPtr(0)>>,
            abort |-> <<Const(16, 0, 1), PutPtr(0)>>, call |-> <<Const(16, 0, 2), PutPtr(0)>>,
            return |-> <<Const(16, 0, 3), PutPtr(0)>>, finish |-> <<Const(16, 0, 4), PutPtr(0)>>,
            resolve |-> <<Const(16, 0, 5), PutPtr(0)>>,
            release |-> <<Const(16, 0, 6), PutPtr(0)>>,
            bootstrap |-> <<Const(16, 0, 8), PutPtr(0)>>,
            provide |-> <<Const(16, 0, 10), PutPtr(0)>>,
            accept |-> <<Const(16, 0, 11), PutPtr(0)>>, join |-> <<Const(16, 0, 12), PutPtr(0)>>,
            disembargo |-> <<Const(16, 0, 13), PutPtr(0)>>],
     init |-> [unimplemented |-> <<Const(16, 0, 0), PutPtr(0)>>,
            abort |-> <<Const(16, 0, 1), PutPtr(0)>>, call |-> <<Const(16, 0, 2), PutPtr(0)>>,
            return |-> <<Const(16, 0, 3), PutPtr(0)>>, finish |-> <<Const(16, 0, 4), PutPtr(0)>>,
            resolve |-> <<Const(16, 0, 5), PutPtr(0)>>,
            release |-> <<Const(16, 0, 6), PutPtr(0)>>,
            obsoleteSave |-> <<Const(16, 0, 7), ClearPtr(0)>>,
            bootstrap |-> <<Const(16, 0, 8), PutPtr(0)>>,
            obsoleteDelete |-> <<Const(16, 0, 9), ClearPtr(0)>>,
            provide |-> <<Const(16, 0, 10), PutPtr(0)>>,
            accept |-> <<Const(16, 0, 11), PutPtr(0)>>, join |-> <<Const(16, 0, 12), PutPtr(0)>>,
            disembargo |-> <<Const(16, 0, 13), PutPtr(0)>>]]
message_node ==
    Node(1, 1, FALSE, Union(14, 0),
         <<Arm(0, Slot("unimplemented", "struct", 0)), Arm(1, Slot("abort", "struct", 0)),
           Arm(2, Slot("call", "struct", 0)), Arm(3, Slot("return", "struct", 0)),
           Arm(4, Slot("finish", "struct", 0)), Arm(5, Slot("resolve", "struct", 0)),
           Arm(6, Slot("release", "struct", 0)), Arm(7, Slot("obsoleteSave", "any", 0)),
           Arm(8, Slot("bootstrap", "struct", 0)), Arm(9, Slot("obsoleteDelete", "any", 0)),
           Arm(10, Slot("provide", "struct", 0)), Arm(11, Slot("accept", "struct", 0)),
           Arm(12, Slot("join", "struct", 0)), Arm(13, Slot("disembargo", "struct", 0))>>)
message_members ==
    [types |-> <<"struct", "struct", "struct", "struct", "struct", "struct", "struct", "any",
            "struct", "any", "struct", "struct", "struct", "struct">>,
     nonunion |-> << >>,
     by_discriminant |-> <<0, 1, 2, 3, 4, 5, 6, 7, 8, 9, 10, 11, 12, 13>>,
     by_name |-> <<1, 11, 8, 2, 13, 4, 12, 9, 7, 10, 6, 5, 3, 0>>]

\* bootstrap::Reader
bootstrap_reader ==
    [get |-> [questionId |-> Data(32, 0, 0), deprecatedObjectId |-> Ptr(0)],
     has |-> [deprecatedObjectId |-> Has(0)],
     which |-> NoUnion]
bootstrap_builder ==
    [size |-> <<1, 1>>, as_reader |-> bootstrap_reader,
     set |-> [questionId |-> <<Put(32, 0, 0)>>],
     init |-> [deprecatedObjectId |-> <<ClearPtr(0)>>]]
bootstrap_node ==
    Node(1, 1, FALSE, Union(0, 0),
         <<Slot("questionId", "u32", 0), Slot("deprecatedObjectId", "any", 0)>>)
bootstrap_members ==
    [types |-> <<"u32", "any">>,
     nonunion |-> <<0, 1>>,
     by_discriminant |-> << >>,
     by_name |-> <<1, 0>>]

\* call::Reader
call_reader ==
    [get |-> [questionId |-> Data(32, 0, 0), target |-> Ptr(0), interfaceId |-> Data(64, 1, 0),
            methodId |-> Data(16, 2, 0), params |-> Ptr(1), sendResultsTo |-> Here,
            allowThirdPartyTailCall |-> Data(1, 128, 0), noPromisePipelining |-> Data(1, 129, 0),
            onlyPromisePipeline |-> Data(1, 130, 0)],
     has |-> [target |-> Has(0), params |-> Has(1)],
     which |-> NoUnion]
call_builder ==
    [size |-> <<3, 3>>, as_reader |-> call_reader,
     set |-> [questionId |-> <<Put(32, 0, 0)>>, target |-> <<PutPtr(0)>>,
            interfaceId |-> <<Put(64, 1, 0)>>, methodId |-> <<Put(16, 2, 0)>>,
            params |-> <<PutPtr(1)>>, allowThirdPartyTailCall |-> <<Put(1, 128, 0)>>,
            noPromisePipelining |-> <<Put(1, 129, 0)>>,
            onlyPromisePipeline |-> <<Put(1, 130, 0)>>],
     init |-> [target |-> <<PutPtr(0)>>, params |-> <<PutPtr(1)>>,
            sendResultsTo |-> <<Const(16, 3, 0), ClearPtr(2)>>]]
call_node ==
    Node(3, 3, FALSE, Union(0, 0),
         <<Slot("questionId", "u32", 0), Slot("target", "struct", 0),
           Slot("interfaceId", "u64", 1), Slot("methodId", "u16", 2), Slot("params", "struct", 1),
           Group("sendResultsTo", "call_send_results_to"),
           Default(0, Slot("allowThirdPartyTailCall", "bool", 128)),
           Default(0, Slot("noPromisePipelining", "bool", 129)),
           Default(0, Slot("onlyPromisePipeline", "bool", 130))>>)
call_members ==
    [types |-> <<"u32", "struct", "u64", "u16", "struct", "call_send_results_to", "bool", "bool",
            "bool">>,
     nonunion |-> <<0, 1, 2, 3, 4, 5, 6, 7, 8>>,
     by_discriminant |-> << >>,
     by_name |-> <<6, 2, 3, 7, 8, 4, 0, 5, 1>>]

\* call::send_results_to::Reader
call_send_results_to_reader ==
    [get |-> NoFields,
     has |-> [thirdParty |-> HasArm(3, 2, 2)],
     which |-> Which(3, <<Void, Void, Ptr(2)>>)]
call_send_results_to_builder ==
    [size |-> <<3, 3>>, as_reader |-> call_send_results_to_reader,
     set |-> [caller |-> <<Const(16, 3, 0)>>, yourself |-> <<Const(16, 3, 1)>>],
     init |-> [thirdParty |-> <<Const(16, 3, 2), ClearPtr(2)>>]]
call_send_results_to_node ==
    Node(3, 3, TRUE, Union(3, 3),
         <<Arm(0, Slot("caller", "void", 0)), Arm(1, Slot("yourself", "void", 0)),
           Arm(2, Slot("thirdParty", "any", 2))>>)
call_send_results_to_members ==
    [types |-> <<"void", "void", "any">>,
     nonunion |-> << >>,
     by_discriminant |-> <<0, 1, 2>>,
     by_name |-> <<0, 2, 1>>]

\* return_::Reader
return_reader ==
    [get |-> [answerId |-> Data(32, 0, 0), releaseParamCaps |-> Data(1, 32, 1),
            noFinishNeeded |-> Data(1, 33, 0)],
     has |-> [results |-> HasArm(3, 0, 0), exception |-> HasArm(3, 1, 0),
            acceptFromThirdParty |-> HasArm(3, 5, 0)],
     which |-> Which(3, <<Ptr(0), Ptr(0), Void, Void, Data(32, 2, 0), Ptr(0)>>)]
return_builder ==
    [size |-> <<2, 1>>, as_reader |-> return_reader,
     set |-> [answerId |-> <<Put(32, 0, 0)>>, releaseParamCaps |-> <<Put(1, 32, 1)>>,
            results |-> <<Const(16, 3, 0), PutPtr(0)>>,
            exception |-> <<Const(16, 3, 1), PutPtr(0)>>, canceled |-> <<Const(16, 3, 2)>>,
            resultsSentElsewhere |-> <<Const(16, 3, 3)>>,
            takeFromOtherQuestion |-> <<Const(16, 3, 4), Put(32, 2, 0)>>,
            noFinishNeeded |-> <<Put(1, 33, 0)>>],
     init |-> [results |-> <<Const(16, 3, 0), PutPtr(0)>>,
            exception |-> <<Const(16, 3, 1), PutPtr(0)>>,
            acceptFromThirdParty |-> <<Const(16, 3, 5), ClearPtr(0)>>]]
return_node ==
    Node(2, 1, FALSE, Union(6, 3),
         <<Slot("answerId", "u32", 0), Default(1, Slot("releaseParamCaps", "bool", 32)),
           Arm(0, Slot("results", "struct", 0)), Arm(1, Slot("exception", "struct", 0)),
           Arm(2, Slot("canceled", "void", 0)), Arm(3, Slot("resultsSentElsewhere", "void", 0)),
           Arm(4, Slot("takeFromOtherQuestion", "u32", 2)),
           Arm(5, Slot("acceptFromThirdParty", "any", 0)),
           Default(0, Slot("noFinishNeeded", "bool", 33))>>)
return_members ==
    [types |-> <<"u32", "bool", "struct", "struct", "void", "void", "u32", "any", "bool">>,
     nonunion |-> <<0, 1, 8>>,
     by_discriminant |-> <<2, 3, 4, 5, 6, 7>>,
     by_name |-> <<7, 0, 4, 3, 8, 1, 2, 5, 6>>]

\* finish::Reader
finish_reader ==
    [get |-> [questionId |-> Data(32, 0, 0), releaseResultCaps |-> Data(1, 32, 1),
            requireEarlyCancellationWorkaround |-> Data(1, 33, 1)],
     has |-> NoFields,
     which |-> NoUnion]
finish_builder ==
    [size |-> <<1, 0>>, as_reader |-> finish_reader,
     set |-> [questionId |-> <<Put(32, 0, 0)>>, releaseResultCaps |-> <<Put(1, 32, 1)>>,
            requireEarlyCancellationWorkaround |-> <<Put(1, 33, 1)>>],
     init |-> NoFields]
finish_node ==
    Node(1, 0, FALSE, Union(0, 0),
         <<Slot("questionId", "u32", 0), Default(1, Slot("releaseResultCaps", "bool", 32)),
           Default(1, Slot("requireEarlyCancellationWorkaround", "bool", 33))>>)
finish_members ==
    [types |-> <<"u32", "bool", "bool">>,
     nonunion |-> <<0, 1, 2>>,
     by_discriminant |-> << >>,
     by_name |-> <<0, 1, 2>>]

\* resolve::Reader
resolve_reader ==
    [get |-> [promiseId |-> Data(32, 0, 0)],
     has |-> [cap |-> HasArm(2, 0, 0), exception |-> HasArm(2, 1, 0)],
     which |-> Which(2, <<Ptr(0), Ptr(0)>>)]
resolve_builder ==
    [size |-> <<1, 1>>, as_reader |-> resolve_reader,
     set |-> [promiseId |-> <<Put(32, 0, 0)>>, cap |-> <<Const(16, 2, 0), PutPtr(0)>>,
            exception |-> <<Const(16, 2, 1), PutPtr(0)>>],
     init |-> [cap |-> <<Const(16, 2, 0), PutPtr(0)>>,
            exception |-> <<Const(16, 2, 1), PutPtr(0)>>]]
resolve_node ==
    Node(1, 1, FALSE, Union(2, 2),
         <<Slot("promiseId", "u32", 0), Arm(0, Slot("cap", "struct", 0)),
           Arm(1, Slot("exception", "struct", 0))>>)
resolve_members ==
    [types |-> <<"u32", "struct", "struct">>,
     nonunion |-> <<0>>,
     by_discriminant |-> <<1, 2>>,
     by_name |-> <<1, 2, 0>>]

\* release::Reader
release_reader ==
    [get |-> [id |-> Data(32, 0, 0), referenceCount |-> Data(32, 1, 0)],
     has |-> NoFields,
     which |-> NoUnion]
release_builder ==
    [size |-> <<1, 0>>, as_reader |-> release_reader,
     set |-> [id |-> <<Put(32, 0, 0)>>, referenceCount |-> <<Put(32, 1, 0)>>],
     init |-> NoFields]
release_node ==
    Node(1, 0, FALSE, Union(0, 0),
         <<Slot("id", "u32", 0), Slot("referenceCount", "u32", 1)>>)
release_members ==
    [types |-> <<"u32", "u32">>,
     nonunion |-> <<0, 1>>,
     by_discriminant |-> << >>,
     by_name |-> <<0, 1>>]

\* disembargo::Reader
disembargo_reader ==
    [get |-> [target |-> Ptr(0), context |-> Here],
     has |-> [target |-> Has(0)],
     which |-> NoUnion]
disembargo_builder ==
    [size |-> <<1, 1>>, as_reader |-> disembargo_reader,
     set |-> [target |-> <<PutPtr(0)>>],
     init |-> [target |-> <<PutPtr(0)>>, context |-> <<Const(16, 2, 0), Const(32, 0, 0)>>]]
disembargo_node ==
    Node(1, 1, FALSE, Union(0, 0),
         <<Slot("target", "struct", 0), Group("context", "disembargo_context")>>)
disembargo_members ==
    [types |-> <<"struct", "disembargo_context">>,
     nonunion |-> <<0, 1>>,
     by_discriminant |-> << >>,
     by_name |-> <<1, 0>>]

\* disembargo::context::Reader
disembargo_context_reader ==
    [get |-> NoFields,
     has |-> NoFields,
     which |-> Which(2, <<Data(32, 0, 0), Data(32, 0, 0), Void, Data(32, 0, 0)>>)]
disembargo_context_builder ==
    [size |-> <<1, 1>>, as_reader |-> disembargo_context_reader,
     set |-> [senderLoopback |-> <<Const(16, 2, 0), Put(32, 0, 0)>>,
            receiverLoopback |-> <<Const(16, 2, 1), Put(32, 0, 0)>>,
            accept |-> <<Const(16, 2, 2)>>, provide |-> <<Const(16, 2, 3), Put(32, 0, 0)>>],
     init |-> NoFields]
disembargo_context_node ==
    Node(1, 1, TRUE, Union(4, 2),
         <<Arm(0, Slot("senderLoopback", "u32", 0)), Arm(1, Slot("receiverLoopback", "u32", 0)),
           Arm(2, Slot("accept", "void", 0)), Arm(3, Slot("provide", "u32", 0))>>)
disembargo_context_members ==
    [types |-> <<"u32", "u32", "void", "u32">>,
     nonunion |-> << >>,
     by_discriminant |-> <<0, 1, 2, 3>>,
     by_name |-> <<2, 3, 1, 0>>]

\* provide::Reader
provide_reader ==
    [get |-> [questionId |-> Data(32, 0, 0), target |-> Ptr(0), recipient |-> Ptr(1)],
     has |-> [target |-> Has(0), recipient |-> Has(1)],
     which |-> NoUnion]
provide_builder ==
    [size |-> <<1, 2>>, as_reader |-> provide_reader,
     set |-> [questionId |-> <<Put(32, 0, 0)>>, target |-> <<PutPtr(0)>>],
     init |-> [target |-> <<PutPtr(0)>>, recipient |-> <<ClearPtr(1)>>]]
provide_node ==
    Node(1, 2, FALSE, Union(0, 0),
         <<Slot("questionId", "u32", 0), Slot("target", "struct", 0),
           Slot("recipient", "any", 1)>>)
provide_members ==
    [types |-> <<"u32", "struct", "any">>,
     nonunion |-> <<0, 1, 2>>,
     by_discriminant |-> << >>,
     by_name |-> <<0, 2, 1>>]

\* accept::Reader
accept_reader ==
    [get |-> [questionId |-> Data(32, 0, 0), provision |-> Ptr(0), embargo |-> Data(1, 32, 0)],
     has |-> [provision |-> Has(0)],
     which |-> NoUnion]
accept_builder ==
    [size |-> <<1, 1>>, as_reader |-> accept_reader,
     set |-> [questionId |-> <<Put(32, 0, 0)>>, embargo |-> <<Put(1, 32, 0)>>],
     init |-> [provision |-> <<ClearPtr(0)>>]]
accept_node ==
    Node(1, 1, FALSE, Union(0, 0),
         <<Slot("questionId", "u32", 0), Slot("provision", "any", 0),
           Slot("embargo", "bool", 32)>>)
accept_members ==
    [types |-> <<"u32", "any", "bool">>,
     nonunion |-> <<0, 1, 2>>,
     by_discriminant |-> << >>,
     by_name |-> <<2, 1, 0>>]

\* join::Reader
join_reader ==
    [get |-> [questionId |-> Data(32, 0, 0), target |-> Ptr(0), keyPart |-> Ptr(1)],
     has |-> [target |-> Has(0), keyPart |-> Has(1)],
     which |-> NoUnion]
join_builder ==
    [size |-> <<1, 2>>, as_reader |-> join_reader,
     set |-> [questionId |-> <<Put(32, 0, 0)>>, target |-> <<PutPtr(0)>>],
     init |-> [target |-> <<PutPtr(0)>>, keyPart |-> <<ClearPtr(1)>>]]
join_node ==
    Node(1, 2, FALSE, Union(0, 0),
         <<Slot("questionId", "u32", 0), Slot("target", "struct", 0), Slot("keyPart", "any", 1)>>)
join_members ==
    [types |-> <<"u32", "struct", "any">>,
     nonunion |-> <<0, 1, 2>>,
     by_discriminant |-> << >>,
     by_name |-> <<2, 0, 1>>]

\* message_target::Reader
message_target_reader ==
    [get |-> NoFields,
     has |-> [promisedAnswer |-> HasArm(2, 1, 0)],
     which |-> Which(2, <<Data(32, 0, 0), Ptr(0)>>)]
message_target_builder ==
    [size |-> <<1, 1>>, as_reader |-> message_target_reader,
     set |-> [importedCap |-> <<Const(16, 2, 0), Put(32, 0, 0)>>,
            promisedAnswer |-> <<Const(16, 2, 1), PutPtr(0)>>],
     init |-> [promisedAnswer |-> <<Const(16, 2, 1), PutPtr(0)>>]]
message_target_node ==
    Node(1, 1, FALSE, Union(2, 2),
         <<Arm(0, Slot("importedCap", "u32", 0)), Arm(1, Slot("promisedAnswer", "struct", 0))>>)
message_target_members ==
    [types |-> <<"u32", "struct">>,
     nonunion |-> << >>,
     by_discriminant |-> <<0, 1>>,
     by_name |-> <<0, 1>>]

\* payload::Reader
payload_reader ==
    [get |-> [content |-> Ptr(0), capTable |-> Ptr(1)],
     has |-> [content |-> Has(0), capTable |-> Has(1)],
     which |-> NoUnion]
payload_builder ==
    [size |-> <<0, 2>>, as_reader |-> payload_reader,
     set |-> [capTable |-> <<PutPtr(1)>>],
     init |-> [content |-> <<ClearPtr(0)>>, capTable |-> <<PutPtr(1)>>]]
payload_node ==
    Node(0, 2, FALSE, Union(0, 0),
         <<Slot("content", "any", 0), Slot("capTable", "list", 1)>>)
payload_members ==
    [types |-> <<"any", "list">>,
     nonunion |-> <<0, 1>>,
     by_discriminant |-> << >>,
     by_name |-> <<1, 0>>]

\* cap_descriptor::Reader
cap_descriptor_reader ==
    [get |-> [attachedFd |-> Data(8, 2, 255)],
     has |-> [receiverAnswer |-> HasArm(0, 4, 0), thirdPartyHosted |-> HasArm(0, 5, 0)],
     which |-> Which(0, <<Void, Data(32, 1, 0), Data(32, 1, 0), Data(32, 1, 0), Ptr(0), Ptr(0)>>)]
cap_descriptor_builder ==
    [size |-> <<1, 1>>, as_reader |-> cap_descriptor_reader,
     set |-> [none |-> <<Const(16, 0, 0)>>, senderHosted |-> <<Const(16, 0, 1), Put(32, 1, 0)>>,
            senderPromise |-> <<Const(16, 0, 2), Put(32, 1, 0)>>,
            receiverHosted |-> <<Const(16, 0, 3), Put(32, 1, 0)>>,
            receiverAnswer |-> <<Const(16, 0, 4), PutPtr(0)>>,
            thirdPartyHosted |-> <<Const(16, 0, 5), PutPtr(0)>>,
            attachedFd |-> <<Put(8, 2, 255)>>],
     init |-> [receiverAnswer |-> <<Const(16, 0, 4), PutPtr(0)>>,
            thirdPartyHosted |-> <<Const(16, 0, 5), PutPtr(0)>>]]
cap_descriptor_node ==
    Node(1, 1, FALSE, Union(6, 0),
         <<Arm(0, Slot("none", "void", 0)), Arm(1, Slot("senderHosted", "u32", 1)),
           Arm(2, Slot("senderPromise", "u32", 1)), Arm(3, Slot("receiverHosted", "u32", 1)),
           Arm(4, Slot("receiverAnswer", "struct", 0)),
           Arm(5, Slot("thirdPartyHosted", "struct", 0)),
           Default(255, Slot("attachedFd", "u8", 2))>>)
cap_descriptor_members ==
    [types |-> <<"void", "u32", "u32", "u32", "struct", "struct", "u8">>,
     nonunion |-> <<6>>,
     by_discriminant |-> <<0, 1, 2, 3, 4, 5>>,
     by_name |-> <<6, 0, 4, 3, 1, 2, 5>>]

\* promised_answer::Reader
promised_answer_reader ==
    [get |-> [questionId |-> Data(32, 0, 0), transform |-> Ptr(0)],
     has |-> [transform |-> Has(0)],
     which |-> NoUnion]
promised_answer_builder ==
    [size |-> <<1, 1>>, as_reader |-> promised_answer_reader,
     set |-> [questionId |-> <<Put(32, 0, 0)>>, transform |-> <<PutPtr(0)>>],
     init |-> [transform |-> <<PutPtr(0)>>]]
promised_answer_node ==
    Node(1, 1, FALSE, Union(0, 0),
         <<Slot("questionId", "u32", 0), Slot("transform", "list", 0)>>)
promised_answer_members ==
    [types |-> <<"u32", "list">>,
     nonunion |-> <<0, 1>>,
     by_discriminant |-> << >>,
     by_name |-> <<0, 1>>]

\* promised_answer::op::Reader
promised_answer_op_reader ==
    [get |-> NoFields,
     has |-> NoFields,
     which |-> Which(0, <<Void, Data(16, 1, 0)>>)]
promised_answer_op_builder ==
    [size |-> <<1, 0>>, as_reader |-> promised_answer_op_reader,
     set |-> [noop |-> <<Const(16, 0, 0)>>,
            getPointerField |-> <<Const(16, 0, 1), Put(16, 1, 0)>>],
     init |-> NoFields]
promised_answer_op_node ==
    Node(1, 0, FALSE, Union(2, 0),
         <<Arm(0, Slot("noop", "void", 0)), Arm(1, Slot("getPointerField", "u16", 1))>>)
promised_answer_op_members ==
    [types |-> <<"void", "u16">>,
     nonunion |-> << >>,
     by_discriminant |-> <<0, 1>>,
     by_name |-> <<1, 0>>]

\* third_party_cap_descriptor::Reader
third_party_cap_descriptor_reader ==
    [get |-> [id |-> Ptr(0), vineId |-> Data(32, 0, 0)],
     has |-> [id |-> Has(0)],
     which |-> NoUnion]
third_party_cap_descriptor_builder ==
    [size |-> <<1, 1>>, as_reader |-> third_party_cap_descriptor_reader,
     set |-> [vineId |-> <<Put(32, 0, 0)>>],
     init |-> [id |-> <<ClearPtr(0)>>]]
third_party_cap_descriptor_node ==
    Node(1, 1, FALSE, Union(0, 0),
         <<Slot("id", "any", 0), Slot("vineId", "u32", 0)>>)
third_party_cap_descriptor_members ==
    [types |-> <<"any", "u32">>,
     nonunion |-> <<0, 1>>,
     by_discriminant |-> << >>,
     by_name |-> <<0, 1>>]

\* exception::Reader
exception_reader ==
    [get |-> [reason |-> Ptr(0), obsoleteIsCallersFault |-> Data(1, 0, 0),
            obsoleteDurability |-> Data(16, 1, 0), type |-> Data(16, 2, 0), trace |-> Ptr(1)],
     has |-> [reason |-> Has(0), trace |-> Has(1)],
     which |-> NoUnion]
exception_builder ==
    [size |-> <<1, 2>>, as_reader |-> exception_reader,
     set |-> [reason |-> <<PutPtr(0)>>, obsoleteIsCallersFault |-> <<Put(1, 0, 0)>>,
            obsoleteDurability |-> <<Put(16, 1, 0)>>, type |-> <<Put(16, 2, 0)>>,
            trace |-> <<PutPtr(1)>>],
     init |-> [reason |-> <<PutPtr(0)>>, trace |-> <<PutPtr(1)>>]]
exception_node ==
    Node(1, 2, FALSE, Union(0, 0),
         <<Slot("reason", "text", 0), Slot("obsoleteIsCallersFault", "bool", 0),
           Slot("obsoleteDurability", "u16", 1), Slot("type", "enum", 2),
           Slot("trace", "text", 1)>>)
exception_members ==
    [types |-> <<"text", "bool", "u16", "enum", "text">>,
     nonunion |-> <<0, 1, 2, 3, 4>>,
     by_discriminant |-> << >>,
     by_name |-> <<2, 1, 0, 4, 3>>]

\* The structs by name.
RpcStructs ==
    [message |-> Struct(message_reader, message_builder, message_node, message_members),
     bootstrap |-> Struct(bootstrap_reader, bootstrap_builder, bootstrap_node, bootstrap_members),
     call |-> Struct(call_reader, call_builder, call_node, call_members),
     call_send_results_to |-> Struct(call_send_results_to_reader, call_send_results_to_builder, call_send_results_to_node, call_send_results_to_members),
     return |-> Struct(return_reader, return_builder, return_node, return_members),
     finish |-> Struct(finish_reader, finish_builder, finish_node, finish_members),
     resolve |-> Struct(resolve_reader, resolve_builder, resolve_node, resolve_members),
     release |-> Struct(release_reader, release_builder, release_node, release_members),
     disembargo |-> Struct(disembargo_reader, disembargo_builder, disembargo_node, disembargo_members),
     disembargo_context |-> Struct(disembargo_context_reader, disembargo_context_builder, disembargo_context_node, disembargo_context_members),
     provide |-> Struct(provide_reader, provide_builder, provide_node, provide_members),
     accept |-> Struct(accept_reader, accept_builder, accept_node, accept_members),
     join |-> Struct(join_reader, join_builder, join_node, join_members),
     message_target |-> Struct(message_target_reader, message_target_builder, message_target_node, message_target_members),
     payload |-> Struct(payload_reader, payload_builder, payload_node, payload_members),
     cap_descriptor |-> Struct(cap_descriptor_reader, cap_descriptor_builder, cap_descriptor_node, cap_descriptor_members),
     promised_answer |-> Struct(promised_answer_reader, promised_answer_builder, promised_answer_node, promised_answer_members),
     promised_answer_op |-> Struct(promised_answer_op_reader, promised_answer_op_builder, promised_answer_op_node, promised_answer_op_members),
     third_party_cap_descriptor |-> Struct(third_party_cap_descriptor_reader, third_party_cap_descriptor_builder, third_party_cap_descriptor_node, third_party_cap_descriptor_members),
     exception |-> Struct(exception_reader, exception_builder, exception_node, exception_members)]
===============================================================================
