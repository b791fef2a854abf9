----------------------------- MODULE MCMessages -----------------------------
EXTENDS Messages

One(type) == [kind |-> "item", type |-> type, key |-> NoType]
List(type) == [kind |-> "list", type |-> type, key |-> NoType]
MapOf(key, type) == [kind |-> "map", type |-> type, key |-> key]

(* The .proto files of lib/message/src/proto, with a field of each kind.   *)
Repository ==
    [files |->
        ("message_type.proto" :> {"MessageType"}) @@
        ("base.proto" :> {"MessageBase", "MessageVersion", "TestMessage",
                          "ControlMessage", "RequestMessage"}) @@
        ("message_factory.proto" :> {"MessageFactory"}),
     enums |-> {"MessageType"},
     base |->
        [MessageBase |-> NoType, MessageVersion |-> "MessageBase",
         TestMessage |-> "MessageBase", ControlMessage |-> "MessageBase",
         RequestMessage |-> "ControlMessage"],
     fields |->
        [MessageBase |-> <<One("int32"), One("Timestamp")>>,
         MessageVersion |-> <<One("int32")>>,
         TestMessage |-> <<List("MessageVersion"), One("MessageVersion"),
                           List("MessageType"), MapOf("string", "MessageVersion"),
                           MapOf("int32", "Timestamp")>>,
         ControlMessage |-> <<One("string")>>,
         RequestMessage |-> <<>>],
     item |-> TRUE,
     tags |-> [t \in {"MessageVersion", "TestMessage", "ControlMessage",
                      "RequestMessage"} |-> t]]

(* Other rules kept: types in other files, a base of a base of a base, and *)
(* lists and maps of an enum and of times.                                 *)
Spread ==
    [Repository EXCEPT
        !.files = ("base.proto" :> {"MessageBase", "MessageType"}) @@
                  ("control.proto" :> {"ControlMessage", "RequestMessage", "MessageVersion"}) @@
                  ("message_factory.proto" :> {"MessageFactory", "TestMessage"}),
        !.base.TestMessage = "RequestMessage",
        !.fields.TestMessage = <<MapOf("string", "MessageType"), List("Timestamp")>>]

(* Rules broken: a class left out of the factory, a class registered under *)
(* another name, a field of a type nested in a message, a base from        *)
(* elsewhere, the factory in a message, a root without a time.             *)
Unregistered ==
    [Repository EXCEPT !.tags = [t \in {"TestMessage", "ControlMessage",
                                        "RequestMessage"} |-> t]]
Renamed ==
    [Repository EXCEPT !.tags = [version |-> "MessageVersion"] @@ Unregistered.tags]
NestedEnum ==
    [Repository EXCEPT !.fields.ControlMessage = <<One("Status")>>]
Imported ==
    [Repository EXCEPT !.base.ControlMessage = "Header"]
FactoryInside ==
    [Repository EXCEPT !.fields.ControlMessage = <<List("MessageFactory")>>]
Timeless ==
    [Repository EXCEPT !.fields.MessageBase = <<One("int32")>>]

(* Objects of the root, in a message and in the factory.                   *)
RootInside ==
    [Repository EXCEPT !.fields.ControlMessage = <<List("MessageBase")>>]
RootRegistered ==
    [Repository EXCEPT !.tags = @ @@ ("MessageBase" :> "MessageBase")]

(* A second root, by itself, which compiles, and as a registered base.     *)
SecondRoot ==
    [Repository EXCEPT
        !.files["base.proto"] = @ \cup {"Entry"},
        !.base = @ @@ ("Entry" :> NoType),
        !.fields = @ @@ ("Entry" :> <<One("Timestamp")>>)]
TwoTrees == [SecondRoot EXCEPT !.base.TestMessage = "Entry"]

(* A factory without its oneof, which has no items then.                   *)
NoOneof == [Repository EXCEPT !.item = FALSE, !.tags = <<>>]

MCSchemas ==
    {Repository, Spread, Unregistered, Renamed, NestedEnum, Imported, FactoryInside, Timeless,
     RootInside, RootRegistered, SecondRoot, TwoTrees, NoOneof}

MCSchema == Repository
=============================================================================
