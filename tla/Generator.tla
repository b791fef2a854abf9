----------------------------- MODULE Generator ------------------------------
(***************************************************************************)
(* The protoc plugin that writes the message classes:                      *)
(* lib/message/src/generator/MessageGenerator.cpp, Type.cpp and            *)
(* OutputFile.cpp.  protoc calls Generate once for each .proto file, in    *)
(* the order of its command line.  Every type gets a header of its own;    *)
(* all definitions go to generated.cpp, which one object collects over the *)
(* calls and the call for the last file writes.                            *)
(*                                                                         *)
(* A written file is what it includes, defines and declares.  The header   *)
(* of a type is named by the type, the .pb.h of a file by the file.        *)
(***************************************************************************)
EXTENDS Naturals, FiniteSets, Sequences, SequencesExt

CONSTANTS
    Schemas     \* the sets of .proto files to run the plugin on, each with
                \*   files   : from files to the top-level types in them
                \*   enums   : the enums; other types in files are messages
                \*   base    : the type of a message's field 1, if named base
                \*   fields  : the other fields of each message, by number
                \*   item    : MessageFactory has its Item with the oneof tag
                \*   tags    : from the fields of that oneof to their types,
                \*             field names up to case

NoType == "none"
Factory == "MessageFactory"

(* Headers that are not generated, and the field types that need no other. *)
Standard == {"map", "vector", "string", "memory", "functional", "DateTime",
             "protobuf map", "time_util"}
BuiltIn == {"int32", "string", "Timestamp"}

(* Protoc sees to it that names have one meaning and that a map's key is a *)
(* number or a text.  Left out are messages that contain themselves, as a  *)
(* base or a field, directly or not: their headers would include each      *)
(* other; a base or an item of the factory that is no message, whose       *)
(* message_type() the plugin takes for granted; and a factory in a file    *)
(* that is only imported.                                                  *)
ASSUME ProtoAssumption ==
    \A s \in Schemas :
        LET types == UNION {s.files[f] : f \in DOMAIN s.files}
            messages == types \ (s.enums \cup {Factory})
        IN  /\ IsFiniteSet(DOMAIN s.files)
            /\ \A f \in DOMAIN s.files : IsFiniteSet(s.files[f])
            /\ types \cap (Standard \cup BuiltIn \cup
                  {NoType, "generated.cpp", "handle_message_from_item"}) = {}
            /\ Factory \notin s.enums
            /\ DOMAIN s.fields = messages
            /\ \A t \in messages : \A i \in DOMAIN s.fields[t] :
                  /\ s.fields[t][i].kind \in {"item", "list", "map"}
                  /\ s.fields[t][i].kind = "map" => s.fields[t][i].key \in {"int32", "string"}
                  /\ s.fields[t][i].type \notin (Standard \ BuiltIn) \cup {NoType}
            /\ DOMAIN s.base = messages
            /\ DOMAIN s.tags # {} => Factory \in types
            /\ \A g \in DOMAIN s.tags :
                  s.tags[g] \notin s.enums \cup {"int32", "string", NoType}
            /\ \A t \in messages : s.base[t] \notin s.enums \cup {"int32", "string"}
            /\ \A some \in (SUBSET messages) \ {{}} : \E t \in some :
                  /\ s.base[t] \notin some
                  /\ \A i \in DOMAIN s.fields[t] : s.fields[t][i].type \notin some

VARIABLES
    schema,                 \* the one this run is for
    todo,                   \* files protoc has not called Generate for yet
    proto_file_number, current_file_number,
    cpp,                    \* get_cpp_singleton()
    written                 \* the files in the plugin's answer

genVars == <<schema, todo, proto_file_number, current_file_number, cpp, written>>

(* An OutputFile: types and the declarations of the two functions that     *)
(* convert one are named by the type, sources are the .pb.h it includes.   *)
EmptyFile == [headers |-> {}, types |-> {}, functions |-> {}, sources |-> {}]

File == DOMAIN schema.files
TypesOf(f) == schema.files[f]
AllTypes == UNION {TypesOf(f) : f \in File}
IsMessage(t) == t \in DOMAIN schema.fields

-----------------------------------------------------------------------------

(* FieldType::create: the headers a field's type needs, in the header of   *)
(* its class and in generated.cpp.  A map creates a field for its key and  *)
(* one for its value.                                                      *)
TypeHeader(type) ==
    CASE type = "int32"     -> {}
      [] type = "string"    -> {"string"}
      [] type = "Timestamp" -> {"DateTime"}
      [] OTHER              -> {type}

FieldHeaderBare(f) == TypeHeader(f.type)    \* no vector, map or key type
FieldHeader(f) ==
    TypeHeader(f.type) \cup
        (CASE f.kind = "map"  -> {"map"} \cup TypeHeader(f.key)
           [] f.kind = "list" -> {"vector"}
           [] f.kind = "item" -> {})

FieldCppHeader(f) ==
    (IF f.kind = "map" THEN {"protobuf map"} ELSE {}) \cup
    (IF f.type = "Timestamp" THEN {"time_util"} ELSE {})

Fields(t) == ToSet(schema.fields[t])

(* What the parse functions put into the header of type t, and add to      *)
(* generated.cpp, for t in file f.                                         *)
EnumParts(t, f) ==
    [hpp |-> [EmptyFile EXCEPT !.types = {t}],
     cpp |-> [EmptyFile EXCEPT !.types = {t}, !.headers = {t}, !.sources = {f}]]

ClassParts(t, f) ==
    [hpp |-> [EmptyFile EXCEPT !.types = {t},
                !.headers = (UNION {FieldHeader(p) : p \in Fields(t)}) \cup
                    {IF schema.base[t] = NoType THEN "MessageType" ELSE schema.base[t]}],
     cpp |-> [types |-> {t}, functions |-> {t}, sources |-> {f},
              headers |-> {t} \cup UNION {FieldCppHeader(p) : p \in Fields(t)}]]

FactoryParts(t, f) ==
    [hpp |-> [EmptyFile EXCEPT !.types = {t},
                !.headers = {"memory", "functional", "string"}],
     cpp |-> [types |-> {t}, functions |-> {"handle_message_from_item"},
              sources |-> {f}, headers |-> {t}]]

Parts(t, f) ==
    CASE t \in schema.enums -> EnumParts(t, f)
      [] t = Factory        -> FactoryParts(t, f)
      [] OTHER              -> ClassParts(t, f)

(* add_header, add_type and add_global_function_decl collect sets.         *)
JoinAll(files) == [part \in DOMAIN EmptyFile |-> UNION {file[part] : file \in files}]

-----------------------------------------------------------------------------

GenInit ==
    /\ schema \in Schemas
    /\ todo = {}
    /\ proto_file_number = 0
    /\ current_file_number = 0
    /\ cpp = EmptyFile
    /\ written = <<>>

FileNumberShort == Cardinality(File) - 1
FileNumber == Cardinality(File)

GenerateAll ==
    /\ proto_file_number = 0
    /\ proto_file_number' = FileNumber
    /\ todo' = File
    /\ UNCHANGED <<schema, current_file_number, cpp, written>>

(* FactoryType::parse finds no Item or no oneof: Generate throws, and the  *)
(* plugin ends without an answer.                                          *)
ParseFails(f) == Factory \in TypesOf(f) /\ ~schema.item

Throw(f) ==
    /\ f \in todo
    /\ ParseFails(f)
    /\ todo' = {}
    /\ written' = <<>>
    /\ UNCHANGED <<schema, proto_file_number, current_file_number, cpp>>

LastFileLate == current_file_number = proto_file_number     \* counted later
LastFile == current_file_number' = proto_file_number

Generate(f) ==
    /\ f \in todo
    /\ ~ParseFails(f)
    /\ todo' = todo \ {f}
    /\ cpp' = JoinAll({cpp} \cup {Parts(t, f).cpp : t \in TypesOf(f)})
    /\ current_file_number' = current_file_number + 1
    /\ written' = [n \in DOMAIN written \cup TypesOf(f) \cup
                        (IF LastFile THEN {"generated.cpp"} ELSE {}) |->
                    IF n \in TypesOf(f) THEN Parts(n, f).hpp
                    ELSE IF n \in DOMAIN written THEN written[n] ELSE cpp']
    /\ UNCHANGED <<schema, proto_file_number>>

GenNext == GenerateAll \/ (\E f \in File : Generate(f)) \/ (\E f \in File : Throw(f))

GenSpec == GenInit /\ [][GenNext]_genVars

-----------------------------------------------------------------------------

(* generated.cpp is there when, and only when, every file has been through *)
(* Generate, whatever their order, and then it defines every type of every *)
(* file and includes the .pb.h of each: the counters of GenerateAll and    *)
(* Generate agree.                                                         *)
GeneratedWhole ==
    LET done == /\ proto_file_number > 0 /\ todo = {}
                /\ \A f \in File : ~ParseFails(f)
    IN  /\ "generated.cpp" \in DOMAIN written <=> done
        /\ done =>
              LET out == written["generated.cpp"] IN
              /\ out.types = AllTypes
              /\ \A f \in File : TypesOf(f) # {} => f \in out.sources
              /\ AllTypes \subseteq DOMAIN written

-----------------------------------------------------------------------------

(* What the C++ compiler asks of the written files.                        *)

Header == DOMAIN written \ {"generated.cpp"}

(* All headers a file includes, directly or not: no header need be entered *)
(* twice.                                                                  *)
Reaches(n) ==
    LET reached[k \in 0 .. Cardinality(DOMAIN written)] ==
          IF k = 0 THEN written[n].headers
          ELSE reached[k - 1] \cup UNION {written[m].headers : m \in reached[k - 1] \cap Header}
    IN  reached[Cardinality(DOMAIN written)]

(* The types a header's own class needs complete where it is defined: its  *)
(* base, the members, and what the root's constructor and type() name.     *)
(* (The header of an enum uses std::string and includes nothing: it needs  *)
(* one included before it, as the .pb.h are in generated.cpp.)             *)
Needs(t) ==
    IF ~IsMessage(t) THEN {}
    ELSE (UNION {TypeHeader(p.type) : p \in Fields(t)})
         \cup {"vector" : p \in {q \in Fields(t) : q.kind = "list"}}
         \cup (UNION {{"map"} \cup TypeHeader(p.key) : p \in {q \in Fields(t) : q.kind = "map"}})
         \cup (IF schema.base[t] = NoType THEN {"DateTime"} ELSE {schema.base[t]})
         \cup {"MessageType"}

(* The serialize and deserialize of a class without a base are pure.       *)
Abstract == {t \in DOMAIN schema.fields : schema.base[t] = NoType}

(* The types the code of t makes objects of: its members, with the local   *)
(* variables for elements and values, or what the factory hands out.       *)
Creates(t) ==
    IF t = Factory THEN {schema.tags[g] : g \in DOMAIN schema.tags}
    ELSE IF IsMessage(t) THEN {p.type : p \in Fields(t)} ELSE {}

(* The functions generated.cpp calls for type t, named by their types.     *)
Callees(t) ==
    IF IsMessage(t)
    THEN (Creates(t) \cap (DOMAIN schema.fields \cup {Factory})) \cup ({schema.base[t]} \ {NoType})
    ELSE Creates(t)

(* The handler takes a pointer to MessageBase: t derives from it when it   *)
(* is in every set of types with t and the bases of its classes.           *)
Derives(t) ==
    \A some \in SUBSET (DOMAIN schema.fields \cup {schema.base[c] : c \in DOMAIN schema.fields}) :
        (t \in some /\ \A c \in some \cap DOMAIN schema.fields : schema.base[c] \in some)
            => "MessageBase" \in some

(* serialize and deserialize of a class name the member of Item that has   *)
(* the name of the class.                                                  *)
HasMember(t) == t \in DOMAIN schema.tags /\ schema.tags[t] = t

Compiles ==
    /\ \A n \in DOMAIN written :
          /\ Reaches(n) \subseteq Header \cup Standard
          /\ n # "generated.cpp" => Needs(n) \subseteq Reaches(n) \cup {n}
    /\ LET out == written["generated.cpp"] IN
          /\ out.types \subseteq Reaches("generated.cpp")
          /\ \A t \in out.types :
                /\ Callees(t) \subseteq out.functions \cap out.types
                /\ Creates(t) \cap Abstract = {}
                /\ IsMessage(t) => "MessageType" \in schema.enums /\ (t \in Abstract \/ HasMember(t))
                /\ t = Factory => IsMessage("MessageBase") /\ \A c \in Creates(t) : Derives(c)

-----------------------------------------------------------------------------

(* A type for a field is built in, an enum of these files, or one of their *)
(* messages that has a base, as the factory's items are; and a base is one *)
(* of their messages.                                                      *)
Concrete == {t \in AllTypes : IsMessage(t) /\ schema.base[t] # NoType}

KnownTypes ==
    /\ \A t \in DOMAIN schema.fields :
          /\ {p.type : p \in Fields(t)} \subseteq BuiltIn \cup (AllTypes \cap schema.enums) \cup Concrete
          /\ IsMessage(schema.base[t]) \/ schema.base[t] = NoType
    /\ {schema.tags[g] : g \in DOMAIN schema.tags} \subseteq Concrete

(* The rules of lib/message/Readme.txt: MessageBase is the root of all     *)
(* messages (constraint 3), there is a MessageType (step 2, its values     *)
(* left out), and each message is registered in MessageFactory (step 3)    *)
(* under its own name (naming 5).  It does not say that the root needs the *)
(* time that its constructor sets.                                         *)
Supported ==
    /\ KnownTypes
    /\ "MessageType" \in AllTypes \cap schema.enums
    /\ \A t \in DOMAIN schema.fields : schema.base[t] = NoType <=> t = "MessageBase"
    /\ IsMessage("MessageBase") /\ \E p \in Fields("MessageBase") : p.type = "Timestamp"
    /\ \A t \in Concrete : \E g \in DOMAIN schema.tags : schema.tags[g] = t
    /\ \A g \in DOMAIN schema.tags : g = schema.tags[g]

(* Whatever the order of the files, the output of a schema that keeps to   *)
(* the Readme compiles: each header includes what its class needs, each    *)
(* function called is declared and defined, and no object is made of an    *)
(* abstract class.  And when an output compiles, every type it uses is one *)
(* it has, and can make objects of where it does.                          *)
CompilesIfSupported ==
    "generated.cpp" \in DOMAIN written => (Supported => Compiles) /\ (Compiles => KnownTypes)
=============================================================================
