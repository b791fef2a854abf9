------------------------------ MODULE Messages ------------------------------
(***************************************************************************)
(* The message classes that the generator writes: what the code printed by *)
(* Type.cpp does when a program that could be compiled runs it.  A class   *)
(* becomes a protobuf message and back by two functions, base first, then  *)
(* the fields by number; strings carry a MessageFactory, a list of items   *)
(* each tagged with its type.  protobuf itself is external: parsing gives  *)
(* back what was serialised, and the generated functions always succeed.   *)
(***************************************************************************)
EXTENDS Generator, Integers

CONSTANTS
    Schema,         \* the one the program is built from
    Second,         \* nanoseconds in a second
    Used,           \* the classes it has an object of (a bound)
    Foreign,        \* a class derived from a message by hand: type() UNKNOWN
    MaxBatch,       \* bound on the objects in a string
    MaxLength       \* bound on the lists of an object

ASSUME SchemaAssumption ==
    Schema \in Schemas /\ Used \subseteq DOMAIN Schema.tags /\ Second \in Nat \ {0}

VARIABLES
    running,        \* the program has been built and started
    str,            \* the string: unreadable, or the items of a MessageFactory
    store,          \* an object of each class used
    sent,           \* the objects str was made from (history)
    asked, handled, result

msgVars == <<running, str, store, sent, asked, handled, result>>
vars == <<genVars, msgVars>>

Class == DOMAIN Schema.tags

HasBase(c) == Schema.base[c] # NoType
FieldsOf(c) == Schema.fields[c]
IsClass(type) == type \in DOMAIN Schema.fields

(* The data members of a class: (the class that declares it, the field).   *)
RECURSIVE Members(_)
Members(c) ==
    ({c} \X DOMAIN FieldsOf(c)) \cup (IF HasBase(c) THEN Members(Schema.base[c]) ELSE {})

FieldOf(m) == FieldsOf(m[1])[m[2]]

(* A default object: the constructors of the root and of MessageVersion    *)
(* set version numbers and the time, here 1; the rest is empty.            *)
RECURSIVE Default(_)
Default(c) ==
    [m \in Members(c) |->
        LET f == FieldOf(m) IN
        CASE f.kind \in {"list", "map"} -> <<>>
          [] f.kind = "item" /\ IsClass(f.type) -> Default(f.type)
          [] OTHER -> IF ~HasBase(m[1]) \/ m[1] = "MessageVersion" THEN 1 ELSE 0]

-----------------------------------------------------------------------------

(* TimeUtil, external: the seconds are rounded down.                       *)
NanosecondsToTimestamp(n) == [seconds |-> n \div Second, nanos |-> n % Second]
TimestampToNanoseconds(ts) == ts.seconds * Second + ts.nanos

(* X_to_protobuf(local_var, proto_var), as output_serialize and its three  *)
(* forms print it.  Lists and maps go over element by element.             *)
RECURSIVE to_protobuf(_, _)
ItemToProto(type, v) ==
    CASE type = "Timestamp" -> NanosecondsToTimestamp(v)
      [] IsClass(type)      -> to_protobuf(type, v)
      [] OTHER              -> v

FieldToProto(f, v) ==
    IF f.kind = "item" THEN ItemToProto(f.type, v)
    ELSE [i \in DOMAIN v |-> ItemToProto(f.type, v[i])]

to_protobuf(c, local) ==
    [base   |-> IF HasBase(c) THEN to_protobuf(Schema.base[c], local) ELSE <<>>,
     fields |-> [i \in DOMAIN FieldsOf(c) |->
                    FieldToProto(FieldsOf(c)[i], local[<<c, i>>])]]

(* protobuf_to_X(proto_var, local_var), as output_deserialize prints it:   *)
(* list elements are made from new objects and pushed back, map entries    *)
(* from new objects and assigned, messages converted in place.             *)
RECURSIVE protobuf_to(_, _, _)
ItemFromProto(type, proto, local) ==
    CASE type = "Timestamp" -> TimestampToNanoseconds(proto)
      [] IsClass(type)      -> protobuf_to(type, proto, local)
      [] OTHER              -> proto

NewItem(type) == IF IsClass(type) THEN Default(type) ELSE 0

FieldFromProto(f, proto, local) ==
    LET new(i) == ItemFromProto(f.type, proto[i], NewItem(f.type)) IN
    CASE f.kind = "item" -> ItemFromProto(f.type, proto, local)
      [] f.kind = "list" -> local \o [i \in DOMAIN proto |-> new(i)]
      [] f.kind = "map"  -> [k \in DOMAIN proto |-> new(k)] @@ local

FromBaseSkipped(c, proto, local) == local           \* base members not read
FromBase(c, proto, local) ==
    IF HasBase(c) THEN protobuf_to(Schema.base[c], proto.base, local) ELSE local

protobuf_to(c, proto, local) ==
    LET based == FromBase(c, proto, local)
    IN  [m \in DOMAIN local |->
            IF m[1] = c THEN FieldFromProto(FieldOf(m), proto.fields[m[2]], based[m])
            ELSE based[m]]

-----------------------------------------------------------------------------

Object(c, members) == [class |-> c, members |-> members]
Item(c, proto) == [tag |-> c, proto |-> proto]
String(readable, items) == [readable |-> readable, items |-> items]

MsgInit ==
    /\ running = FALSE
    /\ str = String(TRUE, <<>>)
    /\ store = [c \in Used |-> Default(c)]
    /\ sent = <<>>
    /\ asked = <<>>
    /\ handled = <<>>
    /\ result = 0

NoCall == asked' = <<>> /\ handled' = <<>> /\ result' = 0

(* The program is built from the generated files, and started.             *)
Start ==
    /\ ~running
    /\ schema = Schema
    /\ "generated.cpp" \in DOMAIN written /\ Compiles
    /\ running' = TRUE
    /\ NoCall
    /\ UNCHANGED <<str, store, sent>>

(* serialize_to_string(begin, end, ret): pointers to objects of the store, *)
(* in any order, or to one that no branch of the generated chain knows.    *)
(* The string is only touched at the end.  serialize(), for one object,    *)
(* writes the same as this does for a sequence of one.                     *)
SerializeToString(cs) ==
    /\ running
    /\ asked' = cs
    /\ IF \A i \in DOMAIN cs : cs[i] \in Class
       THEN /\ str' = String(TRUE, [i \in DOMAIN cs |->
                                Item(cs[i], to_protobuf(cs[i], store[cs[i]]))])
            /\ sent' = [i \in DOMAIN cs |-> Object(cs[i], store[cs[i]])]
            /\ result' = 1
       ELSE UNCHANGED <<str, sent>> /\ result' = 0
    /\ handled' = <<>>
    /\ UNCHANGED <<running, store>>

(* What came in is not a message, or carries, before what str has, an item *)
(* with a tag this program's MessageFactory does not have.                 *)
Unreadable ==
    /\ running
    /\ str' = String(FALSE, <<>>)
    /\ sent' = <<>>
    /\ NoCall /\ UNCHANGED <<running, store>>

FromNewerPeer ==
    /\ running
    /\ Len(sent) < MaxBatch
    /\ str' = String(TRUE, <<Item(Foreign, <<>>)>> \o str.items)
    /\ sent' = <<Object(Foreign, <<>>)>> \o sent
    /\ NoCall /\ UNCHANGED <<running, store>>

(* handle_message_from_item: the branch of the item's tag gives the        *)
(* handler a new object; without one the item is passed over.              *)
Handles(item) == item.tag \in Class

HandledObject(item) ==
    LET type == Schema.tags[item.tag]
    IN  Object(type, protobuf_to(type, item.proto, Default(type)))

parse_from_string ==
    LET items == SelectSeq(str.items, Handles) IN
    /\ running
    /\ handled' = IF str.readable
                  THEN [i \in DOMAIN items |-> HandledObject(items[i])] ELSE <<>>
    /\ result' = Len(handled')
    /\ asked' = <<>>
    /\ UNCHANGED <<running, str, store, sent>>

(* X::deserialize(out).                                                    *)
deserialize(c) ==
    /\ running
    /\ IF str.readable /\ Len(str.items) = 1 /\ str.items[1].tag = c
       THEN /\ store' = [store EXCEPT ![c] = protobuf_to(c, str.items[1].proto, @)]
            /\ \A m \in Members(c) :
                  FieldOf(m).kind = "list" => Len(store'[c][m]) <= MaxLength
            /\ result' = 1
       ELSE UNCHANGED store /\ result' = 0
    /\ asked' = <<>> /\ handled' = <<>>
    /\ UNCHANGED <<running, str, sent>>

(* The program fills an object or makes a new one.                         *)
RECURSIVE Full(_)
FullItem(type) ==
    CASE type = "Timestamp" -> -1 [] IsClass(type) -> Full(type) [] OTHER -> 2

Full(c) ==
    [m \in Members(c) |->
        LET f == FieldOf(m) IN
        CASE f.kind = "item" -> FullItem(f.type)
          [] f.kind = "list" -> <<FullItem(f.type), NewItem(f.type)>>
          [] f.kind = "map"  -> [k \in {"k1"} |-> FullItem(f.type)]]

Edit(c) ==
    /\ running
    /\ \E members \in {Default(c), Full(c)} : store' = [store EXCEPT ![c] = members]
    /\ NoCall
    /\ UNCHANGED <<running, str, sent>>

MsgNext ==
    \/ Start
    \/ \E cs \in BoundedSeq(Used \cup {Foreign}, MaxBatch) : SerializeToString(cs)
    \/ Unreadable \/ FromNewerPeer
    \/ parse_from_string
    \/ \E c \in Used : deserialize(c) \/ Edit(c)

Init == GenInit /\ MsgInit

Next ==
    \/ GenNext /\ UNCHANGED msgVars
    \/ MsgNext /\ UNCHANGED genVars

Spec == Init /\ [][Next]_vars

-----------------------------------------------------------------------------

TypeOK ==
    /\ todo \subseteq File
    /\ current_file_number <= proto_file_number
    /\ DOMAIN store = Used
    /\ \A c \in Used : DOMAIN store[c] = Members(c)
    /\ str.readable \in BOOLEAN
    /\ Len(str.items) <= MaxBatch

(* The program exchanges objects as promised: nothing of the way through   *)
(* protobuf, tags and generated functions shows.                           *)
Exchange == INSTANCE Transfer WITH
    valid <- str.readable,
    text <- sent,
    Kind <- LAMBDA m : LET f == FieldOf(m) IN
                       IF f.kind = "item"
                       THEN IF IsClass(f.type) THEN "message" ELSE "value"
                       ELSE f.kind

ImplementsTransfer == Exchange!Spec
=============================================================================
