------------------------------ MODULE Transfer ------------------------------
(***************************************************************************)
(* What the generated message classes promise their users, who never see   *)
(* protobuf: a string carries a sequence of objects and gives them back    *)
(* equal, in order and as their own classes.  An object that receives      *)
(* another takes over its values; its lists and maps are added to.         *)
(*                                                                         *)
(* An object is its class and the values of its members, its bases'        *)
(* members among them.                                                     *)
(***************************************************************************)
EXTENDS Naturals, Sequences, TLC

CONSTANTS
    Class,          \* the classes this program knows
    Used,           \* those it has an object of
    Default(_),     \* the members of a new object of a class
    Kind(_)         \* "list", "map", "message" or "value", for each member

VARIABLES
    valid, text,    \* the string: whether it is a message, and its objects
    store,          \* the members of one object of each class used
    asked,          \* the last call: the classes of the objects to send
    handled,        \* what it gave its handler
    result          \* what it returned

vars == <<valid, text, store, asked, handled, result>>

(* No function was called.                                                 *)
NoCall == asked' = <<>> /\ handled' = <<>> /\ result' = 0

RECURSIVE Received(_, _)
Received(old, new) ==
    [m \in DOMAIN new |->
        CASE Kind(m) = "list"    -> old[m] \o new[m]
          [] Kind(m) = "map"     -> new[m] @@ old[m]
          [] Kind(m) = "message" -> Received(old[m], new[m])
          [] Kind(m) = "value"   -> new[m]]

Known(object) == object.class \in Class

Init ==
    /\ valid = TRUE /\ text = <<>>
    /\ store = [c \in Used |-> Default(c)]
    /\ asked = <<>>
    /\ handled = <<>>
    /\ result = 0

(* Objects go into the string, in the order asked for: all, or none when   *)
(* one is of a class this program does not know.                           *)
Pack ==
    /\ IF \A i \in DOMAIN asked' : asked'[i] \in Class
       THEN /\ valid' = TRUE
            /\ text' = [i \in DOMAIN asked' |->
                          [class |-> asked'[i], members |-> store[asked'[i]]]]
            /\ result' = 1
       ELSE UNCHANGED <<valid, text>> /\ result' = 0
    /\ handled' = <<>>
    /\ UNCHANGED store

(* A string comes from elsewhere, or the program changes an object.        *)
Arrive == NoCall /\ UNCHANGED store

Edit ==
    /\ \E c \in Used : \A d \in Used \ {c} : store'[d] = store[d]
    /\ NoCall
    /\ UNCHANGED <<valid, text>>

(* The handler sees the objects of classes this program knows.             *)
Unpack ==
    /\ handled' = IF valid THEN SelectSeq(text, Known) ELSE <<>>
    /\ result' = Len(handled')
    /\ asked' = <<>>
    /\ UNCHANGED <<valid, text, store>>

(* The object of class c receives the only object of the string, if that   *)
(* is of class c.                                                          *)
Receive(c) ==
    /\ IF valid /\ Len(text) = 1 /\ text[1].class = c
       THEN /\ store' = [store EXCEPT ![c] = Received(@, text[1].members)]
            /\ result' = 1
       ELSE UNCHANGED store /\ result' = 0
    /\ asked' = <<>> /\ handled' = <<>>
    /\ UNCHANGED <<valid, text>>

Next == Pack \/ Arrive \/ Edit \/ Unpack \/ \E c \in Used : Receive(c)

Spec == Init /\ [][Next]_vars
=============================================================================
