----------------------------- MODULE LogStream -----------------------------
(***************************************************************************)
(* What the asynchronous logger promises: the pages of the lines it has    *)
(* accepted form one stream; they are handed to the system in the stream's *)
(* order, each once, as they were logged; when the logger has closed       *)
(* nothing is left over.  What the system makes of a page is its affair.   *)
(***************************************************************************)
EXTENDS Naturals, Sequences

CONSTANTS Record, MaxPages, None

VARIABLES
    accepted,   \* the stream: pages <<record, number>> of the accepted lines
    position,   \* how many of them have been handed to the system
    last,       \* the last of them
    closed

vars == <<accepted, position, last, closed>>

Init ==
    /\ accepted = <<>>
    /\ position = 0
    /\ last = None
    /\ closed = FALSE

(* A line is accepted whole and once: no other line's pages stand in it.   *)
Accept ==
    /\ ~closed
    /\ \E r \in Record, n \in 1 .. MaxPages :
          /\ \A i \in DOMAIN accepted : accepted[i][1] # r
          /\ accepted' = accepted \o [i \in 1 .. n |-> <<r, i>>]
    /\ UNCHANGED <<position, last, closed>>

Write ==
    /\ position < Len(accepted)
    /\ position' = position + 1
    /\ last' = accepted[position + 1]
    /\ UNCHANGED <<accepted, closed>>

Close ==
    /\ position = Len(accepted)
    /\ closed' = TRUE
    /\ UNCHANGED <<accepted, position, last>>

Next == Accept \/ Write \/ Close

Spec == Init /\ [][Next]_vars
=============================================================================
