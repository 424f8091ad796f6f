--------------------------- MODULE Authorization ----------------------------
(***************************************************************************)
(* What one authorization request promises, without handlers, documents or *)
(* time: at most one code, for somebody who proved who they are, and at    *)
(* most one answer, which carries that code or says there is none.         *)
(***************************************************************************)
EXTENDS Sequences

CONSTANT Users
VARIABLES proven, issued, answers

Init == proven = {} /\ issued = <<>> /\ answers = <<>>

\* Somebody authenticates, or turns out to hold a live session.
Prove(u) ==
    /\ proven' = proven \cup {u}
    /\ UNCHANGED <<issued, answers>>

\* The one code; a session hit proves and issues at once.
Issue(u) ==
    /\ issued = <<>> /\ answers = <<>>
    /\ u \in proven'
    /\ proven' \in {proven, proven \cup {u}}
    /\ issued' = <<u>>
    /\ UNCHANGED answers

\* The one answer: the code that was issued, or that there is none.
Possible ==
    IF issued = <<>> THEN {[kind |-> k, uid |-> {}] : k \in {"error", "logout"}}
    ELSE {[kind |-> "code", uid |-> {issued[1]}]}

Answer ==
    /\ answers = <<>>
    /\ \E a \in Possible : answers' = <<a>>
    /\ UNCHANGED <<proven, issued>>

Next == Answer \/ \E u \in Users : Prove(u) \/ Issue(u)

Spec == Init /\ [][Next]_<<proven, issued, answers>>
=============================================================================
