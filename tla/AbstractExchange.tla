-------------------------- MODULE AbstractExchange --------------------------
(***************************************************************************)
(* What one APDU exchange promises the host library (spec section 4.3,      *)
(* "exchange(command) -> response | Error"): a command shorter than a       *)
(* header is refused; any other command is answered by the card, and the    *)
(* call returns that answer.  The wire-level protocol is hidden.            *)
(***************************************************************************)
EXTENDS Integers, Sequences

CONSTANTS
    Commands,        \* the commands the host may transmit
    CardAnswer(_)    \* CardAnswer(c): the answers the card may give to c

VARIABLES
    xpc,    \* "Idle", "Busy" (the call is in progress) or "Done"
    xcmd,   \* the command of the current call
    xresp,  \* the card's answer to it
    xrx,    \* the response the call returned
    xok     \* whether the call returned 0

xvars == <<xpc, xcmd, xresp, xrx, xok>>

Init ==
    /\ xpc = "Idle"
    /\ xcmd = <<>>
    /\ xresp = <<>>
    /\ xrx = <<>>
    /\ xok = FALSE

\* A call with a command of at least 5 bytes; the card answers it.
Start(c) ==
    /\ xpc \in {"Idle", "Done"}
    /\ Len(c) >= 5
    /\ xpc' = "Busy"
    /\ xcmd' = c
    /\ xresp' \in CardAnswer(c)
    /\ xrx' = <<>>
    /\ xok' = FALSE

\* A call with a shorter command fails at once.
Refuse(c) ==
    /\ xpc \in {"Idle", "Done"}
    /\ Len(c) < 5
    /\ xpc' = "Done"
    /\ xcmd' = c
    /\ xrx' = <<>>
    /\ xok' = FALSE
    /\ UNCHANGED xresp

\* The call returns the card's answer.
Complete ==
    /\ xpc = "Busy"
    /\ xpc' = "Done"
    /\ xrx' = xresp
    /\ xok' = TRUE
    /\ UNCHANGED <<xcmd, xresp>>

Next == (\E c \in Commands : Start(c) \/ Refuse(c)) \/ Complete

Spec == Init /\ [][Next]_xvars /\ WF_xvars(Complete)
=============================================================================
