---------------------------- MODULE HttpContract ----------------------------
(***************************************************************************)
(* What the HTTP driver promises the host library (spec section 6):        *)
(* transmit(url, headers, body) -> (status, response_body) | Error, with   *)
(* redirects followed.  A call is answered once, with the body the server  *)
(* finally sent, whole and in order, or with an error; between calls the   *)
(* answer the host holds does not change.                                   *)
(***************************************************************************)
EXTENDS Sequences

CONSTANT Responses   \* the response bodies a server may send (byte strings)

VARIABLES
    state,    \* "Idle" or "Busy"
    reply,    \* the body the server sends to the current or last call
    result    \* what the host holds: Answer(r), Failure, or NoAnswer

vars == <<state, reply, result>>

\* A successful answer carrying body r (data and its length), an error, and
\* the host's view before its first call.
Answer(r) == [ok |-> TRUE, data |-> r, len |-> Len(r)]
Failure   == [ok |-> FALSE, data |-> <<>>, len |-> 0]
NoAnswer  == [ok |-> TRUE, data |-> <<>>, len |-> 0]

Init == state = "Idle" /\ reply = <<>> /\ result = NoAnswer

Call ==
    /\ state = "Idle"
    /\ state' = "Busy"
    /\ reply' \in Responses
    /\ UNCHANGED result

Return ==
    /\ state = "Busy"
    /\ state' = "Idle"
    /\ result' \in {Answer(reply), Failure}
    /\ UNCHANGED reply

Next == Call \/ Return

\* A call, once made, is answered.
Spec == Init /\ [][Next]_vars /\ WF_vars(Return)
=============================================================================
