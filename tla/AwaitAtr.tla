------------------------------ MODULE AwaitAtr ------------------------------
(***************************************************************************)
(* What the ATR Listener promises (spec section 4.2): await_atr() ->        *)
(* Ready | Error.  After a cold reset the card sends an Answer-To-Reset;    *)
(* the wait ends, once, in Ready exactly when that answer is a whole ATR    *)
(* descriptor in the sense of spec section 2: the start byte TS, T0, the    *)
(* interface bytes T0's high nibble selects and the K = T0 & 0x0F           *)
(* historical bytes.  It ends in Error when the card sends nothing, another *)
(* initial byte, or stops before the descriptor's last byte.  Interface     *)
(* bytes that a TDi announces beyond T0's group, and TCK, are not part of  *)
(* the descriptor: the spec leaves them to the final drain.                *)
(***************************************************************************)
EXTENDS Integers, Sequences, FiniteSets

CONSTANT ATRs    \* the answers to reset a card may send (byte sequences)

VARIABLES
    atr,       \* the answer the card sends
    outcome    \* "Pending", then "Ready" or "Error"

vars == <<atr, outcome>>

TS == 59   \* 0x3B, the direct-convention initial character

\* T0's high nibble selects which of TA1, TB1, TC1, TD1 follow.
GroupSize(y) == Cardinality({k \in 0..3 : (y \div 2^(4 + k)) % 2 = 1})

\* The length of the descriptor that starts with TS and T0 = a[2].
DescriptorLength(a) == 2 + GroupSize(a[2]) + (a[2] % 16)

CompleteAtr(a) == Len(a) >= 2 /\ a[1] = TS /\ Len(a) >= DescriptorLength(a)

Init == atr \in ATRs /\ outcome = "Pending"

\* The one attempt (no retry) decides.
Decide ==
    /\ outcome = "Pending"
    /\ outcome' = IF CompleteAtr(atr) THEN "Ready" ELSE "Error"
    /\ UNCHANGED atr

Spec == Init /\ [][Decide]_vars /\ WF_vars(Decide)
=============================================================================
