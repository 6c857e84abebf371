---------------------------- MODULE AtrListener ----------------------------
(***************************************************************************)
(* _wait_for_card (src/driver/apdu/espidf.c, lines 210-265): after the cold *)
(* reset the card sends its Answer-To-Reset; the driver reads TS (repeated  *)
(* TS bytes are skipped), T0, the interface bytes T0's high nibble selects  *)
(* and the K = T0 & 0x0F historical bytes, waits, and drains whatever else  *)
(* is buffered.  One attempt only (retry < 1).                              *)
(*                                                                           *)
(* The card sends ATR atr, TS repeated reps extra times; its bytes wait in   *)
(* cardOut and reach the UART buffer rxq one CardSend step at a time.  The  *)
(* card is timely: a read times out only when nothing is left to come.      *)
(***************************************************************************)
EXTENDS Integers, Sequences, FiniteSets

CONSTANTS
    ATRs,        \* the answers to reset a card may send (byte sequences)
    MaxRepeat    \* most extra TS bytes a card sends

TS == 59   \* 0x3B, the direct-convention initial byte (line 217)

\* Bit 4 + i of T0 (line 236: t0 & (0x10 << i)) and K (line 245: t0 & 0xF).
IfaceBit(t0, i) == (t0 \div 2^(4 + i)) % 2 = 1
HistCount(t0) == t0 % 16

VARIABLES
    pc,        \* First, Marker, Iface, Hist, Settle, Ready, Failed
    data,      \* the last byte read
    t0,        \* the byte taken as T0
    i,         \* the loop counter of the interface or historical bytes
    rxq,       \* the UART receive buffer
    cardOut,   \* ATR bytes the card has still to send
    atr,       \* the ATR the card sends
    reps,      \* how many extra TS bytes it sends first
    consumed   \* bytes read before the settle delay

vars == <<pc, data, t0, i, rxq, cardOut, atr, reps, consumed>>

\* The bytes on the line: TS repeated, then the rest of the ATR.
Sent(a, r) == IF a # <<>> /\ a[1] = TS
              THEN [k \in 1..r |-> TS] \o a
              ELSE a

Init ==
    /\ \E a \in ATRs, r \in 0..MaxRepeat :
          /\ atr = a
          /\ reps = IF a # <<>> /\ a[1] = TS THEN r ELSE 0
          /\ cardOut = Sent(a, r)
    /\ rxq = <<>>
    /\ pc = "First"
    /\ data = 0 /\ t0 = 0 /\ i = 0 /\ consumed = 0

CardSend ==
    /\ cardOut # <<>>
    /\ rxq' = Append(rxq, Head(cardOut))
    /\ cardOut' = Tail(cardOut)
    /\ UNCHANGED <<pc, data, t0, i, atr, reps, consumed>>

\* A read of one byte finding nothing buffered times out.
TimedOut == rxq = <<>> /\ cardOut = <<>>

\* One uart_read_bytes of a byte: the byte is taken into data.
ReadByte ==
    /\ rxq # <<>>
    /\ data' = Head(rxq)
    /\ rxq' = Tail(rxq)
    /\ consumed' = consumed + 1

Fail == /\ TimedOut /\ pc' = "Failed"
        /\ UNCHANGED <<data, t0, i, rxq, consumed>>

\* Mutant of IsTS: the first byte not checked.
IsTSAny(b) == TRUE

\* The first byte must be TS (line 217).
IsTS(b) == b = TS

\* The first byte (lines 214-223).
ReadTS ==
    /\ pc = "First"
    /\ \/ Fail
       \/ /\ ReadByte
          /\ pc' = IF IsTS(Head(rxq)) THEN "Marker" ELSE "Failed"
          /\ UNCHANGED <<t0, i>>
    /\ UNCHANGED <<cardOut, atr, reps>>

\* Mutant of IsRepeatedTS: the byte after TS always taken as T0.
IsRepeatedTSNever(b) == FALSE

\* The loop of lines 224-232 goes on while the byte read is 0x3B.
IsRepeatedTS(b) == b = TS

\* Further TS bytes are skipped; the first other byte is T0 (lines 224-234).
ReadT0 ==
    /\ pc = "Marker"
    /\ \/ Fail
       \/ /\ ReadByte
          /\ IF IsRepeatedTS(Head(rxq))
             THEN UNCHANGED <<pc, t0, i>>
             ELSE pc' = "Iface" /\ t0' = Head(rxq) /\ i' = 0
    /\ UNCHANGED <<cardOut, atr, reps>>

\* Interface byte i, read if T0 announces it (lines 235-244).
ReadIface ==
    /\ pc = "Iface"
    /\ \/ /\ i = 4
          /\ pc' = "Hist" /\ i' = 0
          /\ UNCHANGED <<data, rxq, consumed>>
       \/ /\ i < 4 /\ ~IfaceBit(t0, i)
          /\ i' = i + 1
          /\ UNCHANGED <<pc, data, rxq, consumed>>
       \/ /\ i < 4 /\ IfaceBit(t0, i)
          /\ \/ Fail
             \/ ReadByte /\ i' = i + 1 /\ UNCHANGED pc
    /\ UNCHANGED <<t0, cardOut, atr, reps>>

\* Historical byte i (lines 245-252).
ReadHist ==
    /\ pc = "Hist"
    /\ \/ /\ i = HistCount(t0)
          /\ pc' = "Settle"
          /\ UNCHANGED <<data, i, rxq, consumed>>
       \/ /\ i < HistCount(t0)
          /\ \/ Fail
             \/ ReadByte /\ i' = i + 1 /\ UNCHANGED pc
    /\ UNCHANGED <<t0, cardOut, atr, reps>>

\* vTaskDelay(500) (line 253): the card, timely, has sent its whole ATR.
Settled == cardOut = <<>>

\* After 500 ms every byte of the ATR has arrived; the s bytes then buffered
\* are read and dropped, and the card is declared ready (lines 253-261).
Settle ==
    /\ pc = "Settle"
    /\ Settled
    /\ rxq' = <<>>
    /\ pc' = "Ready"
    /\ UNCHANGED <<data, t0, i, cardOut, atr, reps, consumed>>

Next == ReadTS \/ ReadT0 \/ ReadIface \/ ReadHist \/ Settle \/ CardSend

Spec == Init /\ [][Next]_vars /\ WF_vars(Next)

(***************************************************************************)
(* Properties.                                                               *)
(***************************************************************************)
TypeOK ==
    /\ pc \in {"First", "Marker", "Iface", "Hist", "Settle", "Ready", "Failed"}
    /\ data \in 0..255 /\ t0 \in 0..255 /\ i \in 0..15
    /\ rxq \in Seq(0..255) /\ cardOut \in Seq(0..255)
    /\ reps \in 0..MaxRepeat /\ consumed \in Nat

(***************************************************************************)
(* The listener implements await_atr: mapped to the abstract outcome (the   *)
(* Ready and Failed ends of _wait_for_card, Pending before), every step of *)
(* lines 210-265 is a stutter or the one Decide step of AwaitAtr.           *)
(***************************************************************************)
Outcome == CASE pc = "Ready"  -> "Ready"
             [] pc = "Failed" -> "Error"
             [] OTHER         -> "Pending"

Abstract == INSTANCE AwaitAtr WITH outcome <- Outcome

(***************************************************************************)
(* _wait_for_card implements await_atr: it always ends, and ends Ready      *)
(* exactly when the card sent a whole ATR descriptor (spec section 2,      *)
(* Abstract!CompleteAtr).  A card sending no ATR, another initial byte, or *)
(* stopping before the descriptor's last byte is never taken for ready;    *)
(* and a whole descriptor, TS repeated or not, is never rejected by the    *)
(* listener's own reading (lines 224-234 take a T0 of 0x3B for a repeated  *)
(* TS and read TA1 as T0), so it never waits for a byte the card does not  *)
(* send.                                                                     *)
(***************************************************************************)
ImplementsAwaitAtr == Abstract!Spec
=============================================================================
