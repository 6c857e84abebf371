--------------------------- MODULE T0Transceiver ---------------------------
(***************************************************************************)
(* One APDU exchange after another over the half-duplex serial line, as     *)
(* _transmit_raw and _send_and_clear_echo do it (src/driver/apdu/espidf.c,  *)
(* lines 39-208), against a T=0 card.                                        *)
(*                                                                           *)
(* The UART receive buffer rxq holds, in order, the loopback echo of every   *)
(* byte the driver writes and every byte the card sends.  The card is the   *)
(* environment: when it receives a header it decides its whole answer        *)
(* (procedure bytes, data, status word); its bytes wait in cardOut and reach *)
(* rxq one CardSend step at a time.  A read of the driver that finds rxq     *)
(* empty times out when the card has nothing left to send or, if LateBytes,  *)
(* at any time (a card slower than the read's deadline).                     *)
(***************************************************************************)
EXTENDS ApduLength, SequencesExt

CONSTANTS
    Commands,      \* the commands the host may transmit (byte sequences)
    SWs,           \* status words <<SW1, SW2>> the card may answer with
    DataBytes,     \* bytes the card may put in response data
    MaxNull,       \* most NULL procedure bytes the card sends at one point
    MaxAll,        \* most data bytes the card returns when Le = 0
    NullAfterData, \* may the card send NULL bytes after the ACK of a command that
                   \* expects data (before its data or SW1)
    LateBytes,     \* may a card byte arrive after the read waiting for it timed out
    MaxNoise,      \* how many writes the line may garble in a run
    NoiseKinds,    \* which garbling: "line", "echo", "drop" (see Wire)
    NoiseBytes,    \* what a corrupted byte may read as
    MaxExchanges   \* bound on the number of exchanges

NULL == 96   \* 0x60, the T=0 NULL procedure byte (lines 87 and 192)

ASSUME \A c \in Commands : Len(c) >= 5 => ~(Len(c) = 6 /\ c[5] = 0)
    \* no command makes ToRecv read past its end (see ApduLength)

VARIABLES
    pc,          \* where _transmit_raw is: Idle, HdrEcho, Proc, Sw2, Nil, BodyEcho, Recv, Done
    cmd,         \* tx: the command of the current exchange
    sw1,         \* the procedure byte taken as SW1 (line 88)
    sw2,         \* the byte read as SW2 (line 90)
    toRecv,      \* to_recv
    rx,          \* rx[0 .. *rx_len - 1]
    ok,          \* the exchange returned 0
    exchanges,   \* exchanges started so far
    rxq,         \* the UART receive buffer
    cardOut,     \* bytes the card has decided to send and not yet sent
    cardPending, \* the card's answer to the body, sent once the body arrives
    cardCmd,     \* the bytes the card received in this exchange
    cardResp,    \* the response (data and SW1 SW2) the card gave to them
    noise        \* writes garbled so far

drvVars  == <<pc, cmd, sw1, sw2, toRecv, rx, ok, exchanges>>
cardVars == <<rxq, cardOut, cardPending, cardCmd, cardResp, noise>>
vars == <<drvVars, cardVars>>

Byte == 0..255
Nulls(k) == [i \in 1..k |-> NULL]
Drop(s, k) == SubSeq(s, k + 1, Len(s))

(***************************************************************************)
(* Environment.                                                              *)
(***************************************************************************)
\* What happens to bytes s the driver writes, as pairs <<w, e>>: the card
\* receives w and the loopback echo reads back e.  While the fault budget
\* lasts one byte may be corrupted on the line (both see it), corrupted on
\* the receive side only, or lost on the receive side only.
Corrupt(s) == UNION {{[s EXCEPT ![i] = v] : v \in NoiseBytes \ {s[i]}} : i \in 1..Len(s)}
Wire(s) ==
    {<<s, s>>} \cup
    IF noise < MaxNoise
    THEN    {<<c, c>> : c \in IF "line" \in NoiseKinds THEN Corrupt(s) ELSE {}}
         \cup {<<s, c>> : c \in IF "echo" \in NoiseKinds THEN Corrupt(s) ELSE {}}
         \cup {<<s, RemoveAt(s, i)>> : i \in IF "drop" \in NoiseKinds THEN 1..Len(s) ELSE {}}
    ELSE {}

\* The data a card returns to command c.  In T=0 only a header-only command
\* (case 1 or 2) gets data in its answer: Le bytes, or up to MaxAll when Le
\* is 0.  A command with a body (case 3, or case 4 sent as its case 3 TPDU)
\* is answered by a status word alone; case 4 data is announced by 61 XX
\* and fetched with a GET RESPONSE of its own (ISO/IEC 7816-3 section 12.2).
ReplyData(c) ==
    LET e == ExpectedLength(c)
    IN  CASE Len(c) > 5     -> {<<>>}
          [] e = ExpectAll  -> SeqOf(DataBytes, MaxAll)
          [] OTHER          -> [1..(e - 2) -> DataBytes]

\* The card's answer to header w of command c: either a status word at once,
\* or an ACK (the INS it received) and, after any body, data and a status
\* word.  NULL bytes may precede either procedure byte; after the ACK, as
\* T=0 allows, they may precede SW1 (in front of the data, only when
\* NullAfterData, for commands that expect data: header-only commands).
CardAnswers(c, w) ==
    \E k \in 0..MaxNull, sw \in SWs :
        \/ /\ cardOut' = cardOut \o Nulls(k) \o sw
           /\ cardPending' = <<>>
           /\ cardResp' = sw
        \/ \E d \in ReplyData(c) :
           \E j \in IF ExpectedLength(c) = 2 \/ NullAfterData THEN 0..MaxNull ELSE {0} :
             LET rest == d \o Nulls(j) \o sw
             IN  /\ cardResp' = d \o sw
                 /\ IF Len(c) = 5
                    THEN cardOut' = cardOut \o Nulls(k) \o <<w[2]>> \o rest
                         /\ cardPending' = <<>>
                    ELSE cardOut' = cardOut \o Nulls(k) \o <<w[2]>>
                         /\ cardPending' = rest

CardSend ==
    /\ cardOut # <<>>
    /\ rxq' = Append(rxq, Head(cardOut))
    /\ cardOut' = Tail(cardOut)
    /\ UNCHANGED <<drvVars, cardPending, cardCmd, cardResp, noise>>

\* Mutant of CanTimeOut: a read that waits forever.
BlockingRead == FALSE

\* A read finding rxq empty may give up: no byte is coming, or one is late.
CanTimeOut == rxq = <<>> /\ (LateBytes \/ cardOut = <<>>)

(***************************************************************************)
(* Driver.                                                                   *)
(***************************************************************************)
\* strncmp(a, b, n) == 0 (line 52): comparison stops at the first
\* position where the bytes differ or both are 0.
StrNCmpEq(a, b, n) ==
    \A i \in 1..n : (\A j \in 1..(i - 1) : a[j] = b[j] /\ a[j] # 0) => a[i] = b[i]

Fail == pc' = "Done" /\ ok' = FALSE

\* Mutant of IsAck: the ACK compared with CLA.
IsAckCla(b) == b = cmd[1]

\* The procedure byte is an ACK: it equals INS, tx[1] in C (line 83).
IsAck(b) == b = cmd[2]

\* A received byte is dropped as NULL only when just SW1 SW2 are expected
\* (line 192).
Skipped(b) == toRecv = 2 /\ b = NULL

\* uart_write_bytes(s) (line 40) behind whatever is already buffered: the
\* card receives we[1] after the bytes got of this exchange, the echo we[2]
\* is appended to the receive buffer.
WriteBytes(buf, got, s, we) ==
    /\ rxq' = buf \o we[2]
    /\ cardCmd' = got \o we[1]
    /\ noise' = IF we = <<s, s>> THEN noise ELSE noise + 1

\* _send_and_clear_echo's read-back and check (lines 45-58) of the bytes s:
\* a short read or a mismatch fails leaving Kept unchanged, otherwise Then.
ClearEcho(s, Then, Kept) ==
    LET n == Len(s)
    IN  \/ /\ Len(rxq) >= n
           /\ rxq' = Drop(rxq, n)
           /\ IF StrNCmpEq(SubSeq(rxq, 1, n), s, n) THEN Then ELSE Fail /\ UNCHANGED Kept
        \/ /\ Len(rxq) < n
           /\ LateBytes \/ cardOut = <<>>
           /\ rxq' = <<>>
           /\ Fail /\ UNCHANGED Kept

\* Entering the receive loop (lines 113-181).
StartRecv ==
    /\ pc' = "Recv"
    /\ toRecv' = ToRecv(cmd, 0)
    /\ rx' = <<>>

\* _transmit_raw is called: the length guard (line 64) and the header write
\* (line 72, line 40).  The card receives the header and decides its answer.
Transmit ==
    /\ pc \in {"Idle", "Done"}
    /\ exchanges < MaxExchanges
    /\ exchanges' = exchanges + 1
    /\ \E c \in Commands :
         /\ cmd' = c
         /\ rx' = <<>>
         /\ IF Len(c) < 5
            THEN Fail /\ UNCHANGED <<cardVars>>
            ELSE \E we \in Wire(SubSeq(c, 1, 5)) :
                   /\ WriteBytes(rxq, <<>>, SubSeq(c, 1, 5), we)
                   /\ CardAnswers(c, we[1])
                   /\ pc' = "HdrEcho"
                   /\ UNCHANGED ok
    /\ UNCHANGED <<sw1, sw2, toRecv>>

\* The header echo is read back and compared (lines 45-58, 72).
HeaderEcho ==
    /\ pc = "HdrEcho"
    /\ ClearEcho(SubSeq(cmd, 1, 5), pc' = "Proc" /\ UNCHANGED ok, <<>>)
    /\ UNCHANGED <<cmd, sw1, sw2, toRecv, rx, exchanges,
                   cardOut, cardPending, cardCmd, cardResp, noise>>

\* One procedure byte (lines 77-106).  INS is an ACK: the body, if any, is
\* written (line 108) and the card, having received it, answers.  NULL is
\* skipped.  Anything else is SW1.
ProcedureByte ==
    /\ pc = "Proc"
    /\ \/ /\ CanTimeOut                                          \* "No ack"
          /\ Fail
          /\ UNCHANGED <<rxq, cmd, sw1, rx, toRecv, cardOut, cardPending, cardCmd, noise>>
       \/ /\ rxq # <<>>
          /\ LET b == Head(rxq) IN
             CASE IsAck(b) /\ Len(cmd) > 5 ->
                    LET body == Drop(cmd, 5) IN
                    \E we \in Wire(body) :
                      /\ WriteBytes(Tail(rxq), cardCmd, body, we)
                      /\ cardOut' = cardOut \o cardPending
                      /\ cardPending' = <<>>
                      /\ pc' = "BodyEcho"
                      /\ UNCHANGED <<sw1, rx, toRecv>>
               [] IsAck(b) ->
                    /\ rxq' = Tail(rxq)
                    /\ StartRecv
                    /\ UNCHANGED <<sw1, cardOut, cardPending, cardCmd, noise>>
               [] b = NULL ->
                    /\ rxq' = Tail(rxq)
                    /\ UNCHANGED <<pc, sw1, rx, toRecv, cardOut, cardPending, cardCmd, noise>>
               [] OTHER ->
                    /\ rxq' = Tail(rxq)
                    /\ sw1' = b
                    /\ pc' = "Sw2"
                    /\ UNCHANGED <<rx, toRecv, cardOut, cardPending, cardCmd, noise>>
          /\ UNCHANGED <<cmd, ok>>
    /\ UNCHANGED <<sw2, exchanges, cardResp>>

\* SW2 after a status-word procedure byte (lines 90-94).
ReadSw2 ==
    /\ pc = "Sw2"
    /\ \/ /\ CanTimeOut /\ Fail /\ UNCHANGED <<rxq, sw2>>   \* "No sw2"
       \/ /\ rxq # <<>>
          /\ sw2' = Head(rxq)
          /\ rxq' = Tail(rxq)
          /\ pc' = "Nil"
          /\ UNCHANGED ok
    /\ UNCHANGED <<cmd, sw1, toRecv, rx, exchanges,
                   cardOut, cardPending, cardCmd, cardResp, noise>>

\* Nothing may follow the status word (lines 95-104).
ReadNil ==
    /\ pc = "Nil"
    /\ \/ /\ rxq # <<>>                              \* "Expected nothing received"
          /\ rxq' = Tail(rxq)
          /\ Fail
          /\ UNCHANGED rx
       \/ /\ CanTimeOut
          /\ rx' = <<sw1, sw2>>
          /\ pc' = "Done"
          /\ ok' = TRUE
          /\ UNCHANGED rxq
    /\ UNCHANGED <<cmd, sw1, sw2, toRecv, exchanges,
                   cardOut, cardPending, cardCmd, cardResp, noise>>

\* The body echo is read back and compared (lines 107-112); to_recv is
\* computed (lines 113-176).
BodyEcho ==
    /\ pc = "BodyEcho"
    /\ ClearEcho(Drop(cmd, 5), StartRecv /\ UNCHANGED ok, <<toRecv, rx>>)
    /\ UNCHANGED <<cmd, sw1, sw2, exchanges,
                   cardOut, cardPending, cardCmd, cardResp, noise>>

\* One byte of the receive loop (lines 182-197); a NULL is dropped when
\* only the status word is expected.
RecvByte ==
    /\ pc = "Recv"
    /\ Len(rx) < toRecv
    /\ rxq # <<>>
    /\ rxq' = Tail(rxq)
    /\ rx' = IF Skipped(Head(rxq)) THEN rx ELSE Append(rx, Head(rxq))
    /\ UNCHANGED <<pc, cmd, sw1, sw2, toRecv, ok, exchanges,
                   cardOut, cardPending, cardCmd, cardResp, noise>>

\* The loop ends, full or on a timeout, and the length is checked (lines
\* 182-207); bytes left in rxq are only logged.
RecvEnd ==
    /\ pc = "Recv"
    /\ Len(rx) >= toRecv \/ CanTimeOut
    /\ pc' = "Done"
    /\ ok' = (Len(rx) = toRecv \/ ~LengthChecked(toRecv))
    /\ UNCHANGED <<cmd, sw1, sw2, toRecv, rx, exchanges, cardVars>>

Init ==
    /\ pc = "Idle"
    /\ cmd = <<>>
    /\ sw1 = 0
    /\ sw2 = 0
    /\ toRecv = 0
    /\ rx = <<>>
    /\ ok = FALSE
    /\ exchanges = 0
    /\ rxq = <<>>
    /\ cardOut = <<>>
    /\ cardPending = <<>>
    /\ cardCmd = <<>>
    /\ cardResp = <<>>
    /\ noise = 0

Driver == Transmit \/ HeaderEcho \/ ProcedureByte \/ ReadSw2 \/ ReadNil
          \/ BodyEcho \/ RecvByte \/ RecvEnd

Next == Driver \/ CardSend

\* The driver is one blocking thread and the card keeps sending what it has
\* decided to send.
Spec == Init /\ [][Next]_vars /\ WF_vars(Driver) /\ WF_vars(CardSend)

(***************************************************************************)
(* Properties.                                                               *)
(***************************************************************************)
TypeOK ==
    /\ pc \in {"Idle", "HdrEcho", "Proc", "Sw2", "Nil", "BodyEcho", "Recv", "Done"}
    /\ cmd \in Seq(Byte) /\ rx \in Seq(Byte) /\ rxq \in Seq(Byte)
    /\ cardOut \in Seq(Byte) /\ cardPending \in Seq(Byte)
    /\ cardCmd \in Seq(Byte) /\ cardResp \in Seq(Byte)
    /\ sw1 \in Byte /\ sw2 \in Byte
    /\ toRecv \in 0..65537
    /\ ok \in BOOLEAN
    /\ exchanges \in 0..MaxExchanges
    /\ noise \in 0..MaxNoise

(***************************************************************************)
(* When _transmit_raw returns 0, the response it hands back is exactly the  *)
(* response (data and status word) the card gave, and the card gave it to   *)
(* the bytes the driver sent, received uncorrupted (the echo check of        *)
(* _send_and_clear_echo, the procedure-byte loop and the receive loop        *)
(* together are what should ensure this).                                    *)
(***************************************************************************)
ResponseFaithful ==
    pc = "Done" /\ ok => rx = cardResp /\ IsPrefix(cardCmd, cmd)

(***************************************************************************)
(* Over a clean line and with a card that answers within the deadlines,     *)
(* every exchange of a command of at least 5 bytes that the card answers    *)
(* by the T=0 rules succeeds: the driver never rejects a legal answer.       *)
(***************************************************************************)
NoSpuriousFailure ==
    pc = "Done" /\ Len(cmd) >= 5 /\ noise = 0 /\ ~LateBytes => ok

(***************************************************************************)
(* Even when the card is slow or the echo is misread, an exchange that      *)
(* returns 0 returns part of the answer the card gave to this very command  *)
(* (in the Le = 0 case the loop may stop early, line 189): never bytes of   *)
(* another exchange and never an answer to garbled bytes.                   *)
(***************************************************************************)
ResponseFromThisExchange ==
    pc = "Done" /\ ok => IsPrefix(rx, cardResp) /\ IsPrefix(cardCmd, cmd)

(***************************************************************************)
(* Refinement: seen only at its call boundary (Idle or Done), with the card *)
(* answering by the T=0 rules in time over a clean line, _transmit_raw is   *)
(* the atomic exchange of AbstractExchange: it returns exactly the card's   *)
(* answer, and it does return.                                               *)
(***************************************************************************)
\* The answers CardAnswers lets the card give to c.
CardResponses(c) == {d \o sw : d \in ReplyData(c) \cup {<<>>}, sw \in SWs}

Exchange == INSTANCE AbstractExchange WITH
    CardAnswer <- CardResponses,
    xpc   <- IF pc \in {"Idle", "Done"} THEN pc ELSE "Busy",
    xcmd  <- cmd,
    xresp <- cardResp,
    xrx   <- IF pc = "Done" THEN rx ELSE <<>>,
    xok   <- pc = "Done" /\ ok

ImplementsExchange == Exchange!Spec

(***************************************************************************)
(* Every call of _transmit_raw returns: whatever the line and the card do,  *)
(* none of its waits (the procedure-byte loop, the receive loop) is         *)
(* endless while the card sends finitely many bytes.                         *)
(***************************************************************************)
Termination == (pc \notin {"Idle", "Done"}) ~> (pc = "Done")
=============================================================================
