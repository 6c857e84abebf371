--------------------------- MODULE ApduInterface ---------------------------
(***************************************************************************)
(* The driver facade of src/driver/apdu/espidf.c: init and fini (lines      *)
(* 365-404), connect with the power sequencer (lines 26-37, 267-281),       *)
(* disconnect (283-286), logical channel open and close (288-346) and       *)
(* transmit (348-363), called one at a time by the host library.            *)
(*                                                                           *)
(* Each APDU exchange is one step here.  T0Transceiver shows that the byte- *)
(* level exchange implements AbstractExchange: it either fails or returns   *)
(* exactly the card's answer.  A failed exchange may have reached the card  *)
(* (the answer was lost or garbled) or not; both are possible below.  The   *)
(* ATR wait of connect is one step too (AtrListener models it): it succeeds *)
(* or fails.                                                                 *)
(*                                                                           *)
(* The card assigns logical channels from CardChannels and answers SELECT   *)
(* with one of SelectSWs; it selects the application iff SW1 says the       *)
(* command completed.                                                        *)
(***************************************************************************)
EXTENDS Integers, Sequences, FiniteSets

CONSTANTS
    CardChannels,    \* channel numbers the card may assign (1..3)
    SelectSWs,       \* status words the card may answer SELECT with
    ExchangeFaults,  \* TRUE: any exchange may fail on the line
    MaxCalls         \* bound on the number of entry-point calls

VARIABLES
    phase,      \* "Unloaded", "Loaded", "Finished" (init / fini)
    simOn,      \* level of SIM_ON_PIN
    rst,        \* level of RESET_PIN
    cardActive, \* the card answered its reset and is in session
    cardOpen,   \* logical channels open on the card
    selected,   \* channels on which the card has the application selected
    held,       \* channels open() returned and close() has not been given
    closed,     \* channels given to close() in this session
    lastOp,     \* the entry point called last
    ret,        \* its return value
    calls       \* entry-point calls made

vars == <<phase, simOn, rst, cardActive, cardOpen, selected, held, closed,
          lastOp, ret, calls>>

cardVars == <<cardActive, cardOpen, selected>>
hostVars == <<held, closed>>

\* APDUs of lines 20-24 (the SELECT template is completed in SelectCmd).
APDU_OPENLOGICCHANNEL  == <<0, 112, 0, 0, 1>>
APDU_CLOSELOGICCHANNEL == <<0, 112, 128, 255, 0>>
SELECT_CLA == 0

\* tx_buf[0] = (tx_buf[0] & 0xF0) | channel  (line 315).
PatchCla(cla, ch) == (cla \div 16) * 16 + ch

(***************************************************************************)
(* The card: MANAGE CHANNEL close (P1 = 0x80) closes the channel P2 names,  *)
(* or, when P2 is no channel number (00 or FF), the channel of CLA; the     *)
(* basic channel 0 cannot be closed (ISO/IEC 7816-4 section 11.1.2).         *)
(***************************************************************************)
CloseTarget(cmd) == IF cmd[4] \in 1..19 THEN cmd[4] ELSE cmd[1] % 4

\* SW1 values meaning "completed" (normal, more data, warnings).
Completed(sw) == sw[1] \in {144, 97, 98, 99}

\* The card is powered off: every channel and selection is lost.
CardOff == cardActive' = FALSE /\ cardOpen' = {} /\ selected' = {}

Call(op) == /\ phase = "Loaded" /\ calls < MaxCalls
            /\ lastOp' = op /\ calls' = calls + 1

\* An exchange may fail on the line when faults are allowed; with no card
\* in session there is no procedure byte and it always fails.
LineFails == ExchangeFaults \/ ~cardActive

Init ==
    /\ phase = "Unloaded"
    /\ simOn = 0 /\ rst = 0
    /\ cardActive = FALSE /\ cardOpen = {} /\ selected = {}
    /\ held = {} /\ closed = {}
    /\ lastOp = "none" /\ ret = 0 /\ calls = 0

\* libapduinterface_init: both control lines low, UART installed and the
\* entry points filled in (lines 393-398), so that the host may call them.
DriverInit ==
    /\ phase = "Unloaded"
    /\ phase' = "Loaded"
    /\ simOn' = 0 /\ rst' = 0 /\ CardOff
    /\ ret' = 0
    /\ UNCHANGED <<hostVars, lastOp, calls>>

\* libapduinterface_fini: UART removed, both control lines low.
DriverFini ==
    /\ phase = "Loaded"
    /\ phase' = "Finished"
    /\ simOn' = 0 /\ rst' = 0 /\ CardOff
    /\ held' = {} /\ closed' = {}
    /\ UNCHANGED <<lastOp, ret, calls>>

(***************************************************************************)
(* _reset_card: RESET and SIM_ON low (the card is deactivated), then SIM_ON *)
(* high, the UART flushed and RESET high.  The card then answers its reset. *)
(***************************************************************************)
ResetCard == simOn' = 1 /\ rst' = 1 /\ cardOpen' = {} /\ selected' = {}

(***************************************************************************)
(* apdu_interface_connect: one reset and ATR wait; on a valid ATR the       *)
(* terminal-capabilities APDU is exchanged and its result returned (its     *)
(* status word is not looked at).                                            *)
(***************************************************************************)
Connect ==
    /\ Call("connect")
    /\ ResetCard
    /\ held' = {} /\ closed' = {}
    /\ \E atrOk \in BOOLEAN :
          /\ cardActive' = atrOk
          /\ \/ atrOk /\ ret' = 0
             \/ (~atrOk \/ ExchangeFaults) /\ ret' = -1
    /\ UNCHANGED phase

\* apdu_interface_disconnect: both control lines low.
Disconnect ==
    /\ Call("disconnect")
    /\ simOn' = 0 /\ rst' = 0 /\ CardOff
    /\ held' = {} /\ closed' = {}
    /\ UNCHANGED <<phase, ret>>

\* Mutant of SelectAccepted: the status word not checked.
SelectAcceptedAny(sw) == TRUE

\* The SELECT answer is accepted when SW1 is 0x90 or 0x61 (lines 325-333).
SelectAccepted(sw) == sw[1] \in {144, 97}

\* What the card does with SELECT answered sw on class byte cla.
CardSelect(sw, cla) == IF Completed(sw) THEN selected \cup {cla % 4}
                                        ELSE selected

(***************************************************************************)
(* apdu_interface_logic_channel_open.  MANAGE CHANNEL open; the answer must *)
(* be 3 bytes with SW1 0x9X and its first byte is the channel (lines        *)
(* 294-309).  SELECT is sent on that channel; its SW1 decides (310-335).    *)
(* A card refusing to open a channel answers a bare status word (rx_len 2). *)
(***************************************************************************)
OpenChannel ==
    /\ Call("open")
    /\ LET free == CardChannels \ cardOpen IN
       \/ \* no card in session: no answer
          /\ ~cardActive /\ ret' = -1
          /\ UNCHANGED <<cardOpen, selected>>
       \/ \* MANAGE CHANNEL fails on the line; the card may have opened one
          /\ cardActive /\ ExchangeFaults /\ ret' = -1
          /\ \E ch \in free \cup {0} : cardOpen' = cardOpen \cup ({ch} \ {0})
          /\ UNCHANGED selected
       \/ \* the card refuses: a 2-byte answer
          /\ cardActive /\ ret' = -1
          /\ UNCHANGED <<cardOpen, selected>>
       \/ \E ch \in free :
          /\ cardActive
          /\ cardOpen' = cardOpen \cup {ch}
          /\ LET cla == PatchCla(SELECT_CLA, ch) IN
             \/ \* SELECT fails on the line, before or after the card ran it
                /\ ExchangeFaults /\ ret' = -1
                /\ \/ UNCHANGED selected
                   \/ \E sw \in SelectSWs : selected' = CardSelect(sw, cla)
             \/ \E sw \in SelectSWs :
                /\ selected' = CardSelect(sw, cla)
                /\ ret' = IF SelectAccepted(sw) THEN ch ELSE -1
    /\ held' = IF ret' > 0 THEN held \cup {ret'} ELSE held
    /\ UNCHANGED <<phase, simOn, rst, cardActive, closed>>

(***************************************************************************)
(* apdu_interface_logic_channel_close: nothing for channel 0; otherwise the *)
(* fixed close APDU is exchanged and its result ignored (lines 338-346).    *)
(* The host no longer holds the channel either way.                         *)
(***************************************************************************)
CloseCmd(ch) == APDU_CLOSELOGICCHANNEL

CloseChannel ==
    /\ Call("close")
    /\ \E ch \in held \cup {0} :
          /\ IF ch = 0
             THEN UNCHANGED <<cardOpen, selected>>
             ELSE LET t == CloseTarget(CloseCmd(ch))
                      done == cardActive /\ t # 0 /\ t \in cardOpen
                  IN  \/ /\ done
                         /\ cardOpen' = cardOpen \ {t}
                         /\ selected' = selected \ {t}
                      \/ /\ ~done \/ ExchangeFaults
                         /\ UNCHANGED <<cardOpen, selected>>
          /\ held' = held \ {ch}
          /\ closed' = IF ch = 0 THEN closed ELSE closed \cup {ch}
    /\ UNCHANGED <<phase, simOn, rst, cardActive, ret>>

(***************************************************************************)
(* apdu_interface_transmit: a 264-byte buffer is allocated (malloc may      *)
(* fail) and the command exchanged; the card's state is that of the         *)
(* command's application, which this model does not track.                 *)
(***************************************************************************)
Transmit ==
    /\ Call("transmit")
    /\ \/ ret' = -1                               \* malloc failed
       \/ LineFails /\ ret' = -1
       \/ cardActive /\ ret' = 0
    /\ UNCHANGED <<phase, simOn, rst, cardVars, hostVars>>

Next ==
    \/ DriverInit \/ DriverFini
    \/ Connect \/ Disconnect \/ OpenChannel \/ CloseChannel \/ Transmit

Spec == Init /\ [][Next]_vars

(***************************************************************************)
(* Properties.                                                               *)
(***************************************************************************)
TypeOK ==
    /\ phase \in {"Unloaded", "Loaded", "Finished"}
    /\ simOn \in {0, 1} /\ rst \in {0, 1} /\ cardActive \in BOOLEAN
    /\ cardOpen \subseteq CardChannels /\ selected \subseteq 0..3
    /\ held \subseteq CardChannels /\ closed \subseteq CardChannels
    /\ lastOp \in {"none", "connect", "disconnect", "open", "close", "transmit"}
    /\ ret \in {-1, 0} \cup CardChannels /\ calls \in 0..MaxCalls

(***************************************************************************)
(* Every channel the host holds (open() returned it, close() has not been   *)
(* given it, no reset since) is open on the card with the application       *)
(* selected on it, across any sequence of calls, refusals and line faults. *)
(***************************************************************************)
HeldChannelsUsable == held \subseteq cardOpen \cap selected

(***************************************************************************)
(* Spec sections 4.4 and 8: close(ch) exchanges MANAGE CHANNEL close on ch; *)
(* a channel the host closed in a session without line faults is no longer *)
(* open on the card.                                                         *)
(***************************************************************************)
ClosedChannelIsClosed == closed \cap cardOpen = {}

(***************************************************************************)
(* Every channel open on the card other than the basic channel is one the  *)
(* host holds or has closed, so that it can close it: open() leaks none.    *)
(***************************************************************************)
NoLeakedChannel == cardOpen \subseteq held \cup closed
=============================================================================
