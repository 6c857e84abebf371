--------------------------- MODULE MC_ApduLength ---------------------------
(***************************************************************************)
(* Checks ToRecv against the case table ExpectedLength for every command    *)
(* of a bounded shape: a fixed CLA INS P1 P2, then P3 and up to MaxBody      *)
(* further bytes drawn from Bytes.                                           *)
(***************************************************************************)
EXTENDS ApduLength

CONSTANTS Bytes,      \* values for P3 and the body bytes
          MaxBody,    \* longest body after P3
          JunkBytes   \* values of the byte read past the end (line 127)

VARIABLES tx, junk

\* CLA INS P1 P2 of a SELECT (APDU_SELECT_HEADER); they do not affect to_recv.
Header4 == <<0, 164, 4, 0>>

Commands == UNION { { Header4 \o s : s \in [1..k -> Bytes] } : k \in 1..(MaxBody + 1) }

Init == tx \in Commands /\ junk \in JunkBytes

\* Each state is one input; the check is the invariant on it.
Next == UNCHANGED <<tx, junk>>

Spec == Init /\ [][Next]_<<tx, junk>>

TypeOK == tx \in Seq(0..255) /\ Len(tx) >= 5 /\ junk \in 0..255

(***************************************************************************)
(* The length _transmit_raw waits for is exactly the one the command's case  *)
(* calls for (lines 113-176 against spec 4.3 step 4): an exact count when Le *)
(* is given, the sentinel 65535 when Le is 0 (256 or 65536, "all") or the   *)
(* encoding is none of the cases, over short and extended encodings, bodies *)
(* whose length disagrees with Lc, and Le values up to 0xFFFF.  Whether the *)
(* receive loop then checks that length (line 198) is a separate matter:   *)
(* an extended Le of 0xFFFD gives 65535 too, and is not checked.            *)
(***************************************************************************)
ToRecvMatchesCaseTable ==
    LET t == ToRecv(tx, junk)
        e == ExpectedLength(tx)
    IN  t = IF e = ExpectAll THEN Undetermined ELSE e
=============================================================================
