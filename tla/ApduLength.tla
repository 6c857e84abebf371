---------------------------- MODULE ApduLength ----------------------------
(***************************************************************************)
(* The response-length computation of _transmit_raw                         *)
(* (src/driver/apdu/espidf.c, lines 113-176): how many bytes, status word    *)
(* included, the driver waits for after a command has been sent.  A command  *)
(* is a sequence of bytes (naturals below 256) of length tx_len.              *)
(***************************************************************************)
EXTENDS Integers, Sequences

\* The value of to_recv meaning "undetermined: read until the first timeout"
\* (line 198 skips the length check for exactly this value).
Undetermined == 65535

\* ntohs(*(uint16_t *)p): a big-endian 16-bit field.
BE16(hi, lo) == hi * 256 + lo

\* Mutants of LeOrAll: the status word not counted; -1 as the sentinel.
LeOrAllNoSW(le) == IF le = 0 THEN Undetermined ELSE le
LeOrAllMinusOne(le) == IF le = 0 THEN -1 ELSE le + 2

\* The repeated "to_recv = Le; if 0 then 65535 else Le + 2" of the code.
LeOrAll(le) == IF le = 0 THEN Undetermined ELSE le + 2

(***************************************************************************)
(* to_recv as the code computes it.  tx[k] in C is tx[k+1] here.  When       *)
(* tx_len = 6 and tx[4] = 0 the code reads tx[6] in C, one byte past the     *)
(* command; that byte is undefined and is the parameter junk.                 *)
(***************************************************************************)
ToRecv(tx, junk) ==
    LET n == Len(tx)
        B(i) == IF i <= n THEN tx[i] ELSE junk
    IN  IF tx[5] = 0 /\ n > 5
        THEN \* extended length
             IF n = 7 THEN LeOrAll(BE16(tx[6], tx[7]))     \* HEADER | LE
             ELSE LET bodyLen == (n - 4) % 65536           \* uint16_t body_len
                      lc == BE16(tx[6], B(7))
                  IN  CASE lc # bodyLen - 3 /\ lc # bodyLen - 5 -> Undetermined
                        [] n = 7 + lc -> 2                 \* HEADER | LC | DATA
                        [] OTHER -> LeOrAll(BE16(tx[n - 1], tx[n]))
        ELSE IF n = 5 THEN LeOrAll(tx[5])                  \* HEADER | LE
        ELSE LET bodyLen == n - 4
                 lc == tx[5]
             IN  CASE lc # bodyLen - 1 /\ lc # bodyLen - 2 -> Undetermined
                   [] n = 5 + lc -> 2                      \* HEADER | LC | DATA
                   [] OTHER -> LeOrAll(tx[n])

(***************************************************************************)
(* Reference: the case table of spec section 4.3 step 4 (ISO/IEC 7816-4      *)
(* command encodings), written independently of the code.  It yields the    *)
(* exact number of bytes to expect, or "all" when Le is 0 (256 or 65536,     *)
(* "undetermined") or the encoding is none of the cases.                     *)
(***************************************************************************)
\* "all": no exact length (a count can never be negative).
ExpectAll == -1

ExpectedLength(tx) ==
    LET n == Len(tx)
        ShortLe(le) == IF le = 0 THEN ExpectAll ELSE le + 2
        IsShort == tx[5] # 0 \/ n = 5
        Lc == IF IsShort THEN tx[5] ELSE BE16(tx[6], tx[7])
        LcStart == IF IsShort THEN 6 ELSE 8      \* first data byte
    IN  CASE n = 5 -> ShortLe(tx[5])                           \* case 2S
          [] ~IsShort /\ n = 7 -> ShortLe(BE16(tx[6], tx[7]))   \* case 2E
          [] ~IsShort /\ n < 7 -> ExpectAll                    \* malformed
          [] n = LcStart - 1 + Lc -> 2                         \* case 3
          [] IsShort /\ n = LcStart + Lc -> ShortLe(tx[n])      \* case 4S
          [] ~IsShort /\ n = LcStart + 1 + Lc ->                \* case 4E
                ShortLe(BE16(tx[n - 1], tx[n]))
          [] OTHER -> ExpectAll                                \* malformed

\* Line 198: the received length is checked against to_recv unless it is
\* the sentinel.
LengthChecked(toRecv) == toRecv # Undetermined
=============================================================================
