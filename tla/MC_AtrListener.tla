--------------------------- MODULE MC_AtrListener ---------------------------
EXTENDS AtrListener

\* T0 = 0x02: no interface bytes, two historical bytes.
AtrPlain == <<59, 2, 20, 80>>
\* T0 = 0x90: TA1 and TD1; TD1 announces TD2, which announces TA3 (T=15),
\* then TCK.  The listener reads TA1 and TD1 and leaves the rest to the drain.
AtrChained == <<59, 144, 150, 128, 31, 198, 94>>
\* The plain ATR cut off after its first historical byte.
AtrTruncated == <<59, 2, 20>>
\* The chained ATR cut off before TA3 and TCK, and after TD1.
AtrChainedCut == <<59, 144, 150, 128, 31>>
AtrChainedShort == <<59, 144, 150, 128>>
\* T0 = 0x90 cut off after TA1, inside T0's own group.
AtrGroupCut == <<59, 144, 150>>
\* An inverse-convention card: TS 0x3F is received as 0x03.
AtrInverse == <<3, 2, 20, 80>>

\* T0 = 0x3B: TA1, TB1 and eleven historical bytes.  The listener skips T0
\* as a repeated TS and reads TA1 as T0.  TA1 is every legal (Fi, Di) pair
\* of ISO/IEC 7816-3 tables 7 and 8 (Fi index 0-6 or 9-13, Di index 1-9).
LegalTA1 == {f * 16 + d : f \in (0..6) \cup (9..13), d \in 1..9}
AtrT0IsTS(ta1) == <<59, 59, ta1, 0>> \o [k \in 1..11 |-> 128]

MCATRs == {AtrPlain, AtrChained, AtrTruncated, AtrChainedCut, AtrChainedShort,
           AtrGroupCut, AtrInverse, <<>>}
          \cup {AtrT0IsTS(ta1) : ta1 \in LegalTA1}
=============================================================================
