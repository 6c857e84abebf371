-------------------------- MODULE MC_T0Transceiver --------------------------
EXTENDS T0Transceiver

\* MANAGE CHANNEL OPEN (case 2, Le = 1), as sent by logic_channel_open.
OpenChannel == <<0, 112, 0, 0, 1>>
\* GET RESPONSE with Le = 0: "all" the card has.
GetResponseAll == <<0, 192, 0, 0, 0>>
\* SELECT of a 2-byte AID on channel 1 (case 3, header | Lc | data).
Select2 == <<1, 164, 4, 0, 2, 170, 187>>
\* STORE DATA with one data byte and Le = 0 (case 4), as the host library
\* sends its ES10 commands.
StoreData == <<128, 226, 145, 0, 1, 17, 0>>
\* A command shorter than a header.
Short == <<0, 164>>

MCCommands == {OpenChannel, GetResponseAll, Select2, StoreData, Short}
\* 9000 normal completion, 6A82 not found, 6110 more data available.
MCSWs == {<<144, 0>>, <<106, 130>>, <<97, 16>>}
\* 6160: 0x60 bytes more data available.
MCSWsWith6160 == MCSWs \cup {<<97, 96>>}
=============================================================================
