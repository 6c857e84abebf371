-------------------------- MODULE MC_HttpTransmit --------------------------
(* Constants of HttpTransmit: chunks of abstract bytes and a header line.  *)
EXTENDS HttpTransmit

ChunkA  == <<"a">>
ChunkBC == <<"b", "c">>
ChunkR  == <<"r">>

\* An empty body, one chunk, two chunks (a second ON_DATA grows the buffer),
\* and three (a realloc that fails at the second leaves the third to a new
\* malloc).
MCBodies == {<<>>, <<ChunkA>>, <<ChunkA, ChunkBC>>, <<ChunkA, ChunkA, ChunkA>>}

\* A 3xx response carrying a one-chunk body.
MCRedirectBodies == {<<ChunkR>>}

\* The host's one header array: "K: V".
MCHostHeaders == {<<<<"K", ":", " ", "V">>>>}
====
