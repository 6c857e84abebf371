--------------------------- MODULE HttpTransmit ----------------------------
(***************************************************************************)
(* The HTTP driver of src/driver/http/espidf.c: init (lines 165-190),      *)
(* transmit (86-163), the event handler esp_http_client_perform calls back  *)
(* while a request runs (22-84), and fini (194-204), with the driver's      *)
(* globals output_buffer, output_len and receive_len (16-18).               *)
(*                                                                           *)
(* esp_http_client is the environment: for each call it picks a final       *)
(* response body (a sequence of chunks, each one ON_DATA event), whether a  *)
(* redirect comes first and whether perform ends in an error; an error may  *)
(* cut the events short.  transmit leaves disable_auto_redirect unset       *)
(* (config = {0}, lines 89-96), so the library follows a redirect itself:   *)
(* it reads the 3xx response's body through the same ON_DATA handler and    *)
(* dispatches no HTTP_EVENT_REDIRECT.  malloc and realloc may               *)
(* fail when AllocFaults holds.  The heap is a sequence of blocks, each     *)
(* owned by the driver or by the host (the rx it was given) or freed.       *)
(***************************************************************************)
EXTENDS Integers, Sequences, SequencesExt

CONSTANTS
    Bodies,         \* final response bodies: sequences of chunks
    RedirectBodies, \* bodies (sequences of chunks) a 3xx response may carry
    HostHeaders,    \* the header arrays h the host passes (lines "Key: Value")
    AllocFaults,    \* TRUE: malloc and realloc may return NULL
    MaxCalls        \* bound on the number of transmit calls

NULL == 0   \* a null pointer; blocks are numbered from 1

VARIABLES
    phase,         \* "Unloaded", "Loaded", "Finished"
    certs,         \* certs_buf # NULL (lines 19-20)
    pc,            \* "Idle", or "Perform" while esp_http_client_perform runs
    request,       \* what transmit configured on the client
    plan,          \* the handler events perform has still to deliver
    err,           \* what perform will return: "ok" or "fail"
    body,          \* the final response body (chunks), as the server sent it
    output_buffer, \* the global of line 16 (a block number or NULL)
    output_len,    \* line 17
    receive_len,   \* line 18
    heap,          \* heap[b] = [st, cap, data] for every block ever allocated
    rx, rxLen, ret,\* the results of the last transmit
    badFree,       \* the driver freed a block it did not own
    calls

vars == <<phase, certs, pc, request, plan, err, body, output_buffer,
          output_len, receive_len, heap, rx, rxLen, ret, badFree, calls>>

DataEv(c) == [kind |-> "data", bytes |-> c]
\* Events the handler only logs: "connected" stands for ON_CONNECTED,
\* HEADER_SENT and ON_HEADER, "finish" for ON_FINISH, DISCONNECTED, ERROR.
LogEv(k)  == [kind |-> k, bytes |-> <<>>]

\* The events of one perform: connection and headers, one ON_DATA per chunk
\* of a redirect response's body r (none without a redirect, or when its
\* body is empty), one per chunk of the final body b, then finish.
Events(b, r) ==
    <<LogEv("connected")>>
    \o [k \in 1..Len(r) |-> DataEv(r[k])]
    \o [k \in 1..Len(b) |-> DataEv(b[k])]
    \o <<LogEv("finish")>>

\* Lines 105-117: a line with a ':' becomes the header key (the text before
\* it) and value (the text from delimiter + 2); other lines are skipped.
Delimiter(h) == SelectInSeq(h, LAMBDA ch : ch = ":")
ClientHeaders(hs) ==
    { <<SubSeq(hs[k], 1, Delimiter(hs[k]) - 1),
        SubSeq(hs[k], Delimiter(hs[k]) + 2, Len(hs[k]))>> :
          k \in {j \in 1..Len(hs) : Delimiter(hs[j]) # 0} }

\* Mutant of AllocSize: no room for the terminator.
AllocSizeNoNul(ol, len) == ol + len

\* malloc(data_len + 1) and realloc(.., output_len + data_len + 1), 41, 52.
AllocSize(ol, len) == ol + len + 1

Init ==
    /\ phase = "Unloaded" /\ certs = FALSE /\ pc = "Idle"
    /\ request = [post |-> FALSE, headers |-> {}]
    /\ plan = <<>> /\ err = "ok" /\ body = <<>>
    /\ output_buffer = NULL /\ output_len = 0 /\ receive_len = 0
    /\ heap = <<>> /\ rx = NULL /\ rxLen = 0 /\ ret = 0
    /\ badFree = FALSE /\ calls = 0

(***************************************************************************)
(* espidf_httpinterface_init: SPIFFS is mounted and the certificate file   *)
(* read into certs_buf when both succeed (the malloc of line 180 is        *)
(* assumed to succeed: its result is not checked).                          *)
(***************************************************************************)
HttpInit ==
    /\ phase = "Unloaded"
    /\ phase' = "Loaded"
    /\ certs' \in BOOLEAN
    /\ UNCHANGED <<pc, request, plan, err, body, output_buffer, output_len,
                   receive_len, heap, rx, rxLen, ret, badFree, calls>>

\* Mutant of ResetGlobals: output_buffer not cleared before perform.
ResetGlobalsKeepBuffer ==
    UNCHANGED output_buffer /\ output_len' = 0 /\ receive_len' = 0

\* Lines 120-122, before perform.
ResetGlobals == output_buffer' = NULL /\ output_len' = 0 /\ receive_len' = 0

(***************************************************************************)
(* transmit up to perform (lines 89-124): the client is configured (POST   *)
(* when tx is given, the host's headers), the globals are reset, and       *)
(* perform starts.  The environment fixes what perform will deliver.       *)
(***************************************************************************)
TransmitStart ==
    /\ phase = "Loaded" /\ pc = "Idle" /\ calls < MaxCalls
    /\ \E tx \in BOOLEAN, hs \in HostHeaders :
          request' = [post |-> tx, headers |-> ClientHeaders(hs)]
    /\ \E b \in Bodies, r \in {<<>>} \cup RedirectBodies, e \in {"ok", "fail"} :
          /\ body' = b /\ err' = e
          /\ plan' \in IF e = "ok" THEN {Events(b, r)}
                                   ELSE Prefixes(Events(b, r))
    /\ ResetGlobals
    /\ pc' = "Perform" /\ calls' = calls + 1
    /\ UNCHANGED <<phase, certs, heap, rx, rxLen, ret, badFree>>

(***************************************************************************)
(* HTTP_EVENT_ON_DATA (lines 37-64).  receive_len counts the chunk first.  *)
(* With no buffer a new one is allocated and output_len reset; otherwise   *)
(* the buffer is grown.  When realloc fails output_buffer is set to NULL   *)
(* and the old block is lost; the handler returns and the chunk is not     *)
(* copied.  Otherwise the chunk is appended at output_len.                  *)
(***************************************************************************)
OnData ==
    /\ pc = "Perform" /\ plan # <<>> /\ Head(plan).kind = "data"
    /\ LET c == Head(plan).bytes IN
       /\ receive_len' = receive_len + Len(c)
       /\ \/ /\ output_buffer = NULL
             /\ \/ /\ AllocFaults
                   /\ UNCHANGED <<output_buffer, heap>>
                   /\ output_len' = 0
                \/ /\ output_buffer' = Len(heap) + 1
                   /\ heap' = Append(heap, [st |-> "driver",
                                            cap |-> AllocSize(0, Len(c)),
                                            data |-> c])
                   /\ output_len' = Len(c)
          \/ /\ output_buffer # NULL
             /\ \/ /\ AllocFaults
                   /\ output_buffer' = NULL
                   /\ UNCHANGED <<output_len, heap>>
                \/ /\ heap' = [heap EXCEPT ![output_buffer] =
                        [@ EXCEPT !.cap = AllocSize(output_len, Len(c)),
                                  !.data = SubSeq(@, 1, output_len) \o c]]
                   /\ output_len' = output_len + Len(c)
                   /\ UNCHANGED output_buffer
    /\ plan' = Tail(plan)
    /\ UNCHANGED <<phase, certs, pc, request, err, body, rx, rxLen, ret,
                   badFree, calls>>

\* The other events (lines 24-36, 65-77) are logged; DISCONNECTED also
\* clears the TLS layer's last error.  The driver's state is untouched.
OnLogEvent ==
    /\ pc = "Perform" /\ plan # <<>>
    /\ Head(plan).kind \in {"connected", "finish"}
    /\ plan' = Tail(plan)
    /\ UNCHANGED <<phase, certs, pc, request, err, body, output_buffer,
                   output_len, receive_len, heap, rx, rxLen, ret, badFree,
                   calls>>

\* Mutant of DataComplete: the lost-data check left out.
DataCompleteAlways(ol, rl) == TRUE

\* Line 126: every byte received was copied into the buffer.
DataComplete(ol, rl) == ol = rl

FreeBlock(b) == [heap EXCEPT ![b].st = "freed"]

(***************************************************************************)
(* The rest of transmit (lines 126-162), once perform has returned.  Lost  *)
(* data fails the call and frees the buffer; on success a non-empty buffer *)
(* is NUL-terminated and handed to the host as rx (output_buffer keeps     *)
(* pointing at it), an empty one is left as it is; on error the buffer is  *)
(* freed.                                                                   *)
(***************************************************************************)
PerformEnd ==
    /\ pc = "Perform" /\ plan = <<>>
    /\ LET ok   == DataComplete(output_len, receive_len) /\ err = "ok"
           give == ok /\ output_len > 0 /\ output_buffer # NULL
       IN /\ ret' = IF ok THEN 0 ELSE -1
          /\ rx' = IF give THEN output_buffer ELSE NULL
          /\ rxLen' = IF give THEN output_len + 1 ELSE 0
          /\ heap' = IF give THEN [heap EXCEPT ![output_buffer].st = "host"]
                     ELSE IF ~ok /\ output_buffer # NULL
                          THEN FreeBlock(output_buffer) ELSE heap
          /\ output_buffer' = IF ok THEN output_buffer ELSE NULL
    /\ output_len' = 0 /\ receive_len' = 0
    /\ pc' = "Idle"
    /\ UNCHANGED <<phase, certs, request, plan, err, body, badFree, calls>>

\* The host library frees a response buffer it was given.
HostFree ==
    /\ \E b \in 1..Len(heap) :
          /\ heap[b].st = "host"
          /\ heap' = FreeBlock(b)
    /\ UNCHANGED <<phase, certs, pc, request, plan, err, body, output_buffer,
                   output_len, receive_len, rx, rxLen, ret, badFree, calls>>

(***************************************************************************)
(* espidf_httpinterface_fini (lines 194-204): output_buffer is freed when  *)
(* not NULL, then the certificates, and SPIFFS is unmounted.                *)
(***************************************************************************)
HttpFini ==
    /\ phase = "Loaded" /\ pc = "Idle"
    /\ phase' = "Finished"
    /\ IF output_buffer # NULL
       THEN /\ badFree' = (heap[output_buffer].st # "driver")
            /\ heap' = FreeBlock(output_buffer)
       ELSE UNCHANGED <<badFree, heap>>
    /\ output_buffer' = NULL /\ certs' = FALSE
    /\ UNCHANGED <<pc, request, plan, err, body, output_len, receive_len,
                   rx, rxLen, ret, calls>>

Next ==
    \/ HttpInit \/ TransmitStart \/ OnData \/ OnLogEvent
    \/ PerformEnd
    \/ HostFree \/ HttpFini

(***************************************************************************)
(* esp_http_client_perform returns: the client is configured with a 60 s   *)
(* timeout (line 92), so the events of a request are delivered and perform *)
(* ends.  Nothing obliges the host to call, free or unload.                *)
(***************************************************************************)
Perform == OnData \/ OnLogEvent \/ PerformEnd

Spec == Init /\ [][Next]_vars /\ WF_vars(Perform)

(***************************************************************************)
(* Properties.                                                               *)
(***************************************************************************)
TypeOK ==
    /\ phase \in {"Unloaded", "Loaded", "Finished"} /\ certs \in BOOLEAN
    /\ pc \in {"Idle", "Perform"} /\ err \in {"ok", "fail"}
    /\ output_buffer \in 0..Len(heap) /\ rx \in 0..Len(heap)
    /\ \A b \in 1..Len(heap) : heap[b].st \in {"driver", "host", "freed"}
    /\ output_len \in Nat /\ receive_len \in Nat /\ rxLen \in Nat
    /\ ret \in {0, -1} /\ badFree \in BOOLEAN /\ calls \in 0..MaxCalls

\* The bytes of the final response, in order.
Received == FlattenSeq(body)

\* What the host holds after its last transmit: the status, and the rx_len
\* - 1 bytes of rx before the terminator (none when rx is NULL).
HostResult ==
    [ok   |-> ret = 0,
     data |-> IF rx = NULL THEN <<>> ELSE heap[rx].data,
     len  |-> IF rx = NULL THEN 0 ELSE rxLen - 1]

Contract == INSTANCE HttpContract WITH
    Responses <- {FlattenSeq(b) : b \in Bodies},
    state     <- IF pc = "Perform" THEN "Busy" ELSE "Idle",
    reply     <- Received,
    result    <- HostResult

(***************************************************************************)
(* The driver implements transmit's contract (spec section 6): every call  *)
(* returns, either -1 or 0 with exactly the final body, in order, in rx    *)
(* and its length in rx_len (rx NULL for an empty body); failed allocations *)
(* in the ON_DATA handler and errors cutting the events short never make a *)
(* call return a partial body, and the body of a 3xx response the library  *)
(* follows (lines 37-63 append every ON_DATA chunk) is never returned      *)
(* ahead of the final one; the response the host holds is not altered by   *)
(* the driver until its next call returns.                                  *)
(***************************************************************************)
ImplementsHttpContract == Contract!Spec

(***************************************************************************)
(* Every write into the response buffer stays inside its allocation: the  *)
(* block output_buffer points at has room for output_len bytes and the     *)
(* terminator written at output_len (line 143), and the host may read      *)
(* rx_len bytes of rx, over any sequence of chunks and failed reallocs.    *)
(***************************************************************************)
BuffersInBounds ==
    /\ output_buffer # NULL => output_len + 1 <= heap[output_buffer].cap
    /\ rx # NULL => rxLen <= heap[rx].cap

(***************************************************************************)
(* The driver frees only memory it owns: never a response buffer it has   *)
(* handed to the host as rx, which the host frees or is still reading.     *)
(***************************************************************************)
NoDriverFreeOfHostMemory == ~badFree

(***************************************************************************)
(* The driver never writes into a block it has handed to the host as rx or *)
(* freed: the ON_DATA handler of a later call must not grow or fill the     *)
(* previous response, which output_buffer still points at after a          *)
(* successful transmit (line 142) until line 120 clears it.                 *)
(***************************************************************************)
NoWriteAfterHandover ==
    [][\A b \in 1..Len(heap) :
          heap[b].st # "driver" =>
              heap'[b].data = heap[b].data /\ heap'[b].cap = heap[b].cap]_vars
====
