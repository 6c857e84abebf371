# TLA+ models of the ESP-IDF eUICC drivers

This directory holds TLA+ models of the two drivers in `src/`. The modules are checked with TLC.

- `src/driver/apdu/espidf.c` drives an eSIM chip over a single-wire, half-duplex UART using ISO 7816-3 T=0.
- `src/driver/http/espidf.c` carries the host library's HTTPS requests through `esp_http_client`.

## The system

The APDU driver has five parts. They are called one at a time by the host library (the `euicc` library, not in this repository).

| Part | Code | State | Operations |
|---|---|---|---|
| Power sequencer | `_reset_card`, `apdu_interface_disconnect` (26-37, 283-286) | levels of SIM_ON and RESET; the card's session | deactivate, cold reset |
| ATR listener | `_wait_for_card` (210-265) | the UART receive buffer; TS, T0, counters | read TS, skip repeated TS, read T0, interface bytes, historical bytes, settle and drain |
| APDU transceiver | `_send_and_clear_echo`, `_transmit_raw` (39-208) | UART buffer (echo and card bytes), the procedure-byte loop, `to_recv`, `rx` | write header, clear echo, procedure byte (ACK / NULL / SW1), SW2, "nothing after SW", write body, clear echo, compute `to_recv`, receive loop, length check |
| Logical channel manager | `apdu_interface_logic_channel_open/close` (288-346) | the card's open channels and selections | MANAGE CHANNEL open, SELECT on the new channel, MANAGE CHANNEL close |
| Driver facade | `libapduinterface_init/fini`, `apdu_interface_connect`, `apdu_interface_transmit` (267-281, 348-404) | driver loaded or not | init, fini, connect, transmit |

How the parts interact:

- `connect` runs the power sequencer, then the ATR listener. It then sends the terminal-capabilities APDU through the transceiver.
- `open`, `close` and `transmit` each run one or two transceiver exchanges.
- The UART buffer is shared by every exchange. It is flushed only in `_reset_card`. This makes the order of bytes across exchanges part of the state.

The code itself has no concurrency. The interleavings that matter are those between the driver's reads and the card's bytes, with their timeouts:

- a byte that arrives after its read gave up;
- an echo that is garbled on the line;
- NULL bytes at any point in the exchange.

## Modules

| Module | Models | Kind |
|---|---|---|
| `ApduLength` | `to_recv` (lines 113-176) as the operator `ToRecv`; the length check (198) | pure operators, with an independent ISO 7816 case table `ExpectedLength` |
| `T0Transceiver` | `_send_and_clear_echo` and `_transmit_raw`, byte by byte, for a sequence of exchanges | state machine plus card environment |
| `AbstractExchange` | what one exchange promises: it fails, or it returns exactly the card's answer | abstract specification |
| `AtrListener` | `_wait_for_card` | state machine plus card environment |
| `AwaitAtr` | what the listener promises, `await_atr() -> Ready \| Error`, judged on the spec's ATR descriptor (`DescriptorLength`, `CompleteAtr`) | abstract specification |
| `ApduInterface` | init, fini, connect (with `_reset_card`), disconnect, open, close, transmit, with each exchange atomic | composition of the facade, power sequencer and channel manager |
| `HttpTransmit` | the HTTP driver: init, transmit, the event handler, fini, with the heap blocks the response buffer lives in | state machine plus `esp_http_client` environment |
| `HttpContract` | what `transmit` promises the host: each call is answered once, with the final body or an error | abstract specification |
| `MC_*` | the constants of each model: byte sequences as definitions, since `.cfg` files cannot hold tuples | model-checking instances |

### T0Transceiver

`pc` follows `_transmit_raw`: `Idle`, `HdrEcho`, `Proc`, `Sw2`, `Nil`, `BodyEcho`, `Recv`, `Done`. Each driver action is one read or write of the code, with its guards and error returns:

| Action | Lines |
|---|---|
| `Transmit` | 62-75 |
| `HeaderEcho` | 72-75 |
| `ProcedureByte` | 76-106 |
| `ReadSw2` | 88-94 |
| `ReadNil` | 95-105 |
| `BodyEcho` | 107-112 |
| `RecvByte` | 182-197 |
| `RecvEnd` | 198-208 |

Some details of the code kept in the model:

- The echo comparison is `strncmp` (`StrNCmpEq`). It stops at a 0x00 byte.
- A NULL is dropped only when `to_recv == 2` (`Skipped`).
- `to_recv` is computed by `ApduLength!ToRecv`.

`rxq` is the UART buffer. It holds the loopback echo of every write, followed by the card's bytes.

The card (`CardAnswers`, `CardSend`) decides its whole answer when it receives a header: NULLs, ACK or status word, data. It sends the answer one byte at a time. It follows T=0 (ISO/IEC 7816-3 section 12.2, `ReplyData`): only a header-only command (case 1 or 2) gets data in its answer. A command with a body (case 3, or case 4 sent as its case 3 TPDU) is answered by a status word alone, and case 4 data is announced with 61 XX.

Timeouts are nondeterministic. `CanTimeOut` holds when the buffer is empty and either the card has nothing left to send or `LateBytes` is set. `LateBytes` stands for a card slower than the read's deadline.

`Wire` lets the line garble at most `MaxNoise` writes. There are three kinds of fault:

- "line": the card and the echo both see a corrupted byte;
- "echo": only the echo is corrupted;
- "drop": an echo byte is lost.

`ImplementsExchange` maps the byte-level model onto `AbstractExchange`. The mapping:

- `pc` is seen only at the call boundary.
- `cardResp` is the promised answer.
- `rx` and `ok` are observed at `Done`.

This refinement is what allows `ApduInterface` to treat an exchange as a single step.

### AtrListener

`pc` follows the loops of `_wait_for_card`: `First`, `Marker`, `Iface`, `Hist`, `Settle`, then `Ready` or `Failed`. `i` is the loop counter.

The card sends one ATR from `ATRs`, with up to `MaxRepeat` extra TS bytes. The card is timely: the settle wait (`Settled`) ends after it has sent everything.

The listener is checked against `AwaitAtr`, an abstract `await_atr` in which one `Decide` step ends the wait in `Ready` exactly when the card's answer is a whole ATR descriptor, and in `Error` otherwise. A whole descriptor is the one defined in spec section 2: TS, then T0, then the interface bytes T0's high nibble selects, then K = T0 & 0x0F historical bytes. The refinement mapping (`Outcome`) sends `pc = Ready` to `Ready`, `pc = Failed` to `Error`, and every other `pc` to `Pending`; `atr` and `ATRs` map to themselves. `ImplementsAwaitAtr` is `AwaitAtr`'s specification, including its fairness, so the run also checks that the wait always ends. This is what lets `ApduInterface` treat the ATR wait in `Connect` as one atomic choice.

The descriptor is the spec's promise, not full ISO/IEC 7816-3. Interface bytes that a TDi announces beyond T0's own group, and TCK, are left to the final drain by both the spec and the code. So an ATR cut off after TD1 (`3B 90 96 80`) or before TCK is taken for ready, and the ATR set includes such cuts. An ATR cut inside T0's own group (`3B 90 96`) is rejected.

The ATR set includes every ATR `3B 3B TA1 00` followed by eleven historical bytes, with TA1 any legal (Fi, Di) pair. The listener skips that T0 as a repeated TS and reads TA1 as T0. TLC shows this misreading never makes it wait for a byte the card does not send: the largest legal TA1 needs exactly the 12 bytes left. With an RFU Di, for example `TA1 = 0xBA`, a whole descriptor is rejected. The check is the same run with Di ranging over 1..15.

### ApduInterface

The model has three groups of state:

- the control lines: `simOn`, `rst`;
- the card: `cardActive`, `cardOpen`, `selected`;
- the host's view: `held`, the channels `open` returned; `closed`, the channels given to `close`.

An exchange either returns the card's answer or, when `ExchangeFaults` is set, fails. A failed exchange may fail before or after the card acted on the command, so a channel may be opened or an application selected even though the call fails.

The card is modelled on ISO 7816-4 (`CloseTarget`, `Completed`, `CardSelect`):

- MANAGE CHANNEL close closes the channel named by P2, or the channel of CLA when P2 is not a channel number.
- SELECT selects the application when SW1 is 90, 61, 62 or 63.

### HttpTransmit

The HTTP driver keeps three globals across calls (lines 16-18): `output_buffer`, `output_len`, `receive_len`. `transmit` resets them, configures a client (POST when a body is given, one header per `Key: Value` line, with the value taken at `delimiter + 2`) and runs `esp_http_client_perform`. `perform` calls `_http_event_handler` back for each event. Only `ON_DATA` changes anything; the other events log. `transmit` leaves `disable_auto_redirect` unset (`config = {0}`, lines 89-96). `esp_http_client` therefore follows a redirect itself, reads the 3xx response's body through the same `ON_DATA` handler, and never dispatches `HTTP_EVENT_REDIRECT`. The `REDIRECT` case of the handler (lines 78-81) is unreachable from `transmit` and has no action.

| Action | Lines |
|---|---|
| `HttpInit` | 165-190 |
| `TransmitStart` | 86-124 |
| `OnData` | 37-64 |
| `OnLogEvent` | 24-36, 65-77 |
| `PerformEnd` | 126-163 |
| `HostFree` | the host library freeing a response it was given |
| `HttpFini` | 194-204 |

The library is the environment. At the start of a call it fixes the events `perform` will deliver (`plan`):

- for a followed redirect, one `ON_DATA` per chunk of the 3xx response's body, drawn from `RedirectBodies`;
- one `ON_DATA` per chunk of the final body;
- when `perform` fails, any prefix of those events.

`ON_DATA` counts the chunk into `receive_len` before anything else. `malloc` and `realloc` may fail when `AllocFaults` is set. A failed `realloc` sets `output_buffer` to NULL and leaves the old block allocated, and the next chunk starts a new buffer. The handler's `ESP_FAIL` return is taken to be ignored by `perform`. `OnLogEvent` consumes the events the handler only logs: connection and headers before the data, and finish or disconnect after it.

`PerformEnd` follows the three branches of lines 126-162. Lost data and a failed `perform` free the buffer. On success a non-empty buffer is handed over as `rx`. An empty success returns `rx` NULL and leaves `output_buffer` as it is.

The driver is checked against `HttpContract`, an abstract `transmit`: `Call` picks the server's body, and `Return` answers with exactly that body or with an error. The refinement mapping sends `pc` to `Busy`/`Idle`, the server's final body (`Received`) to `reply`, and what the host holds (`HostResult`: the status, the `rx_len - 1` bytes of `rx`) to `result`. Every other step of the driver, including `HostFree`, `HttpInit` and `HttpFini`, must leave that view unchanged.

`heap` is the sequence of every block allocated, each with its owner (`driver`, `host`, `freed`), its size and its contents. A block handed out as `rx` becomes the host's. `badFree` records the driver freeing a block it does not own.

## Runs

| Run | Result | What it shows |
|---|---|---|
| apdulength_casetable | pass | `ToRecv` equals the case table's length, or 65535 for "all", for every 4-byte header followed by 1 to 6 bytes from {00, 01, 02, FD, FF}. The byte past the end of the command is 0 or 255. This covers short and extended encodings, Lc agreeing or not, Le up to FFFF, and the out-of-bounds read at `tx_len` 6. |
| transceiver_refinement | pass | Five command shapes (too short, case 2 with Le 0, case 2, case 3, and case 4 with Le 0 as the host library sends it), a T=0 card, two exchanges, NULLs, and 3 status words. `TypeOK` holds and the refinement holds, with its liveness. |
| transceiver_termination | pass | Every call returns under all three line faults and late bytes. |
| transceiver_nulldata | violation | A NULL after the ACK of a command expecting data becomes response data. |
| transceiver_sw6160 | violation | The status word 61 60 loses its SW2 and a legal exchange fails. |
| atr_ready | pass | `_wait_for_card` implements `await_atr` (`ImplementsAwaitAtr`): it always ends, and it ends ready exactly when the spec's ATR descriptor was sent. This includes repeated TS bytes, chained and cut chained ATRs, and every legal ATR whose T0 is 0x3B. |
| interface_channels | pass | Over 5 calls with faults, every held channel is open and selected. |
| interface_close | violation | `close` sends CLA 00, so the channel stays open. |
| interface_leak | violation | A failed SELECT leaks the opened channel. |
| http_transfer | pass | Over two calls with empty, one-, two- and three-chunk bodies, errors and failing allocations, with no redirect or one whose 3xx response has no body, the driver implements `transmit`'s contract (`ImplementsHttpContract`). Every call returns, either -1 or 0 with exactly the final body, and the response the host holds is not altered before the next call returns. The buffer always has room for the data and the terminator (`BuffersInBounds`). The driver never writes into a block it has handed to the host or freed (`NoWriteAfterHandover`); only the reset at line 120 guarantees this. |
| http_fini_double_free | violation | After a successful call `output_buffer` still points at the host's `rx`, and `fini` frees it. |
| http_redirect_body | violation | The body of a followed 3xx response reaches `ON_DATA` and is returned as the response, or ahead of the final body (`ImplementsHttpContract`). |

Some further results are recorded in `PROJECT.json` as hazards without a run of their own, because the run budget is spent elsewhere:

- An extended Le of 0xFFFD makes `to_recv` equal the 65535 sentinel, so line 198 skips the length check. `ToRecvMatchesCaseTable` holds, because the case table expects 65535 bytes too. An invariant comparing `LengthChecked` with a determined length is violated by `00 A4 04 00 00 FF FD`.
- A case 4 command with Le other than 0 fails against a T=0 card: the card answers 61 XX alone, and the driver waits for Le + 2 bytes. With STORE DATA Le = 2, `ImplementsExchange` is violated. The host library sends case 4 with Le = 0.
- After a "No ack" timeout the driver returns at once. A card still busy with that command sends its status word during the next exchange, after the header echo. The next call returns that status as its own. `ResponseFromThisExchange` is violated with `LateBytes = TRUE`. A flush before line 72 would not help, because the bytes arrive after the header.
- A card slower than the 500 ms settle wait would leave ATR bytes for the first exchange. ISO 7816-3 allows up to about 1 s between ATR bytes. The model's card is timely.
- With line noise, a corrupted INS after CLA 00 passes the `strncmp` echo check. `ResponseFaithful` is violated when the nulldata configuration is given `MaxNoise = 1, NoiseKinds = {"line"}`.
- A failed `realloc` leaks the old block. `http_transfer` shows the loss is always detected; the leak itself is not checked.

Each violation run is listed under "findings" in `PROJECT.json`.

Each property of a passing run has a mutant in `PROJECT.json`: a plausible bug in a mapped definition that makes the property fail.

## Bounds

- `ApduLength`'s alphabet holds FD and FF, so Le values up to FFFF, the sentinel's neighbourhood included, are reached.
- Commands of at most 7 bytes exercise every branch of `ToRecv` and every phase of `_transmit_raw`:
  - header-only with Le 0 and with Le > 0;
  - ACK with a body;
  - status word at once.
- `MaxNull = 1` lets a NULL appear before each procedure byte and before the status word.
- Two exchanges are the least that shows state carried from one exchange to the next.
- Data bytes {1, 0x60} include the NULL value, so that NULL-like data is exercised.
- `ApduLength` enumerates all commands up to the bound rather than sampling them.
- The facade uses 2 channels and 5 calls. That allows open, open, close, reconnect and similar sequences.
- `AtrListener` covers every legal TA1 (108 values) for the T0 = 0x3B family, not a sample. That makes the no-over-read result exact for that family. One repeated TS is enough to show the skip loop.
- `HttpTransmit` uses bodies of 0, 1, 2 and 3 chunks, with chunk lengths 1 and 2, over 2 calls. A second chunk is the least that exercises `realloc`. A third chunk after a failed `realloc` shows the restarted buffer. The redirect run uses a one-chunk 3xx body. Two calls show the globals carried from one call into the next and into `fini`.

## Fairness

`T0Transceiver` assumes weak fairness of the driver and of `CardSend`:

- The driver is one blocking thread, and every read has a timeout.
- The card keeps sending what it has decided to send.

`AtrListener` has weak fairness on `Next` for the same reason.

`HttpTransmit` has weak fairness on `Perform`, which covers the handler events and the return of `transmit`. The client is configured with `timeout_ms = 60000` (line 92), so `esp_http_client_perform` delivers its events and returns. Nothing obliges the host to call, free or unload, so `TransmitStart`, `HostFree`, `HttpInit` and `HttpFini` are not fair.

`ApduInterface` is checked for safety only, so it assumes no fairness.

The bounded models stop after their last call, so `CHECK_DEADLOCK FALSE` is set:

- `T0Transceiver` after `MaxExchanges`;
- `AtrListener` at `Ready` or `Failed`;
- `ApduInterface` after `fini` or `MaxCalls`;
- `HttpTransmit` after `fini` or `MaxCalls`.

Stopping there is the host ceasing to call, not a driver deadlock.

## Not modelled

- **Durations:** the 500 ms, 3 s, 5 s and 300 ms deadlines are not modelled. A timeout is a nondeterministic choice, limited by `LateBytes`.
- **Transmit length truncation:** `_transmit_raw`'s `uint8_t tx_len` truncates commands of 256 bytes or more. This is listed as a hazard.
- **Receive buffer:** the 264-byte receive buffer is not modelled. This is listed as a hazard.
- **Channel numbers above 3:** CLA patching for channel numbers above 3 is not modelled. This is listed as a hazard.
- **HTTP library:** `esp_http_client` itself (connection, TLS, chunked decoding, following a redirect) is the environment of `HttpTransmit`, not a model.
- **Unchecked allocations and handles:** the certificate `malloc` (line 180) and the `esp_http_client_init` handle (line 98) are assumed non-NULL. Using NULL there is undefined behaviour outside the model.
- **Header values:** headers are parsed by `ClientHeaders`. The host only sends fixed `Key: Value` lines, so a `Key:` line with nothing after it is not an input the program meets.
- **The REDIRECT event:** the handler's `HTTP_EVENT_REDIRECT` case (lines 78-81) is dispatched only with `disable_auto_redirect`, which `transmit` never sets.

## Further work

1. With a free run slot: a slow-card `AtrListener`, showing that ATR bytes outlive the 500 ms settle wait.
2. With a free run slot: facade transmit with an abstract command length, showing the `uint8_t` truncation and the 264-byte receive buffer bound.
3. With a free run slot: the late status word of a timed-out exchange, and case 4 with Le other than 0 (both shown above).
4. A leak property for `HttpTransmit`: every block the driver owns is reachable from `output_buffer`. It is expected to fail on a failed `realloc`.
