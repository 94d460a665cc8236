# Verification of blvm-datum

TLA+ models of the DATUM module for blvm-node (`src/`, Rust): what it keeps, what
its tasks do to it, and what must hold. TLC checks the models on small instances;
TLAPS proves the theorems listed below for every value of the constants.

## 1. The system

The module keeps one encrypted TCP connection to a mining pool. It asks the pool
which outputs the coinbase of the next block must have, submits proofs of work,
and answers other modules of the node. Miners never talk to it.

| Part | State | Operations | Correct when |
|---|---|---|---|
| Header codec (`datum_protocol.rs`, `messages.rs`) | `header_xor_key` | `serialize_header`, `deserialize_header`, `from_u8`, `apply_header_xor` | a header is read as it was sent; the keys of the two ends move together |
| Protocol client (`datum_protocol.rs`) | stream (RwLock), ciphers, `send_nonce`, `recv_nonce`, `header_xor_key`, `connected` | `connect`, `send_message`, `receive_message`, `fetch_coinbaser`, `submit_pow` | frames are whole and under consecutive nonces, a message goes to one reader and in order, answers go to who asked, nobody waits for ever |
| Receive loop (`server.rs`) | none of its own | `receive_message` until it fails | it survives every message, and stops when the connection does |
| Message handlers (`handlers.rs`) | none | four parsers, logging hooks | parsers stay in bounds and understand what the pool sends |
| `DatumPool` (`pool.rs`) | client, current coinbase, current template, credentials, `jobs` (never filled) | `connect`, `reconnect`, `set_template`, `fetch_coinbase_payout`, `submit_pow`, getters | the coinbase belongs to the template beside it |
| Coinbase parser (`pool.rs`) | a cursor | `parse_coinbase_response` | every read is in bounds, what is parsed is what was encoded |
| `DatumServer` (`server.rs`) | the pool (RwLock), `running` (RwLock) | `new`, `start`, `handle_event`, status, `submit_pow`, `reconnect_pool` | templates follow events, one receive loop per connection, reconnection possible when needed |
| API (`api.rs`), CLI and events (`module.rs`) | the shared pool | requests and commands | answers are consistent snapshots |
| Templates (`template.rs`), configuration, bootstrap | none | one call of the node, key map | |

**How they interact.** `main` creates the server (which connects) and then starts
it (which spawns the receive loop). Events, API requests and CLI commands run as
tasks of their own. They take the pool's RwLock (for writing in events and
reconnection, for reading elsewhere), then the client's stream lock, which is
always taken for writing, once for sending and once more for receiving. The
receive loop takes only the stream lock, and keeps it while it waits for bytes.

**What is hard.** Tasks of three kinds share a connection without any
correlation of requests and answers. One header key is moved by both directions.
A frame is three writes. Errors leave the key, the nonces and the place in the
stream where they are. There is no timeout and no reconnection. `hazards` in
`PROJECT.json` lists each danger at its line with the properties that watch it.

## 2. Modules

| Module | Content |
|---|---|
| `DatumHeader` | operators: commands, header records, bytes, words as sets of bits, XOR with feedback |
| `HeaderLink`, `MCHeaderLink` | state machine: headers of one connection, one after the other, in both directions, and how long the frame behind each is |
| `PoolMessages`, `MCPoolMessages` | state machine: a payload from the pool goes through the parser of its kind, byte by byte |
| `DatumClient`, `MCDatumClient` | state machine: connections, callers, receive loops, the pool as the peer |
| `Utf8` | operators: `String::from_utf8_lossy`, on bytes |
| `AnswerService` | abstract specification: what the client promises the tasks that call it |
| `DatumServer` | state machine: the server, the pool, its two locks, the tasks of events, requests and commands, startup |
| `SequentialPool` | abstract specification: the pool as an object whose methods run one at a time |
| `PoolHistory`, `MCPoolHistory` | `DatumServer` with two history variables, and its mapping to `SequentialPool` |
| `DatumHeaderProofs`, `HeaderLinkProofs`, `PoolMessagesProofs` | theorems about codec, key feedback, framing and parsers |
| `DatumClientProofs`, `DatumNonceProofs`, `AnswerServiceProofs` | theorems about `DatumClient`: types; nonces, header keys and good messages; the refinement, and from it whose answer a call returns |
| `DatumServerProofs`, `DatumPoolProofs` | theorems about `DatumServer`: types, deadlocks; coinbase, client, receive loops, and the refinement of `SequentialPool` |

How they fit together: `DatumHeader` is extended by `HeaderLink` (bytes of one
connection without concurrency), by `PoolMessages` (bytes of a payload) and by
`DatumClient` (the concurrency, with headers as words). `DatumClient` implements
`AnswerService`. `DatumServer` stands above it and uses a connection as
`AnswerService` describes it: a queue of answers, oldest first, for whoever reads. It
implements `SequentialPool` in turn. The invariants that only proofs need stand in the
modules of the proofs.

Operators with the comment "A bug" are wrong variants of the definition that follows
them, used to see that a property notices the difference. Nothing else uses them.

### DatumHeader and HeaderLink

`SerializeHeader` and `DeserializeHeader` work on four integers 0..255 and keep
the masks of the code: 22 bits of length, 2 reserved bits, three flags, 5 bits of
command. `Truncated(h)` is what survives. For the XOR, four bytes are one word, the
set of its bits that are 1, and exclusive or is symmetric difference.
`ApplyHeaderXor` returns the result and the next key. The next key is the old key
XOR the *result*; the two cancel, so it is the argument (`FeedbackIsInput`). Hence
a sender's next key is the plain header and a receiver's the enciphered one, and a
peer must feed back the header that *crosses*. A peer that runs this very function
loses the key with the first message. `HeaderLink` has the peer that works.

`ClientWrites`, `PeerWrites` and `ReaderTakes` count the bytes behind a header: the
signature of 64 when the header announces one, and the body. `send_message` seals a
body whose *plain* length it put into `cmd_len`, so a frame it writes is a tag (16
bytes) longer than `receive_message_internal` would read. The peer counts what it
sealed. `FrameEnds` says both: a reader takes the peer's frame to its last byte, and
would miss the end of a frame of this code by exactly a tag or (hello message) a
signature.

### PoolMessages

| Model | Code |
|---|---|
| `input` | the payload and the parser it is given to; `sent` is what the pool meant, if nothing happened to it |
| `state` | the field that is read next, or how it ended: `"ok"`, `"error"`, `"panic"` |
| `body`, `at`, `want`, `count`, `value` | `coinbase_data`, `data_offset`, the length byte just read, `output_count`, the value of the output being read |
| `starts` | history: where in `body` each output begins |
| `result` | what is returned |

`parse_coinbase_response` is a cursor with one action per field. Each read has the
check that the code makes before it (`Checked`) and, written down apart, the bounds
the slice needs (`InBounds`): a failed check is an error, a read that passes the check
and leaves the slice is a panic. `OpenCoinbase` is the part before the cursor, with the
terminator that is read at `End` although only `End <= data.len()` was checked. The
handlers' four messages, the handshake's answer and the answer to a submission have a
fixed layout; each is one action with its length check, the bytes it takes and the
bytes it needs. A value wider than a byte is the sequence of its bytes, except the
length of the coinbase data, which decides where the cursor stops.

A text is the bytes of a Rust String, and `from_utf8_lossy` is `Utf8Lossy` of `Utf8`, by
what it does: well-formed characters are kept, everything else becomes U+FFFD. The tag and
the id of a payout are the decoded ones, and the lengths that move the cursor those of the
bytes. `Verdict` has the two texts that `parse_job_validation` makes up, for a refusal
without a reason (`UnknownError`) and for a status it does not know (`UnknownStatus`).

A message that comes with `sent` has the layout in which the pool writes its kind
(`Written`, from the offsets the parsers read at); the inputs of the run are built by
other operators, and TLC compares the two (`SentAssumption`).
`Echo` is the part of the hello message that the answer must repeat, `BadKey` the byte
strings that are no public key. `JobUpdate` has no parser.

### DatumClient

| Model | Code |
|---|---|
| `streamLock[c]` | FIFO queue of `stream`, a tokio RwLock only used for writing; the head holds it |
| `headerKey`, `sendNonce`, `recvNonce`, `cipher`, `connected` | the fields of the same names (`cipher`: both ciphers) |
| `outgoing[c]` | the frame of a task in the middle of its `write_all` calls |
| `link`, `toPool`, `fromPool` | the TCP connection and the frames in it |
| `pc`, `using`, `op`, `reply`, `calls` | where a task is, its client, its request, what it got, how many requests it made |
| `lost`, `crossed` | the read position is inside a frame; history: two headers have crossed |
| `pool...` | the pool: its key, nonces, and requests taken and not answered |

A step is what happens between two awaits that matter. While a task has the
stream lock nobody else touches the key or the nonces, so the small locks around
them are taken and released within a step. `Dial` is `connect` up to the end of
the hello message, `FinishHandshake` its successful end. `Request` calls
`send_message`; `SendPrepare` is the part under the lock up to the first write
(key, nonce, encryption, signature); `SendWrite` or `SendFails` the writes.
`RecvCall` asks for the lock again; `Receive`, `ReceiveGarbled`, `ReceiveEof` are
the three ways a read ends. The receive loop of client `c` is the task `c`.

A frame that is read with the wrong key, or from a place in its middle, has a
random length, flags and command. `ReceiveGarbled` lets it swallow any number of the
frames that are there, none included, and perhaps a part of the next one, use the nonce
up or not, and fail. The header it read is the key it leaves: that of the first frame if the
read began where a frame does, else perhaps noise. From then on the connection is `lost`:
nobody knows where a frame starts, so every later read on it is garbled too, also with the
rest of a single frame. Left out is that noise verifies, decrypts, or ends a read exactly
where a frame ends (one length in 2^22). It may also wait
for bytes that never come, as long as the connection is up: only `TalkingSpec` assumes
that it ends. On a broken connection it ends with the stream; `ReceiveEof` is the read
that finds nothing at all.

**The pool** is outside the repository. It is the peer the client is written for: it
moves key and nonces as the client expects, frames messages as `receive_message`
reads them, and answers requests in order, perhaps with a body the client's
parsers reject (`"malformed"`). It may hang up at any moment. Two
things are granted that the code does not provide: the pool knows the header key
of the hello message (the client sends it *inside* the message whose header it
obscures), and it finds the ends of the client's frames although `cmd_len` leaves
out the 16 bytes of tag (`FrameEnds` of `HeaderLink` has the count). `pool_public_key` is taken as configured, so the hello
header has `is_encrypted_pubkey`.

### AnswerService

The client seen by its callers: per connection whether `connect` has succeeded
(`greeted`), a list of requests that are not answered (`owed`) and of messages that have
arrived (`ready`), per caller whether it is
`"idle"`, has `"asked"` or is `"waiting"`. A caller that waits is handed the oldest
message, whoever it was meant for (`Deliver`, which may also fail on what the message
says). It may fail because the connection is down and nothing is left to read (`HangUp`), or
on bytes that are no message (`Garble`), and for no other reason. A garbled read takes any
number of messages, perhaps none and a part of one, and makes the connection `garbled` for
good: no call on it returns a message any more. So as long as no read was garbled, a call that
fails has taken a message or lost its connection. Nothing of locks, keys, nonces or frames is left.
`Talks` says whether the pool may send what nobody asked for (`Announce`).

`ServesCallers` is `Service!Spec` under the mapping at the end of `DatumClient`:

| `AnswerService` | `DatumClient` |
|---|---|
| `Talks`, `greeted` (`Greeted`) | `Push` is not empty; the clients that are `connected` |
| `ready` (`Ready`) | whose message each frame in `fromPool` is |
| `owed` (`Owed`) | `poolTodo`, then the requests in `toPool`; nothing on a broken connection |
| `garbled` (`Garbled`) | the clients that are `lost` |
| `state` (`Stages`) | `sendLock`, `writing`: asked; `sent`, `recvLock`: waiting; else idle |
| `via`, `calls`, `reply` (`Via`, `Numbers`, `Returned`) | `using`, `calls`, `reply` of the callers; the loops have no part in it |

`SendWrite` implements `Write`, the pool's read of a request is a stutter and its
answer is `Answer`; `Receive` is `Deliver` for a caller and `Discard` for a loop,
`FinishHandshake` is `Greet`; `ReceiveGarbled` is `Garble` or, for a loop, the other half
of `Discard`.

### DatumServer

| Model | Code |
|---|---|
| `waiting`, `readers`, `writer` | the RwLocks of the pool and of `running`; tokio grants requests in their order, so a reader that comes after a waiting writer waits behind it (`Grant`) |
| `client`, `coinbase`, `template`, `configured` | `protocol_client`, `current_coinbase`, `current_template` (templates are numbered), and whether the credentials are there |
| `running` | the field of the same name |
| `conn`, `spawned`, `stopped` | per client: its TCP connection, receive loops spawned and ended |
| `owed` | per client: answers still to come, oldest first |
| `pc`, `using`, `job`, `calls` | a task: its place, its client, its template, how many calls it took up |
| `made` | templates generated |
| `failed`, `paired` | history: a call on the client has failed; the coinbase was fetched for the template that is set, on a client without failed calls |

Tasks are of three kinds: `Handler` (events of `module.rs`), `Requester` (`api.rs`)
and `Operator` (commands of `module.rs`), and there is the task of `main`. A step goes
from one await on a lock or on the network to the next. `Ready` and `Registered` are
the order of `main`: requests of other modules may come as soon as `new` has
registered the API, events and commands after `start` has returned.

An event generates its template (`GenerateTemplate`, which numbers it) and asks for the
pool's lock in a later step (`UpdateBlockTemplate`), so of two events the older template may be
set last.

A connection is what `DatumClient` leaves of it: a fetch or submission (`Send`) adds
an answer to `owed`; whoever reads next takes the oldest one, a caller
(`FetchReturns`, `SubmitReturns`) or a receive loop (`LoopTakes`). The answer to a
fetch is the number of the template whose value was asked for. `CallFails` is any
error of the client or of the response parser, with or without an answer read. The
interplay of stream lock, key and nonces is not repeated here.

A client goes when its last holder drops it: `DropClient` and `LoopStops` close the
connection only if no loop, and no task about to spawn one, still has it.
`NewFails` and the failing dials stand for every error of `connect`. The events
BlockTemplateUpdated and ChainReorg are `HandleTemplateEvent`; NewBlock and the other
events change nothing and have no action.

### SequentialPool and PoolHistory

`set_template` changes the template, waits for the network, and changes the coinbase;
`reconnect` drops the client, dials, and sets the next one. `SequentialPool` is what the
tasks that share the pool may rely on all the same: each method happens at one moment,
and a reader (`Look`) sees the pool between two of them. A template comes with its own
coinbase if its client is one no call has failed on, a fetch that fails leaves the coinbase
as it was, and every client is a new one.

The moment of `set_template` and `reconnect` is the one where they let go of the write
guard. `PoolHistory` has what it takes to say so, and adds nothing to what the server may do:

| `SequentialPool` | `PoolHistory` |
|---|---|
| `board` | `board`: the pool as it was when nobody was in the middle of a fetch or a dial (`Updating`) |
| `seen` | `seen`: the pool as it *is* when a reader reads it (`Reading`), finished or not |
| `fresh`, `distrusted` | `Fresh`: connections not made yet; `Distrusted`: those a call has failed on |

`FetchReturns` implements `SetTemplate`; `SetTemplate` is `SetTemplateSolo` if there is no
client, and a stutter else; `CallFails` is `SetTemplateFails` or `SubmitFails`; `DropClient`
is a stutter, `Dial` is `Connect`, `DialFails` is `ReconnectFails`.

## 3. Runs

`CHECK_DEADLOCK FALSE` everywhere: a broken connection with all calls made, a link with
all its messages sent, or a payload that is parsed, really is the end.

| Run | Shows | Bounds |
|---|---|---|
| `header_link` | `HeadersRead`, `KeysAgree`, `FrameEnds` | three headers in either direction out of 31 at the edges of their fields, three first keys |
| `pool_messages` | `TypeOK`, `PanicsUnterminated`, `PayoutExact`, `SentIsUnderstood` | 12 payouts, a handshake, a block notification, and configurations, validations, share responses and verdicts of every shape; each whole and with one damage: cut anywhere, any one byte replaced, one byte added |
| `client_locks` | `TypeOK`, `NonceLockstep`, `HeadersReadable`, `GoodMessageAccepted`, `ServesCallers` | two callers, one call each, the loop, a pool that pushes `JobUpdate` and `BlockNotify`; three nonces starting at the last, so the counter wraps |
| `client_lone` | `OwnReply`, `LinkDownReleases` | one caller, three calls, so an answer has two later requests to be mistaken for; the loop; no pushes, so every message is an answer; the connection breaks anywhere |
| `client_talking` | `EveryCallReturns` while the pool keeps talking | one caller, three calls, the loop competing for the lock, two frames in flight: with three requests the window is full and a caller waits in its writes |
| `server_pool` | `TypeOK`, `CoinbaseOfTemplate`, `ClientKept`, `LoopPerClient`, `NoDeadlock`, `OneAtATime` | two event handlers and two operators (who can do all that another module can, once the module has started), one call each; three connections |
| `server_returns` | `EveryTaskReturns` | one task of each kind, one call each, two connections |
| `client_swapped` | *violated*: `OwnReply` with two submissions at once | two callers, one call each |
| `client_silent` | *violated*: `EveryCallReturns` with a pool that only answers | one caller, one call |
| `client_notify` | *violated*: `LoopOutlivesMessages` | the pool announces a block |
| `server_coinbase` | *violated*: `CoinbaseCoordinated` | two events |
| `server_lost` | *violated*: `LostConnectionRetried` | a connection that breaks |

One connection suffices in the client runs: connections share nothing in `DatumClient`
(the proofs are for any number). Two callers are the smallest number that can
interleave in a send or swap answers. One frame in flight per direction is enough for
messages to cross, two for a garbled read to swallow a whole frame and leave a part of
the next. The nonce
space stands for 2^64; what matters is that frames in flight have different
nonces and that the counter can wrap. In the liveness runs it is 1, because
fairness does not depend on the nonces. Callers are symmetric where no liveness is
checked. `client_lone` and `client_talking` stay apart: once the pool pushes messages
of its own, even a lone caller may take one of them for its answer.

The payouts of `pool_messages` have an empty and a filled tag, id and script, and
none, one and two outputs: every length byte is 0 or not, and every loop is run zero times,
once and twice. Texts are empty, ASCII and with a character of two bytes, and one of the
bytes that replace others begins such a character, so that decoding changes what is there.
One damage reaches every check, because each check is the first to fail
for some cut.

In the server runs two event handlers are the smallest number that can mix
template and coinbase, or find an answer left over from another's call. Two
operators can reconnect at once, which takes three connections, the first included.
`MaxCalls` bounds the calls of a task. Tasks of a kind and connections are symmetric
where no liveness is checked; `OneAtATime` has no fairness. The inductive invariants of
section 4 (`NonceInv`, `KeysLinked`, `CallInv`, `AloneInv`, `PoolInv`, `LoopInv`, `WaitInv`,
`BoardInv`, `CursorInv`) were checked with TLC on these instances, or on ones with two calls
of each task, before they were proved; `AloneInv` with three callers, of which one is alone.

**Fairness.** `FairSpec`: every task that can step does (the tokio runtime polls
ready tasks), the loop is spawned, and the pool reads and answers requests.
The stream lock needs no fairness of its own, its queue is FIFO. A garbled
read has no fairness while the connection is up, since the bytes it waits for may never
come, and the pool owes no messages of its own. `TalkingSpec` adds these two, and that the
pool hangs up on a request it cannot read (`HangsUp`), and under it the lock keeps moving.
The last one is an assumption about the peer, not about the code, and it is needed: headers
that cross are unreadable to the pool, and if it only stopped reading, the window would fill and
a caller wait in `write_all` with the stream lock, for ever. TLC finds that behaviour with
three calls and a window of two when the assumption is dropped. `LinkDownReleases` needs only `FairSpec`: on a broken
connection every read ends, a garbled one too (`read_exact` meets the end of the stream). `FairSpec` of `DatumServer`: `main` and every
task that has taken up a call step on, and locks are granted. Nobody is obliged to
give a command, and events need not come. It assumes that calls of the client and
dials return. That assumption is `EveryCallReturns` of `client_talking`, and
finding (1) is when it fails. What `server_returns` adds is that the two locks,
taken in opposite orders, let everybody go in the end; that they make no deadlock of their
own is `NoDeadlock`.

**Findings.**

1. Receive loop and requests share one lock that is held while waiting: against a
   pool that only answers, the first `fetch_coinbaser` hangs.
2. Overlapping submissions can swap their verdicts.
3. Messages whose command needs more than five bits stop the receive loop.
4. `set_template` puts the template in place before it has its coinbase, and an error
   leaves the two apart for good.
5. A broken connection is never dialled again; `reconnect_interval` is not read.
6. A coinbase response that ends with its coinbase data panics (`pool.rs:211`) where
   every other malformed response is an error. The panic unwinds the task that holds the
   pool's write guard. `PanicsUnterminated` pins it down: on these messages, and on no other.
7. `cmd_len` counts the plaintext, the tag comes on top (`datum_protocol.rs:407`): what
   one side of this code sends its other side would not read. `FrameEnds` has the 16 bytes.

Findings 1 to 5 are the runs that are violated; 6 and 7 are parts of properties that hold.

Seen while modelling, without a run of their own: the comment on the key feedback
(`datum_protocol.rs:691`) describes another function than the one `FeedbackIsInput`
proves. NewBlock does not invalidate the template (`server.rs:134`). A reconnection
that "restarts" the message loop (`server.rs:223`) leaves the old loop, and with it
the old connection, alive.

## 4. Proofs

| Theorem | Statement |
|---|---|
| `HeaderRoundTrip` | deserializing a serialized header gives `Truncated(h)`, for every header |
| `FeedbackIsInput` | the next key is the argument of `apply_header_xor` |
| `KeysNeverPart`, `HeadersReadBack`, `FramesEnd` | `[]KeysAgree`, `[]HeadersRead` and `[]FrameEnds`, for all headers, keys and lengths of the sequence |
| `MessagesTypeCorrect`, `PayoutCorrect`, `PanicCorrect` | `[]TypeOK`, `[]PayoutExact` and `[]PanicsUnterminated` for `PoolMessages`, for any bytes |
| `SentCorrect` | `[]SentIsUnderstood`, for every message of the seven kinds, of any length, with any number of outputs and any Unicode texts |
| `TypeCorrect` | `Spec => []TypeOK` for `DatumClient` |
| `NonceCorrect` | `Spec => []NonceLockstep`, for any number of tasks, connections, pushes and calls |
| `HeadersCorrect` | `Spec => []HeadersReadable`, likewise |
| `GoodMessagesAccepted` | `Spec => GoodMessageAccepted`, likewise |
| `ClientServes` | `Spec => ServesCallers`, likewise: `DatumClient` implements `AnswerService` |
| `AloneOwnReply` | `OwnReply` of the tasks of any set `F` whose calls overlap with no other call on their connection (`[]Alone(F)`), whatever the other tasks do, if the pool pushes nothing |
| `SerialOwnReply` | its case `F = Caller`: `Spec /\ []CallsInTurn => []OwnReply`, if no two calls on a connection overlap |
| `LoneOwnReply` | its corollary: `Spec => []OwnReply`, if there is one caller and the pool pushes nothing |
| `ServerTypeCorrect` | `Spec => []TypeOK` for `DatumServer` |
| `CoinbaseCorrect` | `Spec => []CoinbaseOfTemplate`, for any number of tasks, connections and calls |
| `ClientStays`, `LoopsCorrect` | `Spec => []ClientKept` and `Spec => []LoopPerClient`, likewise |
| `DeadlockFree` | `Spec => []NoDeadlock`, likewise |
| `PoolSequential` | `HistorySpec => OneAtATime`, likewise: `DatumServer` implements `SequentialPool` |

The assumptions are the ASSUMEs of the modules: types of the constants, callers
and clients disjoint, a first nonce in the nonce space, 128 bytes of `Echo`, and
`SentAssumption`: a message that is said to be what the pool has sent is laid out as the
pool lays it out. Its texts are Unicode (`IsText`: `from_utf8_lossy` leaves them as they
are), and a refusal without a reason means an unknown error; bytes that are no Unicode text
arrive as U+FFFD, which is not what was sent, so nothing is claimed of them.

*Headers.* `SharedByte` and `FlagByte` take apart the two bytes that carry several
fields. `BytesOfWord` says that a byte is the sum of the weights of its bits, so
the XOR on words is the XOR on bytes. Together with `XorCancels` and
`FeedbackIsInput`, `KeysAgree` is inductive and carries `HeadersRead`. A header whose
length fits is read with the length it was sent with, which makes `FrameEnds` a
count; `HeaderSent` keeps that the client marks all it sends as signed.

*Parsers.* `CursorInv` says at each field where the cursor is and what has been read by
then: tag, id and outputs stand in `body` one behind the other from its first byte, and
`starts` has where. That the cursor is never behind the end of `body` (its first
conjunct) makes the check before a read the bound of the read. Each field is a step
of the proof; `PayoutExact` is the last conjunct, when the last output has been read.

*Messages sent.* A message of a fixed layout is read in one step, so it is enough that each
byte the parser takes is where `Written` has it, and that its length passes the check. For a
coinbase response `HeardInv` follows the cursor: what has been read so far (tag, id, outputs)
is what the pool meant, and each output starts where the layout has it. A layout is a
sequence of offsets, not a fold over the outputs, so no induction over their list is
needed: the run makes the induction, one output after the other.

*Nonces.* `NonceLockstep` is a chain: the first frame on its way has the receiver's
nonce, each next one its successor, and the sender's counter comes after the last.
Appending at the sender and removing at the receiver keep a chain
(`ChainAppend`, `ChainTail`). That is not inductive alone. `SendPrepare` must
find `outgoing` empty, or a frame with a used nonce would be lost: `WriterHoldsLock`
says that what is being written belongs to the lock's holder. Only connected
clients may be used (`UsersAreConnected`), and by one task before that
(`OneHandshake`). And the chains must begin somewhere: `Handshaking` follows the
hello message until both ends have the first nonce, including pushes that arrive
before the client has read the handshake's answer. `NonceInv` is their
conjunction; `InStep` restates the last two parts for one connection, so a step needs
an argument for the connection it touches and none for the others (`Still`).

*Header keys.* `HeadersReadable` speaks of the next header only. `KeysLinked` follows the
key through all of them: a reader that starts with its own key finds every header on
its way plain and ends with its writer's key (`Deciphers`, a chain like that of the nonces
but with the key each header leaves behind). While no message was enciphered against
another, only one direction has frames, so there is one chain, and a message that turns
the direction starts a new one from a key on which both ends agree. Each step that sends,
writes, reads or answers lengthens the chain at one end or shortens it at the other, and a
garbled read is impossible.

*Good messages.* `GoodMessageAccepted` looks at the steps in which a task leaves the stream.
`NonceLockstep` gives the first frame the nonce the client expects, `UsersAreConnected` the
cipher, `KeysLinked` that the position in the stream is not lost and the header is plain, so
`ReceiveGarbled` is disabled and `Receive` has only the command and the body left to refuse.

*Refinement.* Initial states map to initial states, and each action of `DatumClient` to
the action of `AnswerService` named above or to a stutter. The mapping needs three
facts, `CallInv`: a label belongs to a caller or to a loop (else a loop's step might
change what a caller sees), nobody has asked before the pool has greeted, and what is
being written is the request of the task that holds the lock (else the request that enters
`owed` would be somebody else's). A garbled read takes a beginning of `ready`
and adds its connection to `garbled`; `Receive` needs a connection that is not `lost`
(`Readable`), so it is never the step of a garbled one. `NonceInv` rules out that a frame is
refused for its nonce.

*Own replies.* This proof uses the refinement: it speaks of the state of `AnswerService` and
its actions only, which `ClientServes` allows, and knows nothing of locks, keys or nonces.
Its centre is a count (`BoundAt`): on a connection there are never more messages, requests
and answers together, than calls that wait there, unless a read on it was garbled. It is
inductive because a call that stops waiting has taken a message, finds the connection down and
nothing on it, or leaves it garbled; and on a garbled connection no call returns an answer,
so there is none to be wrong. Hence a task
that sends while nobody else is between request and return on its connection (`Alone`) sends
into an empty connection, and as long as it waits all there is, is its own (`MineAt`). The other
tasks may overlap before and after, swap their verdicts and fail; they leave nothing
behind. That calls do not overlap is a hypothesis about the callers: a fetch has the pool's
write guard, so it is alone on its connection even though submissions, under read guards,
are not; a lone caller overlaps with nobody (`LoneOwnReply`). Neither hypothesis can go: of
two overlapping submissions neither need get its own (`client_swapped`), and a message that the
pool pushes may be taken for an answer.

*Coinbase.* `CoinbaseOfTemplate` says that the oldest answer, when a fetch takes
it and may be trusted, is for the template that is set. `OwedAt` makes that
inductive: a client on which no call has failed owes nothing but verdicts, or one
fetch, for the current template, to a task that is waiting for it. That there
is one such task, and that the template stays until it has its answer, is the write
guard: `GuardsHeld` (a fetch or a dial holds it, a submission holds a read guard)
with `LockExclusive` (one writer, no readers). `SetTemplate` and `SubmitPow` extend
`owed`, `FetchReturns`, `SubmitReturns`, `CallFails`, `LoopTakes` and
`ConnBreaks` shorten it, and no other action touches it.

*Client and loops.* `ClientKept` follows from the same guards: who replaces the client has
the write guard, who uses it has one too. The connection that `new` makes is the
exception; there `IdleBeforeNew` says that nobody has been called yet. `LoopPerClient`
needs to know who may still spawn: `LoopAt` says that a connection has its loop already, or
one task that is about to spawn it, and never both; `QuietBeforeReady` that nobody
dials or spawns beside `main` before the start is over.

*Deadlock.* What a task may have and what it may ask for is read off its label (`WaitInv`), and
it asks once at a time. Whoever has the pool's lock and asks for another one is in
`get_status`, and asks for `running`. Only `start` has `running` while it waits, for the
pool, and then nobody is in `get_status`, because commands come after `start`
(`StatusWhenReady`). So in a group of tasks take one that asks for `running`, the first in its
queue, if there is one, else the first of the group in the queue of `pool`
(`FirstOfGroup`): nobody of the group keeps it waiting. Queues count as waiting, so
a reader behind a writer behind a reader is covered.

*Sequential pool.* `BoardInv`: while nobody is in the middle of a fetch or a dial the board is
the pool, and in between only the template, or the client, has moved on. `ReaderAlone` and
`WriterStarts` turn guards into this: who has a read guard, or the write guard at its first
step, finds the board as it is; `WriterEnds` that its last step leaves it so. `PoolInv`
supplies the guards and the coinbase that `SetTemplate` promises, `ClientKept` that
`FetchReturns` and `CallFails` speak of the client the fetch went to, `LoopInv` that `new`
connects alone. Each action is then one step of `SequentialPool` or a stutter.

**Only model-checked:** the liveness properties (`EveryCallReturns`, `LinkDownReleases`,
`EveryTaskReturns`), because liveness under fairness and ENABLED are out of the prover's
reach. Every invariant and every action property of the runs has its theorem.
`OwnReply` has it under the hypotheses of `AloneOwnReply`, and is false without them. That a
fetch in fact overlaps with no other call is proved on the side
of the server (`ClientKept`, `LockExclusive`), not for the two modules together. No module
that is proved about uses a RECURSIVE operator.

## 5. Not modelled

- **Cryptography**: a sealed frame opens under its nonce and no other, and a
  signature verifies on the bytes that were signed. How keys and the first nonce are derived
  is left out; the first nonce is a constant.
- **Contents**: transactions of a template, the texts of the CLI, the JSON of the API, the
  texts of log and error messages.
- **Code without an effect**: the hooks of `handlers.rs` only log, `set_message_handler` and
  `set_pool_public_key` are not called after construction, `jobs` of the pool is never filled,
  the NewBlock arm changes nothing, `config.rs` is a key map and `error.rs` an enum.
- **Cancellation** of a task in the middle of a send: the code that awaits these calls never
  drops them, and the node's SDK around it is not part of the repository. Whether the SDK
  handles two events at once is its own affair; the model lets it.
- **Crash and restart**: nothing is persisted, so a restarted module is `Init`.
- **After a panic** of the coinbase parser `PoolMessages` stops. `DatumServer` has the panic
  only as an error: tokio drops the write guard when it unwinds the task, and the pool is left as
  by any failed fetch.

## 6. Plan

Done: header codec, framing, parsers, client, server and pool, and the refinements of
`AnswerService` and `SequentialPool`; every invariant, action property and refinement proved,
`OwnReply` for every task whose calls overlap with no other. What could follow:

1. `DatumServer` on top of an instance of `AnswerService`, so that the one queue of answers
   is shared by definition and not by description, and with it `Alone` of the fetches, the
   hypothesis of `AloneOwnReply`, from the pool's write guard.
2. The order of overlapping submissions: the k-th answer a connection hands out is for the
   k-th request that was written, which is what is left of `OwnReply` when calls overlap.
