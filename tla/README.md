# AudioServer in TLA+

Specifications of the audio server in `src/`: a TCP server that receives blocks of PCM samples in a
small binary protocol, encodes them with libav and writes an MPEG transport stream. The modules are
translated from the source; `PROJECT.json` names the lines behind every definition.

Check a run with `tlc -config <run>.cfg <module>.tla`, a proof with `tlapm <module>.tla`.

## The system

| Component | State | Operations | Depends on |
|---|---|---|---|
| Program (`AudioServer.cpp`) | the `io_service`, one thread that runs it | `main` | Server, Configuration |
| Configuration (`System.*`) | port, URL, codec, rates | constructor reads `config.json` | - |
| Server (`Server.*`) | `is_working_`, the acceptor, output and encoder contexts, resampler, `audio_fifo_`, `pts_` | `open`, `open_output_file`, `start_accept`, `handle_accept`, `close` | Configuration, libav |
| `server_session` (`Server.cpp` 9-287) | socket, `input_buffer_`, `output_buffer_`, `info_`, `channel_id_`, copies of the server's pointers | `start`, `handle_read_header`, `handle_read_body`, `handle_write`, `process_*`, `do_close` | message interface, audio pipeline |
| Audio pipeline (`Server.cpp` 197-277, `ffmpeg_utils.*`) | FIFO, encoder, muxer, `pts_`, all owned by the Server and shared by its sessions | convert, add to the FIFO, cut frames, encode, write | libav |
| Message protocol (`protocol.*`) | `message_data_`, `parameter_positions_`, head fields | `parse_message_head`, `parse_message`, lookups, `package_*` | - |
| Message interface (`interface*`) | - | seven builders, five getters | message protocol |
| Checksum (`crc.*`, `Server.cpp` 353-368) | a table | `crc32`, `pack_crc`, `validate_crc` | - |
| `pack_data.*` | - | included and never used | - |

**How they interact.** `main` builds the Server, opens it and runs the `io_service` on one thread.
`start_accept` makes a session with copies of the server's pointers; `handle_accept` starts it. From
then on a session is a chain of asynchronous operations, each started by the handler of the one
before: read a head, read a body, dispatch, write a reply, read a head. A session object is kept
alive only by the handler of its pending operation. Handlers never overlap, so a handler is atomic
with respect to the other sessions; what is concurrent is the network, the clients, and the order in
which sessions get their turns. The PCM handler reaches through the session into the audio state
that all sessions share.

**What is hard here.** A handler path that arms no operation, or two; buffers used by an operation
still in flight; bytes of earlier messages behind a shorter one, in two buffers; failures of any of
ten library calls in the middle of a block, each with its own cleanup, its own answer and its own
effect on the stream that follows; loops that depend on each other through the encoder's queue. The
list of hazards, each at its line, is in `PROJECT.json`.

**What makes each component correct.**
- Session: one operation pending; answers in order, one each, of the right kind, with the right
  channel; complete messages get handled; leavers get noticed.
- Pipeline: each accepted sample in one place; time stamps that match the samples; honest answers;
  no leak; an encoder with room; a backlog only where something has failed; termination.
- Protocol: parsing stays in its buffers, accepts what tiles, and reads back what was packaged.
- Server: one accept under way while it works; sessions only after a successful `open`, with every
  pointer that it sets; at most one more after `close`; every failure of `open_output_file` leaves what the
  destructor can free; everybody who connects is served.
- Configuration: what is taken from the file is what stands in front of the first bad entry.
- Checksum: the table algorithm is the division by the polynomial; a damaged block is refused, a
  sound one is not.
- Server, sessions and pipeline together: each client learns which of its requests put
  samples into the stream.

## Modules

### Session
One connection per client; `Clients` many of them. A handler is an action (`handle_read_header`,
`handle_read_body` with `Dispatch` and the `process_*` operators, `handle_write`, and `handle_error`
for their error branches). `ops` holds the asynchronous operations pending on a session, `socket` how
a session ended: `do_close` ("closed"), the last reference dropped ("released"), the process gone
("reset"). Clients send heads and bodies at any time and may leave at any time; a write completes at
any time after it has been started, or fails.

A message is a record: does its head fit, do its parameters tile its body, which scalar parameters
does it have, which channel id, which kind of block data. `Leftovers` stands for what a lookup finds
behind the last parameter, see below. `sent`, `taken`, `handled` and `replies` are the history by
which questions and answers are compared; the field `to` of a reply is a ghost that names its question.

The block's handling is one atomic choice of `BlockOutcomes`: an error code, success, or a crash of the
process, which ends every session. `AudioServer` puts the pipeline in its place.

`Exchange` is what a connection promises, without reads, writes or buffers: questions are answered in
their order, each by an answer of its kind, only a report is passed over, nothing is answered behind
garbage or a farewell, and the connection may end at any time. Session implements it
(`ImplementsExchange`): a question is asked when its last byte has been sent (`Asked`), an answer
given when its write completes (`Answered`), a connection over when its session has ended, or can no
longer begin (`Ended`).

### Pipeline
The same handler from line 197, one library call per step. Samples are numbered by their place in the
stream, `accepted` of them so far. `fifo`, `frame`, `encoder`, `output` and `lost` are the places a
sample can be, `heap` counts objects allocated, `failed` remembers which kinds of calls have ever failed.
Every call may fail each time. External code is modelled from its use: the encoder keeps `Delay`
frames back, refuses a frame while a packet waits, and when receiving fails may drop a frame; the muxer
writes a packet or refuses it.
`convert_samples` is the one undefined behaviour: the block's bytes are used as an address, so it
may crash, fail, or go on with samples from elsewhere. `FifoAllocated` is FALSE in the code
as it is (`audio_fifo_` is null); the runs with TRUE show how the rest behaves once it is allocated.

`Stream` is what the pipeline promises whatever fails: samples are received, frames are cut from the
front without a gap, and written in order, some of them lost. A frame is named by the place of its
first sample. Pipeline implements it (`ImplementsStream`), `pts_` being what has been cut.

A handler that leaves more than a frame in the FIFO has either failed on the way or met an encoder that is
stuck (`CatchesUp`). Stuck is for good: after one failed `avcodec_receive_packet` a packet waits that nobody
fetches, every later `avcodec_send_frame` is refused, the loop is left each time after one frame, and with blocks
above a frame the FIFO grows. The code promises nothing against that.

### Server
The constructor, `open_output_file` one call at a time with the failure of each, `open`, the accept
loop, `close`, and `main`. Three threads: main, the io thread, and one that may call `close` (no code
does, but `is_working_` is volatile for its sake). `handle_accept` is cut where the other threads can
see it: the session starts (`handle_accept`), `is_working_` is read (`check_working`), the next accept
is started (`accept_again`). The operations on the acceptor are atomic, as the reactor of asio
serialises them. A session is reduced to the five pointers it copies (`Copied`: four members and the address
of `pts_`), its start and its end; `pointers` are those of them that are set. `audio_fifo_` never is, which is
part of `OnlyTheFifoIsNull`: a session gets the other four, and this one null.
`allocated` and `held` are the libav objects that exist and those a member points to. The destructor
never runs, as `main` never returns; `NothingLost` says what it would free.

### AudioServer
Session and Pipeline composed over the state they share (two INSTANCEs over the same variables): the
handler of a block that reaches the pipeline is a sequence of its calls (`EnterPipeline`,
`CallPipeline`) while the network goes on and the one io thread serves nobody else. All other
handlers are Session's, and so is the choice of what stands behind a message (`Leftovers`): with one member
the handler of a request reaches the pipeline (`Reaches`), with another it does not. A request without a
block that finds the block of an earlier one there is served with it, and answered with a response.
`stored` is a ghost: the requests whose samples are in the stream.
`ImplementsSession` is Session's own specification, checked of the composition: its outcomes of a
block are those the pipeline delivers, and treating the handler as one step hides nothing.

### Crc
`crc32` with the 256 entries of its table, `pack_crc` and `validate_crc`. Bytes and registers are
sets of bits. A behaviour packs a block, flips bits on the way and validates it. `pack_crc` has no
caller in the repository; it stands for what a client has to do. The loop of `crc32` is a recursive
function over its rounds (`Registers`), the reference divides by the polynomial bit by bit
(`Remainder`). `Reach` bounds how far apart two flipped bits may be: a checksum of 32 bits can promise to
notice every burst of up to 32 bits, and two bits only up to some distance.

### Config
The constructor of System: `read_json`, then seven reads in a fixed order over defaults; the first
that throws ends the reading. Of a value only its origin is kept.

### CommonMessage and Interface
`CommonMessage` is the parser at the level of bytes: `input_buffer` and `message_data` are functions
that keep what earlier messages left in them, a round of the loop of `parse_message` is a step, and
the lookups are operators on the recorded positions, the last of which is the end of the message.
`Memory` includes the bytes behind `message_data_` that a lookup can reach from there. `ReadsTheWire`
bounds what a lookup may answer from: a parameter of the message, or the position behind its end.
`Interface` adds the packaging functions (with 16-bit lengths that wrap) and the getters; `interface.cpp`
calls the overloads of `package_message_common` with one, two and four parameters (`package_message_1`,
`_2`, `_4`; nobody instantiates the others).
`Base` is the number of values of a byte; limits scale with it.

The two levels meet at `Leftovers`: what stands behind the end of an accepted message is any old
content, which is why Session lets a lookup fall through to any member of `Leftovers`.

`MC*` modules hold model values; `*Proofs` modules hold the proofs.

## Runs

| Run | Shows | Bounds |
|---|---|---|
| `session_one` | `HalfDuplex`, `NothingSkipped`, `RepliesFit`, `ChannelOfLastSetup`, `OutputBufferStable`, the refinement `ImplementsExchange`, and under fairness `AnswersComeInTime`, `GoneIsNoticed` | one client, all kinds of messages, three of them in a row: a setup, something that could disturb it, and a question |
| `session_block` | violation of `BlocksAreReceived` | one client, two messages |
| `pipeline_stream` | eight invariants of the stream besides its types, the refinement `ImplementsStream`, and under fairness `HandlerEnds` | frames of 2 samples, an encoder one frame behind, blocks of 1, 3 and 5 samples, 13 samples in all: blocks below one frame, above one and above two, up to five frames, and every failure in each |
| `pipeline_enough`, `pipeline_input`, `pipeline_null` | violations of what three comments say | 9 samples |
| `interface_sequence` | `ParseInBounds`, `PositionsTile`, `ReadsTheWire`, `RoundTrip`, `PackagedIsAccepted` | bytes of 16 values, messages of 64, parameters of 16: blocks of no bytes, at the limit, above it, above a whole message; five malformed bodies; any sequence of them, with no bound on its length |
| `server_close` | `OneAccept`, `OnlyTheFifoIsNull`, `NothingLost`, `AtMostOneLate`, and under fairness `Served`, `LoopEnds` | three clients: one served, one accepted while `close` runs, one still waiting; two failing accepts, so that a retry can fail again; every failure of the start; `close` at any time |
| `server_failed` | violation of `ConnectionsAreReceived` | two clients, nobody calls `close` |
| `audioserver_blocks` | `ResponsesAreTrue`, `StreamKeepsOrder`, the refinement `ImplementsSession`, and under fairness `AnswersInTime` | two clients with two requests each, of one sample; frames of two samples: two requests fill the FIFO, the third cuts a frame that may mix both clients; every failure in each. The requests carry no block, so that the leftover decides: nothing, an earlier block (handled as one of the request's own would be), or an id, which ends the session |
| `crc_damage` | `ChecksumIsRemainder`, `DamageIsDetected` | every entry of the table; blocks of 0 to 4 samples; no damage, every single bit, pairs of bits and bursts of up to 32 bits |
| `config_reads` | `FileThenDefaults` | none: all 3^7 files, and one that cannot be read |

Sessions of different clients touch only the shared process and the pipeline, so one client is enough
for Session and two for `AudioServer`, where they wait for each other. `MaxMessages`, `MaxSamples`,
`MaxQuestions` and `MaxErrors` are the only bounds on behaviours, and the theorems have no bound on
clients, frame sizes, delays, block sizes, limits or messages (they hold for every value of
`MaxMessages`, `MaxSamples` and `MaxErrors`). The checksum is linear in the bits of a block, so that the
damage patterns of `crc_damage` start in its first byte.

Deadlock is not checked: clients may stop sending, a refused message ends a session, a crashed
process or an ended io thread does nothing more, a constructor returns.

**Fairness.** Session: `WF(Serve(c))` for each client, as `io_service::run` dispatches every completed
operation, and the operations of one session are one chain. Pipeline: `WF(Handler)`, the thread goes on
with the handler it is in; blocks need not come. AudioServer: both, `WF(CallPipeline)` and
`WF(Serve(c) \/ EnterPipeline(c))` for each client. Server: `WF(Main)`, `WF(Io)` and
`WF(close_acceptor)`, each thread goes on where it can, and `WF(Accepted)`, the kernel hands over a
connection that waits. Clients have no fairness, accepts need not fail, and nobody has to call `close`.

**What the violations show.** (1) `process_pcm_data_send_request` tests its three lookups the wrong
way round (line 179): the requests that `interface.cpp` packages are dropped together with their
session. (2) The loop leaves exactly one frame's worth of data unencoded (line 233). (3) The converter
reads wherever the first bytes of the block point (line 212). (4) `audio_fifo_` is null (line 294).
(5) `main` ignores that `open` has failed: the port listens, and nobody accepts (`AudioServer.cpp` line 16).

## Proofs

All theorems hold for every value of the constants, from the named assumptions of the modules alone. TLC
evaluates each of them with the constants of a run. `SessionAssumption`, `PipelineAssumption`,
`CommonMessageAssumption`, `ServerAssumption`, `AudioServerAssumption` and `CrcAssumption` say what the
constants are. Three say more:
- `InterfaceAssumption`: what is packaged has one of the `Signatures`, its values fit their types, a byte
  can tell five types of parameters apart, a scalar is not longer than a parameter may be, and a block with
  the 31 bytes around it fits the unsigned short that counts them. The last bound is what the code needs
  and does not test: above it the length in the head wraps. `MAX_DATA_BLOCK_SIZE`
  (`interface_constants.h` line 11, used nowhere) is a quarter of it.
- `TableAssumption`: each of the 256 constants of `crc_table` is the remainder of its byte. It has no
  parameters; it is a fact about literals, which is evaluated and not proved.
- `DamageAssumption`: the patterns in `Noise` are bursts or pairs within `Reach`, and no single 1 with fewer
  than `Reach` zeros behind it leaves the remainder that a second 1 would undo. It is evaluated for
  `Reach` = 64, all of a block of the run.

**SessionProofs.** Proved: `TypeOK`, `HalfDuplex`, `InStep`, `RepliesInOrder`, `NothingSkipped`,
`RepliesFit`, `ChannelOfLastSetup`, `OutputBufferStable`. `DispatchEnds` first reduces the handling of a
message to four outcomes: the session ends, the process dies, it reads on in silence, or a reply that fits
goes into the buffer. `Base` (types, `HalfDuplex`, `InStep`) is inductive and carries the rest: knowing which
operation is pending says how many heads and bodies have been read and whom the reply in `output_buffer_`
answers. `Settled` relates questions and replies. `RepliesFit` and `ChannelOfLastSetup` speak only of replies
that have been written, so `Contents` adds that the reply being written fits too (`Pending`) and that
`channel_id_` is that of the last setup handled (`ChannelKnown`).

The module also proves `Spec => ImplementsExchange`. `Sound` adds to the invariants above that only
complete messages are handled and that an open session has handled nothing malformed. With it,
the last half of a message is `Exchange!Ask`, a completed write is `Exchange!Answer` (what was passed over since
the answer before is reports, by `NothingSkipped` and `RepliesInOrder`; the kind suits, by `Pending`), and any other
step ends some connections or none, because what is over stays over.

**PipelineProofs.** Proved: `TypeOK`, `NothingLeaks`, `AnswerIsTrue`, `FifoIsTheTail`,
`TimeStampsInPlace`, `EncoderDrained`, `CatchesUp`, `EachSampleOnce`, `LossNeedsFailure`. The first
invariant is `Counted` (what `heap`,
`accepted` and `answer` must be at each call) and `Stored` (`fifo` is the run of samples from `pts` to
`accepted`, long enough where a frame is about to be taken; no packet waits outside the inner loop unless a receive has failed). From `Stored` a frame that has been read is the
run of samples at its time stamp, whatever failed before. The second, `Accounted`, says where the samples are:
`Placed` is `EachSampleOnce` written out pair by pair, and is not inductive alone. Taking the first frame out
of the encoder removes its samples from it only if no other frame in there has them (`Distinct`), and
`fifo_read` may fill the frame in hand only because it is empty outside `send_frame` (`FrameFits`). That the
FIFO gives up exactly the samples that the frame gets is `Stored`.

The module also proves `Spec => ImplementsStream`. A block entering the fifo is `Stream!Receive`, a frame read is
`Cut` (there are samples for it, because by `Stored` the fifo holds all from `pts` to `accepted`), a packet written is
`Write`, and a frame the encoder refuses or a packet that cannot be written is `Lose`; every other call stutters.

**AudioServerProofs.** Proved: `Spec => ImplementsSession`, `Spec => P!Spec`, from these that the contracts
`Exchange` and `Stream` hold in the composition, and `ResponsesAreTrue` and `StreamKeepsOrder`. While the
pipeline works on a block, its session waits with the body read (`Busy`), and no step of another client or
of the network changes that (`NetworkWaits`). Seen from the session a call of the handler refuses the block,
crashes, adds it to the FIFO, responds or goes on (`FiveWays`); the last call is then `handle_read_body` with an
outcome that Session allows. `SR` and `PR` instantiate the proofs of the parts with the same arguments as
AudioServer does the parts, and the `Same...` lemmas identify the two copies. For the two invariants
`Books` follows a block between the FIFO and the client: the stream holds blocks that were handled and,
from `add_samples_to_fifo` on, the one in progress, whose handler can then only respond; a reply
that is being written agrees with the stream already. `ResponseReaches` shows that no other way
through a session ends in a response: with a leftover out of the pipeline's reach (`OutOfReach`) the handler
answers otherwise or not at all.

**CommonMessageProofs.** Proved: `TypeOK`, `ParseInBounds`, `PositionsTile`, `ReadsTheWire`. The invariant says
what has arrived in `input_buffer` (`Arrived`) and that the positions recorded so far chain the
parameters up to `byte_count` (`Walked`). The chain is established over `input_buffer` and carried over
to `message_data` by the copy, for which every parameter head has to end before `byte_count`. A lookup is the first of the recorded positions that
matches (`LookupMatches`, over the least element of a set, `Least`), and a position is the head of a
parameter on the wire or the end of it.

**InterfaceProofs.** Proved: `RoundTrip` and `PackagedIsAccepted`. The bytes of a number give it back
(`Bytes16Value`, `Bytes32Value`); a parameter is appended behind those that are there, touches nothing of
them and brings the length up to date (`Appended`), so that after the last one all of them are stored at
their positions (`Packaged`). `Follows` is the inductive invariant: while a packaged message is parsed,
the positions recorded so far are those at which its parameters were packaged, so the loop of
`parse_message` ends where the message does and the copy takes all of it. It needs the parser's
own invariant and `TypeRead`, that `message_type` is the one on the wire. A lookup then stops at the only parameter
of its type (`GettersFind`) and never reaches what lies behind the end of the message; the search for a block
stops at one above `MAX_PARAMETER_LENGTH` and finds nothing, the scalars around it are found all the same.

**CrcProofs.** Proved: `ChecksumIsRemainder` and `DamageIsDetected`, for blocks of every length. `Induction` is
drawn from the fact that `<` is well-founded on the naturals, for sets instead of predicates, and `Loop` from
it: a recursive function over the rounds of a loop exists and has the values its equation gives. Division is
linear in the register, so eight steps of it are a shift by a byte and an entry of the table
(`RoundDivides`), and `CrcIsRemainder` follows round by round. For damage a block is read as a sequence of bits, with a
register for each place of the samples (`Bitwise`), and is accepted when the last register stands in the
32 bits behind them (`Sealed`, `Checked`). Two blocks that are both
accepted and differ only within 32 places have equal registers in front of these places, and equal ones
behind them, because bit 0 of the polynomial makes a step of the division invertible (`Ahead`, `Behind`);
peeling the 32 places off one by one shows that they did not differ (`Burst`). Two blocks that differ in two places
have registers that differ by the trail of the first one (`Differences`), which the second would have to undo
(`Pair`). The inductive invariant `IInv` says that the block is the packed one with the flips that have
been made, and the verdict that on this block.

**ServerProofs.** Proved: `TypeOK`, `OneAccept`, `OnlyTheFifoIsNull`, `NothingLost`, `AtMostOneLate`. The
invariant says what is held at each call of the start (`HeldFits`), that nothing moves before `open` has
succeeded (`Started`), that the accepts in between carry exactly the pointers that `open` leaves (`Opened`, `Handed`), and counts the accepts pending, completed and being handled with what `close` has
done so far (`Flow`).

**Config.** Proved: `TypeOK` and `FileThenDefaults`; while the constructor reads, everything in front of the next
key has been good (`SoFar`).

**Only model-checked:** liveness (`AnswersComeInTime`, `GoneIsNoticed`, `HandlerEnds`, `Served`, `LoopEnds`,
`AnswersInTime`: the prover does not do fairness). Every invariant and every refinement that a passing run
checks is a theorem. Of the reach of the checksum only the 64 bits of `DamageAssumption` are known, and the
five violations are found by TLC.

## Not modelled

- What libav computes, formats of the output: library calls with a verdict.
- Reads behind `message_data_` are bytes of arbitrary content, not a fault.
- The value of the block id in a response: it is never initialised on the path that sends it.
- Timeouts: the code has none. `get_parameter_content` with an index other than 0: no caller.
- Log output. `pack_data`, `init_fifo`, `init_input_frame`: no caller. The build description.

## Plan

Done: every component with behaviour, the contract of a session and of the pipeline, the composition of the two,
and the proofs above. Left open: pairs of flipped bits further apart than `Reach` (the order of the
polynomial, which is beyond evaluating step by step), and liveness.
