# fixdecoder in TLA+

Specifications of `fixdecoder` (decodes FIX messages in log files, tracks
orders, hides sensitive fields) and `pcap2fix` (turns packet captures into FIX
lines), checked with TLC and, in part, proved with TLAPS. Source lines are those
of `src/`; `PROJECT.json` maps every definition to the lines it stands for and
lists the hazards of the code with the properties that cover them.

## 1. The system

Two programs that share nothing but a pipe: `pcap2fix capture.pcap | fixdecoder`.

| component | state | operations | interacts with |
|---|---|---|---|
| **pcap2fix: capture reading** (`pcap2fix/src/main.rs` 412–685) | interface table, last capture time, losses, time of the last sweep | read a block, decode a packet, start an idle sweep, exit with or without an error | hands numbered packets to the pool, takes their results |
| **pcap2fix: shard pool** (205–406) | a command queue per shard (bounded), one result channel (unbounded), results waiting for their turn | `submit`, `evict_idle`, `drain_ready_results`, `record_result`, `finish`; one `run_flow_shard` thread per shard | the only communication between the threads |
| **pcap2fix: resource budget** (92–154) | two atomic counters: flows, buffered bytes | acquire, release, add bytes and compare | shared by all shards |
| **pcap2fix: flow** (63–80, 781–1195) | next sequence number, buffer, early segments, time last seen | SYN, segment, FIN/RST, idle eviction, flush at the end | lives in the table of one shard |
| **pcap2fix: framing** (1000–1132) | none: a function of the buffer | find messages, keep what may become one | called for every segment |
| **fixdecoder: file processing** (`decoder/prettifier.rs` 581–984) | message counts, FIXT session defaults, interrupt flag | one file after the other, or all in a thread pool with results in order; follow mode | calls everything below for every line |
| **fixdecoder: order summary** (`decoder/summary.rs`) | open records, completed records, identifiers, message log, counters | `record_message_with_lookup`, `render_completed`, footer, paged sections | called per message; feeds the summary pager |
| **fixdecoder: summary pager** (`decoder/summary_pager.rs`) | scroll position | keys, resize, draw | shows what the summary computed |
| **fixdecoder: obfuscator and `--secret-files`** (`fix/obfuscator.rs`, `main.rs` 784–902) | alias table; files on disk | plan outputs, copy each input, clean up after an error | the file system, with other processes in it |
| **fixdecoder: dictionaries** (`decoder/tag_lookup.rs`) | process-wide cache of lookups, and of merged pairs | detect a version, build, register (`--xml`), resolve, merge an override (`--fix`) | read by every thread |
| **fixdecoder: validator, rendering** (`decoder/validator.rs`, `prettifier.rs` 192–560) | none | pure functions of a message and a dictionary | called per message |
| **fixdecoder: schema display** (`decoder/schema.rs`, `display.rs`) | a tree of components, built once | `--info`, `--message`, `--component`, `--tag` | answered before anything is decoded |
| **fixdecoder: command line and pager process** (`main.rs`) | a child process | merge options with `FIXDECODER_DEFAULT_ARGS`, refuse, spawn a pager, ignore a closed pipe, exit code | takes all output |

What is hard, and where it is settled:

* *concurrency*: `pcap2fix` numbers packets in one thread, handles them in
  several and writes in the original order, under limits counted with atomics
  and no lock (`ShardPool`); `fixdecoder` decodes files in a pool of threads
  that share dictionaries built without the lock (`FileProcessing`,
  `DictionaryCache`); several invocations of `--secret-files` share a directory
  (`SecretFiles`);
* *order and loss*: segments come late, twice, overlapping or never, across a
  wrap of the sequence number (`FlowReassembly`); order messages name an order
  by changing identifiers (`OrderSummary`); a Logon decides how later messages
  of its session are read (`FileProcessing`);
* *boundaries*: a message is cut anywhere (`CaptureBlocks`); limits are reached
  exactly (`ShardPool`, `FlowReassembly`); groups end where their count says, or
  do not (`MessageValidation`); terminals are narrow and resized
  (`SummaryPager`);
* *failure*: writes fail, inputs are missing or no text, captures are damaged,
  invocations are killed or interrupted (`ShardPool`, `SecretFiles`,
  `FileProcessing`, `CaptureBlocks`).

## 2. The modules

```
FixFraming ─┬─ CaptureBlocks ──┬──────── MCCaptureBlocks
            │                  └─ CaptureBlocksProofs (with FramingProofs)
            ├─ FlowState ─── FlowReassembly ─┬─ MCFlowReassembly
            │                  ⇓ implements  └─ FlowReassemblyProofs (with FramingProofs)
            ├───────────────── MessageStream (abstract)
            └─ FramingProofs (with Induction)
ShardPool ──┬─ ShardPoolReference ────── MCShardPool
            └─ ShardPoolProofs

OrderSummary ─── SummaryPager ──┬─────── MCSummaryPager (with MCOrderSummary)
                                └─ SummaryPagerProofs
              (SummaryPagerProofs also proves what is proved of OrderSummary)
SecretFiles ──┬───────────────────────── MCSecretFiles
              └─ SecretFilesProofs
CommandLine ──┐ (INSTANCE)
DictionaryCache ─ FileProcessing ─┬─ FileProcessingReference ─ MCFileProcessing
                                  │      ⇓ implements FileOutput (abstract)
                                  └─ FileProcessingInvariants ─ FileProcessingProofs
MessageDefs ─┬─ MessageValidation ─┬─ MessageRendering ─┐
             │                     └─ MessageGrammar ───┼─ Messages ─ MCMessages
             └─ SchemaTree ─────────────────────────────┘
```

### pcap2fix

**FixFraming** is `flush_complete_messages` with its helpers, as operators over
tokens: the bytes the code tells apart, no more. `Messages` and `IsMessage` are
the reference: which messages a byte string contains, said of the whole string.

**CaptureBlocks** reads a capture file block by block (`process_capture`,
`handle_block`, `handle_ng_block`): a plain pcap header fixes link type and
precision, a PCAPNG section numbers its interfaces, badly described ones
included, and packets refer to them. What the parsers find in a packet
(`pcap-parser`, `etherparse`) is external and part of the input. One stream
crosses the file in pieces cut anywhere; after a packet that cannot be read the
rest of it waits, and `losses` grows. `section`, `sent` and `unreadable` are
histories.

**FlowState** is `struct FlowState` with `append_segment`,
`store_future_segment`, `drain_pending_segments` and
`reassemble_and_emit_with_scratch`; arithmetic is modulo `SeqSpace`.
**FlowReassembly** adds `handle_packet_work`, eviction and the final flush for
one flow. The two answers of the shared budget (`refused`, `exceeded`) are free
inputs here, because in the program they depend on other flows. `from` and
`got` are histories: the offset at which the flow began to follow the stream,
and the offsets captured since. **MessageStream** is the abstract promise,
without sequence numbers and buffers: what is written are the messages of the
gap-free bytes, once and in order, and nothing captured is given up without a
loss being counted. FlowReassembly implements it under the identity on `conn`,
`from`, `got`, `out` and `losses`.

**ShardPool** is the thread structure. The capture thread's program counter
`cpc` follows `process_capture`; `then` says where it goes on after
`drain_ready_results`, which the code calls before and after each submission
and sweep. A worker's counter `wpc` follows `run_flow_shard` and
`handle_packet_work`. Each access to an atomic, each send and each receive is a
step, and so is each release of one flow, in any order (a hash map's). Payloads
are sizes: `size` bytes of a message, `prior` bytes of which came before.
Results of the workers stay until they are received; the queue of a shard holds
`QueueCapacity` commands. A write that fails takes the path that the code's `?`
takes from that place. **ShardPoolReference** runs the same input in one thread
as a fold and states what needs sums.

### fixdecoder

**OrderSummary** has one action per message (`record_message_with_lookup`, with
all it calls) and one for the end of an input line, where follow mode prints
and forgets completed orders. A message is the fields that decide anything: its
identifiers, statuses, time, whether it is administrative. `input` is a history
of all messages. **SummaryPager** opens on the records of a log: it draws, waits
for a key, and scrolls; the terminal is resized at any moment, also between a
drawing and the key it prompted. `promised` is what the log itself says the
counts are, `reached` and `jumped` are histories of what was seen.

**SecretFiles** has one action per access to the file system, for any number of
invocations. A path is kept as it was written, with `DirOf` for what it
denotes, because the code compares texts and the system compares files.

**DictionaryCache** is the process-wide map of lookups: a thread looks, builds
without the lock, and inserts unless another was faster; dictionaries remember
who built them, so that "the same dictionary" means identity, as `Arc::ptr_eq`
does. `Got` is what follows an answer: the override with the detected schema,
the fallback, or the merged pair.

**FileProcessing** is an invocation from its options to its exit code. The
options come from **CommandLine**, a function of the arguments, the arguments
of `FIXDECODER_DEFAULT_ARGS` and the terminal. A source is a sequence of pieces
(a message, half of one, other text, bytes that are no text) of which some end
a line; with `--follow` it may grow. `task` is the position of each source,
`call` (of the cache) the lookup its thread is in, `book` the counts and
session defaults, one per source when threads or pages are used and one shared
by all otherwise. Counting, the buffers of the threads, their ordered output,
an interrupt, a pager that leaves, and every exit are actions.
**FileProcessingReference** writes the whole output down as a function of the
texts and the command line (`Promised`) and refines **FileOutput**, the abstract
promise: block after block in the order of the sources, cut short only by an
interrupt or a reader that left, and an exit code of 0 only if all is there.
The refinement maps `printed` to the blocks of lines and answers, and `failed`
to a source that could not be read. `promised` is a variable only so that TLC
computes it once; it changes with the lines of a followed source alone.

**MessageDefs** turns a dictionary into what messages are checked with: the
order of fields, the required ones, nested groups, the group that owns a tag.
**MessageValidation** is `validate_fix_message`, **MessageRendering** the loop of
`prettify_with_report`. **MessageGrammar** is the reference: a message is read
by a grammar made from the XML entries, in all ways there are. **SchemaTree**
builds what `--message` shows, with its cache of components. **Messages** starts
from samples and makes mistakes, as a sender would: a field left out, written
twice, exchanged with the next, a wrong value, a wrong length or sum. Every
state is a message that may be on a wire. Expansion of components recurses, so
these modules have no theorems.

Every MC module gives the constants for TLC, and every `cfg` names the bounds.

## 3. The runs

| run | question | bounds, and why they are enough |
|---|---|---|
| `capture` | does every readable byte of a capture reach the flow, is what is written independent of the cuts, is a gap counted? | streams of up to 3 of 7 pieces (whole, empty-bodied, nested, cut and damaged messages) with every cut: two pieces mislead the scanner, the third follows the damage. PCAPNG: every sequence of up to 6 of 16 blocks, enough for two sections with an interface and a packet each |
| `flow` | does a flow keep the promise of MessageStream? are early segments and memory bounded? | 11 packets of two incarnations, in every order, with every subset lost; overlap of three segments, a retransmission longer than the first copy, a wrap inside the first message, half a message at the end. 16 tokens of memory, so that overflow happens; refusals and evictions at any point |
| `flow_strict` | does `--strict` notice every dropped message? (no) | five packets in every order |
| `pool` | do threads compute what one thread would, are the limits kept and failures reported, and does the program end? | 2 shards, 3 flows of which two share a shard, 5 captures whose limits cannot bind and 3 whose limits do, with sweeps, an end within a message, evictions, resets, an overflow, an unreadable packet; queues of one command, so that both sides block; any write may fail |
| `pool_race` | is output independent of the scheduling when a limit binds? (no) | one capture of two packets |
| `orders` | are records, identifiers and counters consistent, and does the pager show them? | any 4 of 9 messages about two orders, repetition allowed, in follow mode or not, lines ending anywhere: enough to complete, reopen, print and revive a record and to chain three identifiers. The pager over every log of up to 3 messages, 3 terminal sizes of which one is too narrow, every key and resize |
| `orders_split` | is there one record per order? (no) | 3 messages |
| `secret` | are copies whole or absent, and users' files untouched? | 4 invocations, two directories, at most four lines; any access may fail, any invocation may be killed |
| `secret_twice` | does an announced copy stay? (not if the file is named twice) | one invocation, two inputs |
| `files` | are output, dictionaries, counts and exit code right in every mode, and does the program end? | 14 invocations of up to 3 sources (threads, in sequence, pages with and without a grid, summary, `--validate`, `--follow`), with missing and unreadable sources, `--xml`, `--fix`, a Logon before and after what it decides; 176 command lines over defaults |
| `messages` | does the report of `--validate` amount to the grammar, and is every field shown? | 3 dictionaries with groups two deep, components, a session dictionary, an override; 8 samples with up to 2 mistakes: one to break a group, one to hide it. 36 small dictionaries with components within groups, each other and themselves for `--message` |
| `messages_required` | does `--validate` check the fields `--message` shows as required? (no, in FIX 5.0) | the same |

Deadlock is checked in the pool runs; there the program's end is an explicit
stuttering step. The other models really stop when their input is used up.

What is checked beyond types, by name:

* `CutIndependent`, `KeepsOnlyCandidates` (garbage is not kept),
  `DeliversReadable`, `HonestCapture` (a capture that ends without
  a loss gave every message and left nothing over);
  `ImplementsMessageStream`, `PendingIsAhead` (no early segment is left behind
  when its gap has closed), `FlowIsBounded`;
* `SameAsSequential` (of a capture whose limits cannot bind: what is written
  begins what one thread writes, and at the end both have the same messages and
  the same losses. Without an error from a failed write the program ends only if
  that write was the last one: then one message less is written than one thread
  does on what the workers were sent, and there is exactly one loss more),
  `Termination`;
  `FlowsCounted`, `FlowLimit`, `BytesCounted`, `MemoryBounded` (the byte limit
  is exceeded only while some worker is about to drop what exceeded it),
  `WorkerOwnsFlow`, `OutputInOrder`, `HonestExit` (a clean, lossless exit means
  that everything was written);
* `KeptOnce`, `StatusAddsUp`, `IdsStay`, `EveryMessageOnce`, `SharesAnId`;
  `CountsThroughBottom` (the running counts are those of the log up to the
  bottom order, README line 659), `NothingSkipped` (paging down shows every
  line, whatever is resized meanwhile);
* `NoPartialCopies`, `UserFilesStay`, `AnnouncedCopiesStay`;
* `ImplementsFileOutput`, `OneDictionary`, `HonestEnd`, `DefaultsComeFirst`,
  `Finishes`;
* `CleanIffWellFormed`, `NothingLost`, `GroupsAgree`, `ShownAsChecked`.

`PROJECT.json` has, for each of them, a mutation of the code under which TLC
finds it violated.

### Fairness

`pool`: weak fairness of the capture thread and of each worker. They are
operating-system threads that block only on channels (a full command queue, an
empty one, a join), and a thread that can run is eventually scheduled. Nothing
is assumed of the order in which they run. Weak fairness is enough because a
step that is enabled for a thread stays enabled: only the capture thread fills
a queue, only its worker empties it.

`files`: weak fairness of the main thread and of each thread's next step, for
the same reason. Nothing is assumed of the interrupt, of a source that grows,
or of the pager: `Finishes` asks for an end only without `--follow`, or once the
interrupt has come.

## 4. What the runs found

1. `flow_strict`: the first segment captured of a flow sets its `next_seq`. If
   it is not the first one sent, the segments before it are taken for
   retransmissions and vanish without a loss, so `--strict` succeeds although a
   message that was captured whole is missing (`pcap2fix/src/main.rs:915`).
2. `pool_race`: idle flows are evicted by each worker in its own time while
   `--max-flows` counts all shards, so whether a new flow is refused depends on
   scheduling; README line 1458 promises consistent processing of offline
   files.
3. `orders_split`: an order seen first by OrderID and then by ClOrdID keeps two
   records; a message that names both joins one of them. README line 1488
   promises one record per order.
4. `secret_twice`: `--secret-files b ./b` plans two outputs whose texts differ
   and whose file is the same. Creating the second fails and the clean-up
   removes the file, which is the copy announced before
   (`src/main.rs:898`); README line 526 promises that existing files are left
   alone.
5. `messages_required`: the embedded FIX 5.0 dictionaries have no header and
   trailer. `--message` and `--xml` borrow those of FIXT 1.1, messages are
   checked without them, so one without SenderCompID is clean
   (`decoder/tag_lookup.rs:439`); README line 489 says that required fields are
   checked.

Observed while modelling, without a run of their own because a single step
shows each of them:

* the order of `--xml` matters: a FIX 5.0 dictionary keeps the session
  dictionary that is there when it is registered (`SessionName` says which;
  README line 320 does not mention it), while `--message --header` takes the
  header from the embedded FIXT 1.1 even then;
* the FIXT default that a Logon names is kept for later sources when sources
  are read in sequence, and forgotten with each source by threads and pages
  (`ContextOf`);
* following, a line whose end has not been written is read in two parts, and a
  message cut in two is shown as text (`prettifier.rs:955`);
* colours are switched off after questions about the dictionary were answered
  (`main.rs` 326–331, README line 539);
* `--secret` rewrites BodyLength and CheckSum before validation, which hides
  wrong ones (`prettifier.rs:964`);
* what `--validate` reports is not shown when `--summary` is paged (`SummaryPager`
  in FileProcessing shows nothing of a line);
* the summary pager calls terminals of 52 to 58 columns too small, though those
  of 47 to 51 are not (`summary_pager.rs:298`); `PanesFit` begins at 59;
* required fields of an optional component count as required of the message;
* a bad `--style` in the defaults is refused even if the command line has
  another, other bad values in the defaults are not.

## 5. What is proved

All proofs are checked by `tlapm` from the named assumptions on the constants
(`PoolAssumption`, `CaptureAssumption`, ...), which say no more than what types
the constants have, apart from those discussed below.

**Induction** states induction with sets in place of predicates, so that the
provers can use it: a set that contains a number whenever it contains all
smaller ones contains all (`StrongInduction`), likewise upwards, downwards and
over the parts of a finite set. To prove P of every n, a proof defines the set
of the numbers of which P holds. On this rest the lemmas that a recursive
function follows its rule (there is a function that does, so CHOOSE finds it),
and those on sums over a set: what the sum is when an element is taken out, when
one summand changes (`SumChangesAt`), when all are zero. The same is done for
sequences, element by element from the left (`SeqInduction`): what a flattened
sequence is, and that sequences which begin others one by one, with nothing missing
before one that has begun, flatten to a beginning (`BegunInTurn`).

**FramingProofs** proves what `flush_complete_messages` does to a buffer of any
length. `Flush` is the scanner as a function of the position; `FlushReads`
compares it, position by position from the end, with `Read`, the reference that
looks at the whole buffer, in four cases: nothing from here on, a message that
is cut, one that is malformed, one that is complete. The theorems are what the
callers rely on: `FlushEmitsMessages` (exactly the messages of the bytes read
as a whole), `FlushInPieces` (two calls with bytes between them do what one on
all the bytes does), `FlushLeavesCandidate` (nothing is kept that cannot become
a message), `FlushKeepsOpen` (a message that is cut is not dropped),
`FlushSettles`, `FlushIsBounded`, `FlushNothing`. The hard part is a cut within a
begin string or a length field: what is kept must be found again when the rest
has come, and what is dropped must not have been the beginning of anything
(`RetainPartialBeginString`, `Keeps`). Two assumptions on the tokens are used:
a begin string has no delimiter and the delimiter is no length, as in the code.

**CaptureBlocksProofs**, for capture files of any length. `ReadableDelivered`
ties the interfaces to the descriptions of the section (`InterfacesOfSection`:
numbers count the bad ones too) and types the header; `Delivered` is
`fed <= sent`, with equality until something was unreadable, and is not asserted
of a reader that has failed, which stops between the two. `ScanInv` adds that
what was written and what waits in the buffer are together one flush of
everything received (`Scanned`); a step adds bytes, so `FlushInPieces` is its
whole proof, and `EmitsWholeMessages` and `KeepsNoGarbage` follow from what a
flush emits and leaves. `NoLossNothingMissing` needs besides that whatever was
skipped or left over has been counted (`LossesCounted`). The packets of a file
are the bytes of its stream, one after the other (`Truthful`).

**FlowReassemblyProofs**, for a sequence space of any even size, a connection of
any length and packets in any order. `AfterIsAhead` (of two offsets less than
half the space apart exactly the later one is after the other, though both are
known only modulo the space) and `SegmentJoins` are facts of the serial numbers.
`Sound(f)` is what holds of a flow between packets: it is new, or typed, with no
early segment that is ready (`Ready(f) = {}`) and within `MaxFlowBytes`. That
draining leaves nothing ready is an induction on the number of waiting segments
(`DrainRule`), as each round takes one out; that the bytes fit rests on the sum
of the lengths of the segments and on `FlushIsBounded`. `FlowsAreTyped`,
`DrainIsComplete` and `FlowMemoryBounded` follow.

`KeepsThePromise` is the refinement `Spec => ImplementsMessageStream`. The
invariant `StreamInv` relates the flow to the history that the abstract
specification speaks of: a flow without a next number follows nothing; any other
one is `Following` the stretch. That is, the offset it has reached (`Reach`) is
the end of the gap-free bytes, the buffer is what a single flush of all of them
would leave (`Left`), every early segment is a part of the stream (`Early`), none
is due, and the offsets captured are those reached and those the early segments
cover (`Covered`). Within a packet the weaker `Gathered` holds, of a flow that
has bytes in its buffer that were not flushed yet. It holds of a new flow
(`OpensStream`) and is kept when a segment is appended (`GatheredAppend`), when
an early one is stored, where of two with one number the longer covers the other
(`GatheredStore`), and by every round of the drain loop (`GatheredDrain`). After
the loop, `FlushInPieces` makes one flush of the old buffer and the new bytes out
of the two, so what is emitted are the messages the new bytes complete
(`FlushFollowsStream`). That no stretch with unwritten bytes ends in silence is
`UnfinishedIsHeld`: bytes behind a gap are in an early segment, and those of a cut
message are in the buffer (`FlushKeepsOpen`), so the flow is not empty when its
loss is to be counted. `StepFollows` puts the actions together; `Finish` adds
nothing because a buffer that was flushed has no message left (`FlushSettles`).

`ConnectionAssumption` says that packets are parts of what was sent and that data
on a SYN is the beginning of it. `WindowAssumption` says that a stream is shorter
than half the sequence space (2 GiB) and is used by the refinement alone. Without
some such bound it is false, of the code too: a segment half the space late looks
early. TCP keeps segments together by its window; here they come in any order, so
the whole stream has to be within the bound. Where the stream lies in the
sequence space is free, so the numbers may wrap around anywhere in it.

**ShardPoolProofs**, for every number of shards, flows and packets, every hash,
every limit and every input: `TypeCorrect`; `WorkerOwnership`, which is why the
two `expect`s in `handle_packet_work` cannot fail and why no two threads touch a
flow; `FlowCounterExact` and `FlowsBounded`; `BytesAccounted` and
`BytesBounded`; `OutputOrder`; `HonestExits`.

*The inductive invariant.* `TypeOK` is not inductive: a worker reads
`work[s].packet`, which only a packet command has, and the capture thread reads
`capture[pos]`, which exists only after a packet was read. `IInv` adds where the
capture thread may be when it uses its packet or its loop index (`CaptureInv`),
that commands sit at the shard of their flow (`QueueRouted`), that a worker
returns from a release to a place it may be in, with its packet if it is in the
middle of one (`ReleaseRouted`), and `WorkerOwnsFlow`, which in turn needs
routing: the flow a worker holds can be removed only by a worker of the same
shard, and that is itself. The proof goes action by action: lemmas type what an
action reads, others say what a release does, where threads stay, and what they
keep. `InvStep` puts the parts together.

*Counting flows.* `FlowsCounted` is inductive on top of `IInv`: acquiring adds a
flow that was not live, releasing removes one that was, by the finite-set
theorems on adding and removing an element. `FlowLimit` follows because
`MayAcquire` is evaluated in the same atomic step as the addition (a
compare-and-swap loop in the code). `OutputInOrder` needs only the types: only
`WriteResult` appends, and it appends the result whose index is the number of
results written.

*Counting bytes.* `BytesInv` is a ledger: the counter is what the flows hold
(`HeldTotal`) and what removed flows held and is still to be taken off
(`OwedTotal`), and it exceeds the limit by no more than what the workers hold
that are about to drop their flow (`ExcessTotal`). `MemoryBounded` alone is not
inductive: when one of two such workers has dropped its flow, the other must
account for what is still too much, so the invariant compares amounts. A step
moves one summand of each sum (`HeldMoves`, `OwedMoves`, `ExcessMoves`). That
both counters are back at zero at the end needs `EndInv`: a worker exits when
its table is empty, and the capture thread reaches the end when all have exited.

*An honest exit.* `HonestExits` joins the ends of the program: what was read and
what was written. `NumbersInv` says that the number of a packet is in one place (a
shard's queue, its worker's hands, the result channel, `pending`) and that a shard
has its numbers in order. A loss, once there, is never forgotten: `Clean` says that
none was counted and none is on its way in a report or a result, and a run that is
clean was clean before (`CleanBefore`). So the rest, `Faithful`, need be shown of
clean runs only: every packet read was readable, and those to be handled are
numbered from zero (`ReadInv`); a command holds the packet of its number
(`CommandInv`); every number is somewhere or written (`NothingGoes`, which a failed
write would break); a flow holds as many bytes as the last packet its worker dealt
with leaves of a message (`FlowInv`), which makes the `prior` of the next packet true
of the flow, so that what the worker computes (`HandInv`), sends and the capture
thread writes (`ResultInv`) is the whole message. The last part is that no shard is
ahead or behind: the packets of a flow are handled in the order of their numbers.
At the end all workers have left with empty queues and their losses were added
(`LeavingInv`), the channel and `pending` are empty, so every number was written
(`AllWritten`).

The theorem rests on `PriorAssumption`: the `prior` of a packet is the number of
bytes of its message in earlier packets of the flow. It is the meaning of the field,
by which the model abstracts from payloads; the captures of the runs are within it.

**SummaryPagerProofs** begins with the tracker: `TypeCorrect`, `OrdersKeptOnce`,
`FooterAddsUp`, `IdsNeverMove`. The invariant is the types, finiteness of the
records (the footer counts them), `KeptOnce` and `StatusAddsUp` together: the
counter of completed orders moves when a record changes its place, so its
correctness needs that a record has one place, and that in turn needs that the
completed list has no duplicates when one is taken out (`RemoveAtProperties`,
`TakenOut`).

Where each message is takes `FlowInv`: events are messages of the log
(`EventsAreInput`), an identifier was noted for the key of a record that has a
message naming it (`IdsNoted`), no message is in two records (`HeldOnce`), and a
message is in one exactly when it names an order itself or refers to a message
that is (`FlowHeld`), which by induction is the reference `OrderFlow`
(`FlowIsHeld`). What makes it hard is that records move: a completed one may
return to the open ones, and one that was printed may get a successor with the
same key; `Taken` says of each message which one record changes, and `MessagesCountOnce`
and `OrdersNeverMix` follow. `SummaryIsSound` carries all of it over to the
composition with the pager, whose steps leave the tracker alone, and `PanesFit`
is about the arithmetic of the panes.

Of the pager itself, `PagerCountsRight` and `PagerSkipsNothing`, for any log, any
sizes of the terminal and any keys and resizes. `ViewInv` has three parts.
`LogInv`: the message log is the typed part of the input in its order, and a
record holds its last message, so that the records sorted by last message have
different positions (`SortedExists`, `PagedAre`) and one cursor over the log
counts right for each (`CountOnIs`, `CountedIs`). `SectionsTyped`: sections have
lines, so they begin one below the other (`StartsAscend`) and the last one that
begins at or above a line owns it (`IndexIsOwner`). `ScreenInv`: the last drawing
is of its scroll position and its size (`DrawingIs`), and who left nothing out
stands no further than the first line not yet drawn. The sums and the search are
folds over sequences; `AddsLastIsSum` and `IndexIs` say by induction over sets of
positions what they come to. The proof needs that a section is not empty
(`FrameLines` is positive), as `render_record_header` always writes a line.

**SecretFilesProofs**, for every set of invocations, inputs and files:
`UserFilesKept` and `AnnouncedKept`. A clean-up removes whatever is at the output
path, so the invariant must know that no output of an invocation that is past
its planning lies where a user's file is: `PlannedFree` (planning found nothing
there, and users' files are not removed meanwhile) and `PlanFollowed` (what an
invocation writes at its n-th turn is the n-th output it planned). For
announced copies `Held` says that a copy announced and contested by nobody else
is there; it stays (`HeldStay`) because a clean-up removes only what its
invocation plans.

`CopiesAreWhole` says in addition that what is there is right. `CopyInv`: a copy
on disk is whole, or its invocation is at it or was killed (`CopiesWhole`); what
an invocation has written is the obfuscation of as many lines as it has, and its
aliases are those of the values it has seen (`CopiesOwn`, `Faithful`); copies
not begun are empty. A line is right because the number of a value is the number
of values of its tag up to its first occurrence (`Number`), counted for the next
line from the aliases known so far (`AddsLine`). `SecretAssumption` says that no
input is the place of an output, so copies of copies are outside both the runs
and the theorems.

**FileProcessingProofs** begins with the cache, in three steps. `CacheIsConsistent`
proves `OneDictionary` of the cache alone, under the discipline `CacheNext`:
dictionaries are registered while nobody asks (`Fresh`). Its invariant says that the
lookups and the merged pairs have the key they are stored under and that whatever a
call holds is what is stored (`CallOK`), so that the thread that comes second finds
the same dictionary. `UsesTheCache` proves that every step of FileProcessing, whatever
the options, is a step of the cache or leaves it alone, which needs that sources
are not read before all `--xml` files are registered (`ProgramInv`).
`SameDictionary` combines them. This is a refinement under the identity, proved
for every command line.

The rest is about the program, for any invocations within `InvocationsAssumption`:
arguments are a finite sequence, a file has pieces of which some are there, and a
message is between two of the `Parties` and its Logon names a schema there is. That
types the constants. It says nothing of what is given together.

`FileTypes` is `TypeOK`. Types are inductive only with the cache's invariant, as a
session's default is a key of a dictionary and a dictionary found has a name.

`HonestCounts` is `HonestEnd`: what is shown of the counts at the end is the number of
messages read, and each source to be diagnosed is diagnosed once and in order. With
`--nocounts` no counts are shown. With `--validate` the books count nothing
(`Counting`), but the summary's pager counts the summary's own log, which has the
validated messages too (`ClosingBook`, `main.rs:390`); `CountsDue` says so.
`HonestInv` has five parts. `InOrder` says which sources are begun, done and
emitted, `DiagnosedSoFar` whom an error message was written for. `BooksAgree`: where
books are apart, each has the messages of the lines its source finished (`Told`); a
shared one has the sum over the sources, or over those whose buffers were emitted when
threads decode. A step adds the messages of one line to one book, so the sum changes
at one place (`SumChangesAt`), and how many messages of a type a sequence has is a sum
over it that survives flattening (the lemmas on `Weight` in **Induction**).
`TrackedAgrees` says the same of the summary's log, whatever is validated.
`ShownSoFar` carries this to the output: the buffers hold no counts, the last counts
printed are those of the book unless that has changed since, none are printed before
the summary's pager closes, and what `Close` writes makes it right also when pages show
the counts of each source.

`DefaultsAreOverridden` is `DefaultsComeFirst`: an invocation with defaults of the
environment does what one does that has them before its arguments, without those that
are given again. The defaults that stay are found one by one (`KeptAppend`), and what
remains of them is again acceptable (`RemainsAre`, `Accepted`), so that both parts
`Joined` are (`JoinedIs`). Then the two readings agree option by option: a single
value is that of the argument, if there is one (`SelectedByEither`), those of
`--xml` follow each other (`ValuesOfBoth`), the run ends with its options in both or in
neither (`EndsByEither`), and so do all fields but the decorations
(`OptionsByEither`), which add up (`StyleOfBoth`).

`DecodesInOrder` is the refinement `ImplementsFileOutput`: for every command line, any
number of sources of any length, and any order of the threads, each step of the
program is a step of FileOutput or changes nothing of it. It assumes that
`NoDictionary` is none of the dictionaries (`NoDictionaryAssumption`), as `None` is
none in the code. What is on the output is compared with what is promised source by
source: of each, the blocks that are out (`Outs`) begin those that are due (`Dues`),
and no source has any out while one before it lacks some (`OutsBegun`, `OutsInTurn`), so
all that is out begins all that is promised, and a reader that is interrupted sees a
beginning of each (`BegunIsCut`). Where a file is read before it is shown, to measure
its lines (`WideGrid`: `--nowrap`, a pager, the grid in the style, no `--validate`), none
of its lines are due if some bytes are no text; without the grid those before them are.
The invariant behind this, on top of `TypeInv`, `CacheInv` and `HonestInv`, has these
parts, all in **FileProcessingInvariants**:

* `StageInv`: the options end before anything is loaded, all `--xml` files are
  registered before a question or a source is looked at, and sources are read in
  one stage;
* `NamesInv`: each dictionary in the cache, with its session's, is from an `--xml` file
  exactly if one was given for it by then, and a lookup under way will answer with the
  dictionary `NameFor` says, whichever other threads store in the meantime;
* `DefaultsInv`: a book remembers for a session what the last of its Logons named, of
  the messages the book has heard: those of its source, or of all sources so far when
  they share it;
* `WordsInv`: so each message of the line that is being resolved has the dictionary
  that what was said before it gives it, and the lookup under way asks for it;
* `ReadInv`, `OpenedInv`: the lines a source was read in are those of its text up to its
  position, all of them when it is done unless it was interrupted, and none when
  it could not be opened;
* `WriteInv`: the buffers of the threads, or the output, hold what is due of the lines
  finished so far; `Answering`: the questions answered so far are the first ones;
* `KeepsPromise`: `promised` is `Promised`. Only the lines of a followed source change
  it, and they add to it at the end of that source (`PromiseGrows`).

Lines cut by `LineAt` are shown to be those `TakeLine` takes (`LinesBegin`, `NextLine`),
and what is shown of some lines begins what is shown of more (`DecodedMore`), which is
where a session's default that came too early or too late would break the proof.

## 6. What is only checked, and what is not modelled

Only TLC:

* termination (`Termination`, `Finishes`): liveness under fairness, and ENABLED,
  are outside the proof system;
* `StrictMeansNothingDropped`, which the code violates (section 4);
* `SameAsSequential`, which needs that the steps of different shards commute, and
  a proof of what a fold computes;
* everything about single messages: expansion of components is written with
  recursive operators, which the provers cannot use.

Assumed: an embedded dictionary has each tag in one place of a message. The
generated ones do; `MessageDefs` would follow the code also where they did not,
the grammar would not.

Left out on purpose: layout, colours and wording; parsing of packets and
capture files (crates `pcap-parser`, `etherparse`), of XML and of command
lines' spelling (clap also takes whatever follows the first file for another
file, so options come before the files in `given`); errors of writing to the
output of `fixdecoder`, and the live footer of the summary; numbers of lines, which start at 1 with each pass of
follow mode; listings, columns and the details of a tag in schema display; the
options passed to `less`; a worker that panics, and a wrap of the packet index.
A read error of the capture file ends `pcap2fix` at once and is not a separate
step. Removing a file is taken to succeed. That the last rendering of the order
summary drops the merged dictionaries of the `--fix` key (`summary.rs:235`) is
left out: they would be built again with equal contents, and nothing is looked up
afterwards.

Not modelled: message categories and sensitive tags (generated tables), the
help screen, key-binding installer and width helpers of the terminal
(formatting and file editing without a state of their own), generators and
build scripts.

## 7. Plan

What was planned to be modelled is there. What would add most next are the losses in
ShardPool: `HonestExit` says what a run without losses wrote. That `SameAsSequential`
counts the same losses as one thread would is more: each shard's part of the run
would have to be compared with its part of the fold.
