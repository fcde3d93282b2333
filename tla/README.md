# Verification of the IoT gateway

This directory holds TLA+ modules for the gateway in `src/`, the TLC
configurations that check them on small instances, and proofs for TLAPS.
`PROJECT.json` lists the runs, maps every definition to the lines it models and
gives, for every property, a mutation of the code that breaks it.

## 1. Inventory

The gateway is one process with eight threads and twelve channels
(`src/src/main.rs:445-862`). Devices talk to it over a serial line, a LoRa
radio or a text file; it talks to an MQTT broker through the paho client and
keeps undelivered messages in an SQLite table.

| Part | State | Operations | Talks to |
|---|---|---|---|
| `original_data_read_thread` (main.rs:459-532) | the input: `HwIf`, `SpiIf` or `FileIf` | poll the input; send a command to the serial line | raw channel; commands from the subscriber |
| `original_data_handle_thread` (553-580) | none | apply the template (`format_msg`, `data_template`), or drop | raw channel to datum channel |
| `data_manager` (708-801) | `cloud_is_connected`, the datum at hand | Notice; Message while online, offline; publish result; delete reply | publish, INSERT/DELETE and trigger channels, waits for their replies |
| `offine_data_handle_thread` (582-628) | the rows it read | on the trigger: QUERY, then one row per 100 ms as a Message with its id | database, datum channel |
| `db_handle_thread` (630-700), `data_manager.rs` | the table | INSERT, QUERY, DELETE by id | replies |
| `mqtt_pub_thread` (mqtt.rs:8-150) | the paho client | connect, reconnect, announce `Some(0)`, subscribe, publish | result and announcement channels |
| `mqtt_sub_thread` (mqtt.rs:152-175) | the consumer's iterator | forward a command; announce `None` for a loss | announcement channel, commands |
| `cloud_state_broadcaster` (803-837) | none | pass an announcement on, first to the uploader, then to the data manager | publish channel, datum channel |
| `SpiIf` (interface.rs:160-376) and the SX1276 | registers, FIFO | `setup_lora`, `read` | raw channel |
| `HwIf` (interface.rs:98-161) and min-rs | the serial port, the frames decoded so far | `read`, `tx`, `tx_space`; `poll`, `get_msg`, `send_frame` | the serial line |
| `FileIf` (interface.rs:82-96) | a text file that another program writes | `read`: to the end of the file, then empty it | raw channel |
| template engine (`data_template`, main.rs:220-293) | none | find slots and calls, replace them one by one, parse the result | called by `original_data_handle_thread` |
| device firmware (`arduino/UNO/min`) | `min_context` | `min_send_frame`, `min_poll`; LED commands | the serial line |

What is hard here:

* **Two writers of one channel.** Connections are announced by the thread that
  makes them, losses by the thread that hears of them; only the order of their
  sends decides what the data manager believes.
* **Calls over channels.** Publish, DELETE and QUERY are a message and a reply
  without a name; a reply too many or too few shifts all later ones.
* **Replays.** Every reconnection starts one, rows are sent 100 ms apart and
  deleted one by one, and the next loss and reconnection may come in between.
* **Reuse of row ids** by `INTEGER PRIMARY KEY` (data_manager.rs:25).
* **Failures**: every call into SQLite and paho may fail, and each failure has a
  branch of its own; the process may die at any moment, and only the table stays.
* **The radio** receives while its registers are read.
* **The serial line** loses and changes bytes; framing must recover. Both
  directions share one thread that sends one command and passes on one frame per
  round, while a read may bring several.
* **The text file** is read and emptied in separate calls, and another program
  writes it in between.

What makes each part correct: the data manager's belief follows the connection
and a live connection has its subscription (connection tracking); no message
vanishes without a known cause, a stored one stays until it is uploaded, replies
match requests and the backlog drains (store and forward); ids are fresh
(table); messages are whole packets (LoRa); frames arrive as sent and noise
costs no more than it must (framing); commands take effect at the device in order,
at most once and unchanged, and readings are not held back (remote control); a
line of the file is lost only in the window between read and emptying, and the
template replaces what it says it replaces (text input).

## 2. Modules

```
CloudLink --+                         MCCloudLink     CloudLinkProofs
            +--> Gateway              MCGateway       GatewayProofs,
            |     |  : implements                     GatewayPromiseProofs
DeviceStore-+     |  StoreAndForward
                  +> GatewayLive      MCGatewayLive
RemoteControl                         MCRemoteControl RemoteControlProofs
    : implements CommandChannel
LoraRx                                MCLoraRx        LoraRxProofs
DataTemplate ---> TextInput           MCTextInput     TextInputProofs
MinFraming                            MCMinFraming    MinFramingProofs
                                                      FoldProofs (for both)
```

**CloudLink** is the connection and who is told about it. `link` and
`subscribed` are the broker's view of the connection; `consumerQ`, `announceQ`,
`pubQ`, `datumQ` and `triggers` are the channels a report travels on; `pubPc` is
the point `pub_closure` is at (`PubPc`). A loss (`LinkLost`) puts a `None` on the consumer channel, as
paho does. Each call to the client is an action with its error branch, enabled
by a member of `Faults`: a connect without `connect_response`, a connection that
comes up after the 5 s wait (`LateConnect`), a failed subscription. The two
sends of `cloud_state_broadcaster` for a loss are two steps. `misreported` is a
history variable: the last connection was announced before a loss that came
first, or not at all; the next loss puts it right.

**DeviceStore** is the table as a function from row ids to messages, without
variables: `NextRowId` is SQLite's rule for an `INTEGER PRIMARY KEY` (largest
id in use plus one), `InsertRow`, `DeleteRow` by id, `FirstRow` the order of
the SELECT.

**Gateway** extends both with the upstream path. A message is its number. The
data manager's two calls to `recv()` for a reply are the values `await_pub` and
`await_del` of `mgrPc`; the offline thread's are `await` and `send` of `offPc`;
every other handler runs from one `recv()` to the next in one action, which is
sound as the only things it touches are its own state and the ends of
channels (a handler that sends twice to queues someone else also writes is
split). `sent`, `fate` and `overlapped` are history: how often a message was
published, what else became of it, and whether a QUERY ran while a row of an
earlier replay was still under way. `Crash` empties all channels, puts every
thread at its start and keeps the table.

**GatewayLive** adds one history variable to Gateway. The table is read again only
when the data manager learns of a connection; `stranded` holds the messages that
stay in it for another reason than a lost connection, and so wait for the next one:
`publish()` failed on a live connection (`PublishFailsOnLink`), or the row was passed
over in a replay (`RowPassedOver`).

**StoreAndForward** is what Gateway promises, without threads, channels or the
connection. A message is `new`, in `memory`, in the `table` or `gone`. It is
stored only if it was not uploaded, leaves memory or the table only once it was
uploaded or with a loss on record, and is uploaded again only from the table.
Gateway gives `Stage(m)`, `sent`, `fate` and `overlapped` as the refinement
mapping; `ImplementsStoreAndForward` is the abstract specification as a property
of Gateway. After overlapping replays (`muddled`) it leaves uploads and removals
of rows open, as the code does (gw_reuse); what is in memory is kept even then.

**RemoteControl** is the serial line in both directions: a command from the
broker through the client, `mqtt_sub_thread` and the command channel to the LED
of the device, a reading from the device to the raw channel. The round of
`original_data_read_thread` is three steps (`SendCommand`, `ReadPort`, `GetMsg`).
A command has a number and a kind, which stands for its text: `Size[kind]` is the
length, `Says[kind]` what the device makes of it and `SaysCut[kind]` what it makes of
the first `Size % 256` bytes, which is what `msg.len() as u8` leaves. The
connection comes and goes as CloudLink allows; a frame arrives whole or not at all,
which is what MinFraming is about.

**CommandChannel** is what remote control promises: a set of commands taken over
and the LED. The oldest takes effect; a disturbance may take some out; nothing
is promised of those that do not fit a frame but that each is used up.

**DataTemplate** is the template engine as operators on texts that are sequences
of tokens: slots, calls, numbers, letters in strings and the marks of JSON.
`Filled` replaces the slots one after the other in the text so far, as
`format_msg` does (`FillSlot`), then the calls (`FillCall`); `Rewritten` is the simultaneous replacement the
documentation describes, `FitsTemplate` the messages it is meant for. A string may
hold anything, quotes, marks and slots included.

**TextInput** composes it with `FileIf::read` (`ReadChunk`, `ReadEnd`,
`EmptyFile`) and the handling thread, against a writer in one of three modes:
`append`, `overwrite` (opening truncates the file), and `polite`, which waits for
an empty file. A line the gateway removes without having read it is in `wiped`; one
written between the end of the file being met and the file being emptied is in
`late`.

**LoraRx** is `SpiIf::read`, one action per SPI transfer, next to a radio that
may receive between any two of them. A packet is its number; `current_addr` and
`received_count` are both the number of the packet they were read for, so that a
torn read is `addr # count`. Its kind says whether it is text, whether it is long
enough for the cut at interface.rs:338, and whether its CRC is right, each
independently of the others. The bytes of the FIFO are one transfer in the
model: a packet that arrives during them changes nothing that is read.

**MinFraming** is a sender (`on_wire_bytes`, `stuffed_tx_byte`), a line and a
receiver (`rx_byte`, one action per case of its switch). `TxByte` is one call of
`stuffed_tx_byte`, `Stuffing` all those of a frame: the bytes on the wire and the
count of header bytes they leave. The four checksum
states are one with a list of bytes. The CRC is the parameter `Checksum`. `starts` and
`begun` are history: how often the receiver took the start of a frame, and the bytes
it has taken since the last one.

Channels are unbounded FIFO sequences, as `mpsc::channel` is. A send never
fails, as no receiver is dropped while the process lives: the error branches of
`send` only log.

## 3. Runs

| Run | Question | Bounds | Result |
|---|---|---|---|
| link_belief | does the data manager know of a live connection when all is quiet? | 1 loss | violated |
| gw_safety | is every message accounted for, do replies match, what explains a duplicate, do reports keep their order among the messages, is a live connection subscribed? | 2 messages, 2 losses, connections that come up unannounced | holds |
| gw_faults | is every message accounted for under every fault and a crash, and is every step one of StoreAndForward? | 3 messages, 1 malformed, 1 loss, 1 crash, all faults | holds |
| gw_live | does the backlog drain but for what is stranded, does the gateway stay connected and aware? | 2 messages, 1 loss, 1 crash, publishes and rows that fail | holds |
| gw_reuse | is a stored message kept until uploaded in every case? | 2 messages, 2 losses | violated |
| gw_query | is every QUERY answered? | 1 message, QUERY may fail | violated |
| lora_read | whole packets, in order, repeated only as transfers fail, none corrupt, last text heard? | 3 packets of 6 kinds, 2 failing transfers | holds |
| lora_crc | texts heard after a CRC error? | 2 packets | violated |
| min_noise | frames as sent, recovery from noise, frames begun only where one was sent or noise was, delivered only as a sender would have put them on the wire? | 3 frames, 2 bytes of noise | holds |
| remote_control | do commands take effect in order, once, unchanged, and in the end; do readings arrive in order, all of them? | 2 commands of 5 kinds, 3 readings, one no text, 1 loss, 1 frame lost, 1 crash | holds |
| text_input | what is lost of a file, are lines taken in order and again only as truncations fail, is the template applied at once, what is refused and what passed on, is every line handled in the end? | 3 lines of 8 kinds, 3 ways of writing, 1 failing truncation | holds |
| text_wiped | is a line safe that is written once the file has been emptied? | 1 line | violated |

Why the bounds are enough. One loss is needed for a replay, two for replays that
overlap; two messages for one to take the row id of another; a third message in
gw_faults lets a malformed one come between two good ones. Threads and handlers
have no state that counts beyond that; the proofs need no bounds. Three packets let one be read,
one arrive meanwhile and one come later. Three frames are the frame hit by
noise, the one that may suffer and the first that must arrive; the payloads hold
two header bytes in a row at their end and at their start, so that runs of
header bytes cross from the payload into the checksum, and the stand-in checksum
yields runs of its own that end at the end-of-frame byte. Two commands are enough to
come out of order or to have one left behind; three readings are as many as one read
brings; the
kinds of commands are the two the device knows, the longest that fits a frame, the
shortest that does not, and one whose first 256 bytes wrap to a command the device
knows. Three lines are the line that is read, one in the window and one after it; the
kinds of lines are one for each branch of `format_msg`, strings with a quote, with
quotes that go on as JSON and with a slot in them, and one that is not UTF-8.

`CHECK_DEADLOCK FALSE` is in the LoRa and MIN configurations only: there the
thread may be dead, or all frames received. In the other runs a deadlock would
be reported; the uploader always has a step to take (its 500 ms timeout), and the
reading threads of RemoteControl and TextInput go on with their rounds.

### What the violated runs show

* **link_belief** (`QuiescentBelief`): a loss, then the uploader reconnects and
  announces `Some(0)` before `mqtt_sub_thread` gets to announce the `None`. The
  data manager takes the loss last and stores everything from then on, though
  the connection is up, until it is lost again.
* **gw_reuse** (`StoredUntilSentAlways`): a second reconnection while a replay is
  running replays a row twice; after the first DELETE its id goes to a new
  message, which the second DELETE removes.
* **gw_query** (`QueryIsAnswered`): after a failed SELECT no reply is sent and the
  offline thread never wakes up again.
* **lora_crc** (`TextHeardAfterCrcError`): the flag of a CRC error is never
  cleared.
* **text_wiped** (`PoliteLinesAreRead`): `FileIf::read` empties the file also when it
  has read nothing. README.md:52 asks to write once the file has been emptied, but a
  line written between that read and the emptying that follows it is gone.

Some behaviour that a reader of the documentation would not expect is in the models, but
has no run of its own: the properties that hold name it as their exception.

* A connection that comes up after the uploader gave up waiting for it (mqtt.rs:133) is
  neither announced nor subscribed, and a subscription that failed (mqtt.rs:64) is not
  tried again, until the next loss (`ConnectedImpliesSubscribed`, `StaysConnected`).
* The length of a command goes out as `msg.len() as u8` (main.rs:476), so a command of
  263 bytes that begins with `turn_on` is the command `turn_on` to the device
  (`ImplementsChannel`: CommandChannel promises nothing of what a long command does).
* Bytes that are not UTF-8 make the read of the file fail before it is emptied; they stay
  in it, and whatever is added to them stays too (`EveryLineIsHandled`).
* Slots are replaced one by one in the text so far, so a value that reads like a later
  slot is replaced by the value of that one (`WrittenAsTemplate`).
* A string is put between quotes unescaped (main.rs:241); one like `","x":"` comes out as
  two members (`RefusedForCause`).

Two comments of the code are wrong without consequences. The branch at main.rs:796
that "in theory" is never reached is reached in gw_safety (a loss in the middle of
a replay); no message is lost by it, as `StoredUntilSent` and
`ImplementsStoreAndForward` show. min.c:448 says that three header bytes always
start a frame; a stray header byte before a frame shifts the count, and the
frame is missed. `CleanFramesArrive` shows that the next one is not, `StartsAreSent` that
the opposite does not happen: what is inside a frame never starts one.

The positive properties state what remains true: `StoredUntilSent` holds as long
as replays do not overlap, `BeliefFollowsLink` unless the last connection was
announced out of order or not at all, `ConnectedImpliesSubscribed` and
`StaysConnected` if no subscription fails and no connection comes up unannounced,
`LastTextHeard` unless there is a CRC error on record, `WipedOnlyInWindow` for lines
written outside the window, `WrittenAsTemplate` for strings that are no slots,
`RefusedForCause` with the two causes it names.

`BacklogDrained` says what a gateway that stays online must have uploaded: everything
read, except messages in `stranded`. A publish that fails although the connection is up
(mqtt.rs:103) puts its message into the table behind the back of the replays, as does
a row that cannot be read (main.rs:602): the code comes back to them only with the
next connection. A publish that fails because the connection was lost is no exception,
as a replay follows it. Neither are rows whose INSERT is still under way when the
replay begins. The run has both kinds of failures, on a live and on a dead connection.

`EveryLineIsHandled` has three exceptions, each of which is needed: lines of a
writer that overwrites them, lines wiped in the window, and a file with bytes in it
that are not UTF-8, which blocks all that is in it.

### Fairness

`GatewayLive!LiveSpec`: weak fairness for each thread (the operating system runs
every thread; each blocks only on an empty channel), and strong fairness for a
successful reconnection: the uploader tries again and again, about every 0.5 s
(mqtt.rs:97-133) or 10 s at the start (mqtt.rs:87), and an attempt is assumed to
succeed at some point if there are infinitely many. Nothing is assumed of
reading, losses, crashes or faults, a publish may fail every time. `LoraRx!FairSpec`: the thread polls.
`RemoteControl!FairSpec`: the two threads, the network, the handover and the device
keep going; nothing is assumed of publishing, connecting, noise or restarts, and
`CommandsDelivered` speaks of what was taken over. `TextInput!FairSpec`: the two
threads keep going; nothing is assumed of the writer.

## 4. Proofs

All proofs are checked by tlapm. What they assume is what the constants are
(`CloudLinkAssumption`, `GatewayAssumption`, `LoraAssumption`,
`RemoteAssumption`, `FramingAssumption`, `TextAssumption`) and no bounds. Two of
these say more than a type: a checksum is four bytes, as min.c:137-140 cuts it, and
the template and the strings of a message are sequences of tokens. Two theorems on what
the template refuses have a hypothesis on the template, named below; none has one on
what the devices send.

* **CloudLinkProofs.** `LinkTypeCorrect`; `SubscribedWhenConnected`;
  `BeliefIsOrdered`, the property the design hinges on. `BeliefFollowsLink` is
  not inductive: what the data manager *will* believe depends on the first
  non-empty one of four queues. `BeliefInv` adds that nothing is
  under way before the first connection (`NotYetConnected`), with which each
  step either appends a report at the end of the path (`AppendNotice`), moves one
  along it without change (`TakeNotice`, `SameReports`), or sets `misreported`.
* **GatewayProofs**, the table. `FreshRowId`: for a table of any size the id of a
  new row is in use by no row and is not 0, the id that marks a fresh datum. It
  rests on `LargestNatural`, that a finite non-empty set of naturals has a largest
  element: a smallest set without one would have one once an element is taken
  away. Lemmas: the operations keep tables tables.
* **GatewayProofs**, types and calls. `TypeCorrect`. As an invariant it needs two facts that are
  not types: the datum is a Message while the manager waits, so that its id and
  text exist, and the offline thread has rows left while it sends, so
  that there is a first one. `CallsAnswered`: replies match requests. The three
  calls are each inductive next to the types: a queue that carries requests of one
  kind among others is reduced to the set of that kind (`TakeFromQueue`,
  `PutInQueue`), `ResultRequests` and `MessageRequests` say what the manager may
  add to the database queue and when it waits.
* **GatewayProofs**, loss. `NothingLostSilently`, the gateway's main promise.
  `NoSilentLoss` is not inductive: the manager forgets a replayed datum when it
  is offline or could not publish it, and forgets a fresh one on a positive
  result. `LossInv` adds that every replayed datum, every row of the table and of
  a reply under way was stored before (`ReplayedWereStored`), and that a positive
  result on its way is about the datum in the manager's hands (`ResultIsTrue`),
  which needs the publish call of `CallsAnswered`.
* **GatewayPromiseProofs**, the table. `StoredStays`: a stored message stays in the table until
  it was published, as long as no replay overlaps another. A DELETE names a row
  by the id it had when it was queried, so the proof follows each row
  through a replay. `StoreInv` says that a row is in at most one of the query
  reply, the rows listed, the datum channel and the manager's hands (`RowOnce`), that
  what each of them says of the row is what the table says (`ReplaysMatch`), and
  that a DELETE under way is about a message that was published
  (`DeletedWasSent`). `RowOnce` is what fails once replays overlap.
* **GatewayPromiseProofs**, the promise. `PublishedOnce` (`DuplicatesExplained`) and
  `KeepsPromise`: Gateway implements StoreAndForward. Both rest on `FreshInv`:
  a message that has not been stored is in exactly one of the raw channel, the
  datum channel, the manager's hands and an INSERT under way (`AtOnePlace`),
  nothing is on its record but a publish whose positive result has not been
  taken yet (`FreshIsNew`), and no two rows hold the same message (`OneRow`). With it
  every step of Gateway changes the stage of at most one message, or of those in
  memory at a crash, and the lemmas say for each handler which step of the promise
  it is (`PromiseStep`).
* **LoraRxProofs.** `LoraTypeCorrect`, `PacketsAreWhole`, `CorruptStaysOut`. The
  properties are about what was delivered, the invariant `LoraInv` about the packet
  in the thread's hands: whatever came after its address was read is a hit
  (`LaterIsHit`), it is later than all delivered ones until a transfer fails
  (`NotYetDelivered`), and while CRC_ERROR is clear, or a packet is being read, all
  corrupt ones so far were hits (`CorruptIsHit`).
* **RemoteControlProofs.** `CommandsKeepPromise`: RemoteControl implements
  CommandChannel. The promise speaks of a set, the code of four queues;
  `PathInOrder` (numbers grow along each queue and from one to the next) makes the
  head of the line the oldest command and shows that it is nowhere else, and
  `FramesAsPublished` that what a frame says is what was published if the command
  fits. `ReadingsStayInOrder`: the three queues of readings are one sequence cut in
  two places; a read and a get_msg only move the cuts, a reading that is no text, a lost
  frame and a restart leave out a part (`DropMiddle`). `RemoteTypeCorrect`.

* **FoldProofs.** What the other two need of `FoldLeft`, for an operator that is a
  constant of the module: a fold is the last of a run of intermediate results
  (`FoldRuns`), so `FoldEmpty` and `FoldAppend`. A theorem that takes an operator
  as a parameter cannot be used by the provers, nor can one be proved by
  the library's induction over naturals; both are avoided. `Op` is put in by
  `INSTANCE`, and what an induction would show holds of every number up to n
  because a smallest exception would not be one (`UpTo`, from `LeastNatural`).
  `FoldConcat` and `FoldHead` take a fold apart at any place.
* **MinFramingProofs.** `FramingTypeCorrect` needs to know how much of a frame is
  missing in each state (`AsAwaited`): a payload as long as announced has been left
  for the checksum, so that one more byte cannot make it longer.
  `CleanFramesAlwaysArrive`: noise costs the frame it hits and at most the next,
  and without noise what is received is what was sent. `CleanInv` says of the
  frame on the line how far it has come (`Follows`): n of its header bytes, k bytes of
  the body, or those and a stuff byte still to come. What is left of the wire
  then is what stuffing adds after the first k bytes (`Left`), `seen` is the
  sender's countdown turned round, and `frame` is the first k bytes taken apart
  (`Decoded`); this is what makes destuffing undo stuffing, for every payload and
  every checksum, runs of header bytes across their borders included. It holds
  from the second frame after the last noise on (`InStep`); the first one may
  find the receiver with one or two header bytes counted, and leaves it with none,
  because the last byte of a frame is not a header byte (`EndsWell`).
  `StartsAreAlwaysSent`: the receiver begins a frame where one was sent, and at most
  once more for each byte of noise; it delivers no more frames than it began. What is
  not inductive about it is that a byte of noise may turn up as a start only many
  bytes later. `StartsInv` therefore looks ahead: it bounds the frames begun once all
  that is on the line has been read (`Scanned`, a fold over the line, which keeps of
  the receiver only the count of header bytes). One byte more, less or different
  brings one receiver at most three header bytes ahead of the other, and it stays no
  further ahead whatever both read then (`Ahead`), as a start takes three header
  bytes and any other byte takes the count from both. A frame itself starts one frame,
  its own (`ScannedOnWire`), as two header bytes in it are followed by a stuff byte.
  The theorem needs nothing of the checksum but its length.
  `DeliveredAsFramedAlways`: what is handed over has been read byte for byte as a sender
  puts it on the wire, whatever the line did. `BegunInv` relates the bytes since the
  start of the frame (`begun`) to `frame`, `state` and `seen`: they are the stuffing
  of what has been understood of the frame so far (`Understood`, `StuffedStep`), with
  the checksum compared once it is complete.
* **TextInputProofs.** `SubstitutionIsSimultaneous`: for every template and message,
  replacing slot after slot in the text so far is replacing all at once, if the
  message fits the template and has no string that looks like a token of the
  template. After k slots the text is the template with those of its first k tokens
  expanded wherever they occur (`FilledIn`), so that a slot that occurs twice is
  not expanded again. `OutputFollowsTemplate` (`WrittenAsTemplate`) carries it
  to what is passed on. `TextTypeCorrect`. `WipedInWindow`: what has been
  read is the file up to the offset unless the file was overwritten, and once
  its end was met the rest is late (`ReadFromStart`). `LinesTakenInOrder`: the
  lines read and not yet sent and those of the file beyond the offset come in the order
  they were written (`Rising`). They all come after those taken (`NoneAgain`) unless the
  file could not be emptied, and then that failure has not been paid for by a step
  back yet (`PaidFor`): taking a rising sequence adds one step back at most, and none if
  it comes after all that was taken (`StepsBackCat`).
* **TextInputProofs**, refusals. `JsonIfFitting`: what a message that fits the template
  comes out as is JSON, and one that does not comes out as JSON only if a string of it
  has a quote after which it goes on as JSON. `RefusalHasCause` (`RefusedForCause`)
  carries it to what is refused and what is passed on; `RefusedInv` says that what was
  refused is what the template makes nothing of, `OneByOne` that a writer that waits for
  the file to be empty has one line at a time in the file and in every message. The proof sets the text with the values of the message
  beside the text with empty strings in all slots (`Given`, `Blank`) and goes
  through the template token by token. As long as the message fits, both are inside
  a string or both outside, and what comes next suits the one if it suits the other
  (`Agree`); where it does not fit, the text is no JSON from there on, whatever
  follows (`TemplateAgrees`, `SoundPrefix`). The theorem has one hypothesis, and the
  property two conditions on a message:
  * `MakesJson`, the hypothesis: the template with empty strings in its slots is JSON, so that no slot lies in
    a string of the template, and it has no call but TS. A template that is not refuses
    messages that fit it, or passes on others.
  * `IsPlain`: no string of it looks like a token of the template. TLC's run
    has one that does.
  * `StaysInQuotes`, for what is passed on only: in a string of it a quote is not
    followed by a mark of JSON or a number. Strings are written unescaped (main.rs:241),
    so a string such as `","x":"` has quotes in it and still comes out as JSON.
    The messages of text_input include it. That no fitting message is
    refused holds without this condition.
  TLC checks the hypothesis for the template of the run (`GwTemplateMakesJson` in
  MCTextInput).

TLC found the inductive invariants to hold on small instances (with row ids up to 4)
before they were proved.

Only model-checked:

* Liveness: fairness and ENABLED are beyond the prover.
* What the violated runs show.

## 5. Not modelled

* The T-MIN transport protocol in min.c: compiled out by `min.ino:1`, and off at the
  gateway (main.rs:465-471). No build of the repository runs it.
* min-rs, paho, SQLite, SX1276 beyond what `src/` uses of them.
* What the broker gets: paho's `publish` returns when the client has taken the
  message, and the models count that as sent. It waits 5 s for the acknowledgement
  (mqtt.rs:25); a message acknowledged later counts as failed, is stored and uploaded
  again, and `DuplicatesExplained` does not see that duplicate at the broker.
* How seldom noise turns a frame into another frame with the right checksum: that is a
  question about CRC-32 (min.c:64-81), which the models replace by any function. No
  property depends on its strength: `CleanFramesArrive` and `StartsAreSent` hold also
  if every checksum passes, and `DeliveredAsFramed` says that the check is made, and of
  which bytes.
* Times: the order of events is free except where the code waits for a reply.
  Sending in MinFraming waits for an idle line (a frame takes a few ms, the
  senders pause 100 ms and 1 s).
* The regular expressions and the syntax of JSON beyond quotes, names and values. The
  value of TS is any number: README.md calls it seconds, `data_template` writes
  milliseconds (lib.rs:128-134), which the models cannot tell apart.
* Configuration, TLS, logging, command line, build files: no state after the start.

## 6. Plan

The most important came first; all of it is done.

1. DeviceStore, CloudLink, their properties and the run of the race.
2. Gateway: composition, safety, faults, crash, liveness.
3. CloudLinkProofs: types, subscription, belief.
4. GatewayProofs: fresh ids, types, calls, no loss.
5. LoraRx, MinFraming.
6. RemoteControl over CommandChannel.
7. StoreAndForward and the refinement by Gateway.
8. DataTemplate, TextInput.
9. GatewayPromiseProofs, LoraRxProofs, RemoteControlProofs.
10. FoldProofs, MinFramingProofs, TextInputProofs.
11. `StartsAreSent` in MinFraming; `RefusedForCause` for every template that is JSON.
12. GatewayLive; `DeliveredAsFramed` and its proof.

