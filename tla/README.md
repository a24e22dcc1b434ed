# gr-lsa in TLA+

gr-lsa is a GNU Radio out-of-tree module: a prototype of a spectrum-sharing
system in which a *secondary* user transmits over the band of a *primary* one,
notices late that the primary is present ("sensing delay"), and retransmits
what the two may have lost. This directory models its protocol blocks in TLA+,
checks them with TLC and proves most of them with TLAPS; it also models the Python
reader that takes the documentation out of doxygen's files. Line numbers without a
path refer to `src/lib/`; `PROJECT.json` maps every definition to its lines.

    tlc -config SuSrTransmitter_debug.cfg SuSrTransmitter     # any run: <module>_<question>.cfg
    tlapm SuLink_proofs.tla                                   # any module <module>_proofs.tla

## 1. The system

A GNU Radio flow graph gives each block a thread of its own. On it the scheduler
calls `work` and, between two calls, the message handlers. Blocks are connected
by streams (with tags) and by FIFO message queues. Some blocks start threads
besides, which interleave with theirs at any point.

| component | state | operations | hard behaviour | what makes it correct |
|---|---|---|---|---|
| `su_sr_transmitter_bb` | queue of unacknowledged packets; in a *round*: copy of the queue, table of settled slots, count, next index | `msg_in` (sensing report, acknowledgement), `work` (time-out, new packet, retransmission) | reports, acknowledgements and calls of `work` in any order; stale and shifted indices; the retry limit | the round and the queue hold the same packets; the count is the table's; the round ends; nothing is lost or counted twice |
| `phy_crc` | table of slots counted in this round | `msg_in` | table kept between rounds; index from the air | indices stay in the table, whatever arrives; no delivered packet is left out of the throughput while each round has a table of its own |
| `su_ctrl`, `su_tx_helper` | none | `msg_in` | header checks at both ends | an acknowledgement says what the frame said |
| `su_packet_sink_c`, `su_block_receiver_c`, `prou_packet_sink_f` | search state, voe flags | `general_work` | tags and symbols across calls; packets that stop half-way; a state of the interference of its own | each collision is reported once, no packet it began in is published, and it costs one packet at most |
| `stop_n_wait_tx_bb` and `stop_n_wait_tag_gate_cc` | list of unacknowledged packets, count of the burst, `d_sns_stop`, `d_gate_tag`, `d_collision`; the gate | `msg_handler`, `work`, `set_send`, threads `wait`, `collision_timer` | three threads, flags written without the mutex, lost notifications | the gate passes every packet; a stop ends; silence after a collision |
| `stop_n_wait_rx_ctrl_cc`, `stop_n_wait_ack`, `sns_tx_helper` | energy detector's state, counters, collisions waited for | `general_work`, `pub_clear` (detached thread) | clear signals repeated after 25 ms; clear and collision signals leave from two blocks | a stop reported in time is cleared; a clear signal overtakes only reports that are whole bursts late |
| `simple_tx` | sequence number, `d_acked`, retry | `run` (thread), `msg_in` | answer racing the wait and the next line | a success was received; each line is settled |
| `simple_rx` | expected number, reset counter | `msg_in` | losses, repetitions, a sender that starts again | what it acknowledges and does not export is bounded; lines are exported in order |
| `arq_tx` | list of pending packets with times and tries, base, counters | `run` (thread): `generate_msg`; `msg_in` | late, repeated and reordered answers, time-outs | each line counted once; the oldest is in front; each is acknowledged in the end |
| `file_downloader_tx` | `d_seq`, `d_process_seq`, `d_acked` | `run` (thread), `ack_in` | unlocked accesses; restart unknown to the receiver | no chunk is skipped; the download ends |
| `dump_tx` | `d_queue`, `d_pending`, `d_pkt_success` | `strobe_in`, `ack_in`, threads `run`, `check_timeout` | `check_timeout` moves entries without the mutex; `d_pending` is never erased from | each packet is listed once, oldest first; an answer counts once |
| `interference_tagger_cc`, `eng_det_cc`, `block_tagger_cc`, `burst_tagger_cc`, `sfd_tagger_cc` | counters across calls | `general_work` | thresholds crossed at the border of two calls | tags take turns |
| `ic_resync_cc`, `ic_ncfo_cc` | circular buffer of samples, headers, stack of retransmissions, interference objects and their memory | `general_work`, `msg_in` | indices recycled while objects wait; a list erased from while it is walked; leftovers of earlier rounds | an object is intact and is cancelled once, by what was sent after it |
| `throughput_report`, `message_file_sink`, `throughput_file_sink` | counters | handler, printing thread | shared without a lock | what arrived is counted |
| `preamble_prefixer`, `chip_mapper`, filters, loops, detectors | – | – | numeric | not modelled |
| reader of doxygen's XML (`docs/doxygen/doxyxml`: `generated/`, `text.py`, `doxyindex.py`) | the objects under construction | `build`/`buildChildren`, `export`, `description`, `set_parameters` | one paragraph collected by a class and its subclass; lists nested in descriptions; three ways of writing a text | every text and parameter comes back once, in order; what is written reads back |
| docstrings for SWIG (`swig_doc.py`, `base.py`) | tables of members by name | one pass over the index | – | not modelled but for the parameters |

How they are connected (`examples/*.grc`):

* **Secondary link** (`usrp_su_loop`, `sync_ic`; over the air `usrp_su_rx` /
  `usrp_su_tx`): transmitter → modulator → radio ⇒ energy detector → tagger →
  `su_packet_sink_c` → `phy_crc` → `su_ctrl` → (radio) → `su_tx_helper` →
  transmitter.
* **Stop-and-wait** (`sns_tx`, `sns_rx`, `sns_loopback`): `stop_n_wait_tx_bb` →
  modulator → `stop_n_wait_tag_gate_cc` → radio ⇒ `stop_n_wait_rx_ctrl_cc` →
  `su_packet_sink_c` → `phy_crc` → `stop_n_wait_ack` → (radio) →
  `sns_tx_helper` → `stop_n_wait_tx_bb`.
* **Primary link** (`usrp_cpm_burst_tx`, `usrp_cpm_rx`): `simple_tx` or another
  transmitter → `preamble_prefixer` → radio ⇒ `prou_packet_sink_f` → `simple_rx`
  → `preamble_prefixer` → radio ⇒ `prou_packet_sink_f` → transmitter.

## 2. The modules

| module | what it is |
|---|---|
| `SuSrTransmitter` | the core: `su_sr_transmitter_bb_impl.cc`, one action per branch of `msg_in` and `work` |
| `LockedBuffer` | abstract: a buffer that an alarm locks until each packet in it is settled |
| `PhyCrc` | `phy_crc.cc` |
| `SuFeedback` | `su_ctrl.cc` and `su_tx_helper.cc` as functions from a message to the messages they publish |
| `SuLink` | the secondary link: extends `SuSrTransmitter` with instances of `PhyCrc` and `SuFeedback`, the air, the sink's voe state and the feedback queue |
| `StopAndWaitTx` | `stop_n_wait_tx_bb_impl.cc` (block thread, `wait`, `collision_timer`) and the tag gate behind it |
| `SnsReceiver` | the stop-and-wait receiver: `interference_tagger_cc`, `stop_n_wait_rx_ctrl_cc` with `pub_clear`, `su_packet_sink_c`, along one stream of samples |
| `SimpleRx` | `simple_rx.cc`, instantiated by the three links below |
| `SimpleArq` | `simple_tx.cc`, the channel, and `SimpleRx` |
| `ArqTx` | `arq_tx.cc`, open: any answer may come at any time |
| `ArqLink` | `ArqTx`, the channel, and `SimpleRx` |
| `ReliableLink` | abstract: a link that takes only what was sent and believes only what was received; the three links of the primary user implement it |
| `FileDownload` | `file_downloader_tx.cc`, the channel, and `SimpleRx` |
| `DumpTx` | `dump_tx.cc`: two handlers and two threads over two lists |
| `IcResync` | the bookkeeping of `ic_resync_cc_impl.cc` |
| `DocClasses`, `DocConstructors`, `DocWriters` | the classes of `compoundsuper.py`, `indexsuper.py` and `compound.py` as three tables: what each takes from a file, what its constructor makes, what it writes |
| `CompoundFile` | one reader and one writer over these tables, with `text.py` and the parameters of `doxyindex.py` |
| `SuLink_proofs`, `StopAndWaitTx_proofs`, `SnsReceiver_proofs`, `SimpleArq_proofs`, `ArqLink_proofs`, `FileDownload_proofs`, `DumpTx_proofs`, `IcResync_proofs` | theorems (section 4) |

### How state and actions correspond

Variables have the names of the members they stand for. What the code does not
hold is named in a comment as history. Packets are numbered in the order they
are made (`pay`), which tells apart two packets of one sequence number; content
and length are left out.

**SuSrTransmitter.** `msg_in` runs under the mutex and on the block's thread, so
each of its branches is one action: `SensingStartsRound` (`create_retx_queue`),
`SensingResetsRetry` (`reset_retx_retry`), `SensingIgnored`, `AckClear` (first
match is erased), `AckRetxClean`, `AckRetxIndexed`, `AckRetxOutside` (the three
branches of `update_retx_table`). The round's end in `msg_in`, `clear_queue`
included, is part of the acknowledgement that completes it (`Settle`). `work` is
`WorkNew`, `WorkTimeout`, `WorkRetx` and `WorkRetxGivesUpLast`, the early return
at line 362. A frame carries the index *after* it was advanced, as lines 367-377
do. `NDEBUG` chooses the build: with assertions `AckRetxOutside` stops the
program; without, it reads a bit beyond the table, which may hold either value,
and `strays` counts the settlements that forges. `CMakeLists.txt:34` makes
Release the default. A packet's time-out is a choice of `WorkTimeout`. `qsize`
and `qidx` of acknowledgements range over all that `su_tx_helper` lets through.

**SuLink.** `Transmit`, `HandleSensing` and `HandleAck` are the transmitter's
actions with the queues; `HandOn` is a PDU's way through `phy_crc`, `su_ctrl` and
`su_tx_helper`, whose queues have one producer and one consumer each and so
behave as one. `InterferenceRises` publishes the report at the rising edge and
sets `d_voe_do_not_pub`, which swallows the next complete frame. The air loses
frames and damages headers: `Garbled` changes the length, one of the two bases, or
index and size to any pair of numbers, so what reaches `phy_crc` may carry an index
beyond any table. `PduOut` and `ThrOut` say what `phy_crc` publishes for a PDU; its
only state is the table. A damaged header that passes the check is published and
acknowledged as it reads; `damaged` counts those and `MaxDamaged` bounds them. `counted`
is what was published for the throughput, `ownTables` whether each header that passed
met a table of its own round, or none. The history keeps with each frame and acknowledgement the round
it belongs to, and `mixed` says that something but the index of a frame of this
round settled one of its slots.

**StopAndWaitTx.** The scheduler never runs `msg_handler` and `work` at once;
`wait` and `collision_timer` run at any point. `work` is therefore split where
another thread's write can come between its read of `d_sns_stop` and its update
of `d_send_cnt` (`Send`, `WorkCount`), and `collision_timer` at each access
(`TimerChecks` … `TimerRecounts`). `cntRead` and `d_send_cnt` are the two values
the unlocked increment may start from. A `notify_one` that finds nobody waiting
does nothing; `lostWakeup` remembers it.

**SimpleArq.** `run` accesses `d_acked` and `d_seqno` without the mutex, so its
loop is a step per such access, and `msg_in` is the comparison and what follows.
`late` says whether the configured wait may be shorter than a round trip, `slow`
is the constructor's argument; both are chosen in `Init`. `hit` counts, for each line,
the packets and answers of it that the channel lost. `Sent`, `accepted` and
`won` (empty when `late`) map it to `ReliableLink`.

**ArqTx, ArqLink.** `generate_msg` and `msg_in` hold the mutex, so each is one
action: `GenerateRetry` and `GenerateNew`, `TakeOff` and `NotListed`. Only the
ages of pending packets matter, up to the time-out, so `age` stands for the time
in the tuple. `CloseAverage` is lines 116-128: the sum of the channel's uses goes to the
log and is reset. The message published there has the averaging length in every field
(lines 118-121), so it tells nothing of the sum and is left out: `logged` is what the log
has. `run` publishes outside the mutex what it has just generated; the
message is private to it, so publishing belongs to the same action. The link adds
two FIFO channels, and each of its steps is one of `ArqTx` or leaves it alone.

**FileDownload.** The steps of `run` are those at which `ack_in` may come between
(lines 157-168, 170, 172); `ack_in` is comparison and assignment. `early` counts
the random delays that ended before the answer could come. `accepted` and
`delivered` are what the receiver acknowledged and exported in this download. A line
of `ReliableLink` is a chunk of one download (`Download`, `UpTo`): it is sent when
`generate_pdu` takes it up and confirmed when `d_seq` passes it.

**SnsReceiver.** A sample is one step of each block: a call of `general_work` is a
run of such steps and leaves no trace of its borders. `toCtrl` and `toSink` are the
samples between the blocks, with the tags on them; what the air brings is a stretch
of samples with or without energy and interference. The controller's five states are
`Listen`, `SearchSfd`, `Detect`, `SilentBegin` and `SilentEnd`; its detached thread
is two steps, so that the second clear signal may come any time later. `Sink` reads
a symbol, which moves its state on as the despreader may decide, and a packet is the
symbols between. `raised`, `reports`, `withheld`, `hit`, `leaked` and `prompt` are
history: `prompt` says that the report now in force was made with fewer than two runs of
`d_valid` samples behind its tag (`Near`). In the code `d_valid` is 64
(`stop_n_wait_rx_ctrl_cc_impl.h:33`) and the search for the SFD passes 512 samples at
once (`stop_n_wait_rx_ctrl_cc_impl.cc:195`), so a report may be later than that, and the
run keeps this proportion (`Valid` 1, `SfdLen` 3; the preamble before the SFD, which only makes the search wait for more samples, has length 0).

**DumpTx.** What holds the mutex is one action (`StrobeIn`, `QueuePop`, `AckIn`).
`check_timeout` holds none, so each of its list operations is a step (`CheckFront`,
`CheckPush`, `CheckPop`, `CheckQueue`). Two threads that write one `std::list` at
once are undefined behaviour: `clash` marks the overlap, and then one of the two
writes may be lost (`Appended`); `lost` remembers it. Only ages up to the time-out
matter.

**IcResync.** The unit of length is a fixed number of samples, and a repeated packet
has one length. A header is its age, the packet it names, and the round it was sent
in. `msg_in` and `general_work` run on one thread and never interleave;
`general_work` is one step per sample, then `intf_detector` one step per object, with
its iterator (`it`), which the code increments after an erasure. `rewound` remembers
the failed `create_intf` that sets `d_intf_idx` to 0 while objects wait there (line
998), `rescanned` that the iterator passed the end: the premises of
`ObjectsUndamaged` and `CancelledOnce`. `idx_stack`, the output buffer and the
matching of preambles are left out: each accepted header has a place of its own,
though `matching_pkt` leaves the preamble it took in its list (line 402), and two
headers can be given the same one.

**CompoundFile.** The generated classes differ in data only, so three tables hold
that data and one reader and one writer serve all: `DocClasses` has what `buildAttributes`
and `buildChildren` take, `DocConstructors` what `__init__` makes (fields that are
None, empty lists), `DocWriters` what `export` writes, in what order, and whether as a
string or as an object. Each table is read from its own methods, and nothing in the
model makes them agree: a child that is taken but not written, an attribute under two
names, or a list that no constructor makes breaks `RoundTrip` (`Unmade` is Python's
AttributeError). An event of the file (an
element begins, a text, an element ends) is one step: `ReadElement` is a call of
`build`, `ReadText` and `ReadEnd` are branches of `buildChildren`. `subclassed` says
whether `compound.py` was imported, which puts a class of its own in the place of
`docParaType`'s. A text is a sequence of pieces, each known by its place and by whether it
is plain, must be quoted or is not ASCII. `Export` writes the events `export` writes: the
indentation around every element (`Gap`), in mixed content too; the texts of mixed
content as they are (`Raw`); strings in fields encoded (`Encoded`), where a character
beyond ASCII ends the program (`UnicodeEncodeError`). `Joined` makes one text of what
stands between two tags, as the parser does. Attributes have plain values, texts in
valueOf_ and content_ are written to an output that can hold them, and the documents
read have no white space of their own. Files are those doxygen's schema allows: a child that is
set, not appended, comes once, and a string holds no elements (`nodeValue` would be
`None`). What the classes drop is part of the model: texts in elements without a
branch (`bold`, lists, code), and those in parameter lists and simple sections, never
reach a description.

## 3. What the runs show

Passing runs take between a second and three minutes. Bounds: `Max…` constants are
limits of the model and appear in guards; the rest are parameters of the code.

| run | question | bounds, and why they are enough |
|---|---|---|
| `SuSrTransmitter_debug` | do the round's data stay consistent (the proved invariant), are the accounts kept, does the block implement `LockedBuffer`, does each round end? | queue of 3, limit 2, 6 packets over 5 sequence numbers: two full rounds, an index shift that is no swap, acknowledgements of larger rounds, numbers that wrap |
| `SuLink_live` | before an alarm: is anything lost in silence? with two: does the round end, is every packet settled, does a round settled by its own frames deliver all despite the shifted index? is `phy_crc`'s table kept in bounds, is a delivered packet left out of the throughput? | queue of 2, 3 packets over 5 numbers (so none wraps), two alarms: frames and acknowledgements of the first round reach the second; losses, lost acknowledgements, headers damaged in any field, any number of which are refused and one passes the check (`MaxDamaged`). Without the check of the index (`PhyCrc_NoIndex`) `LinkTypeOK` fails; a table looked up before it is cleared (`Counts_OldTable`) breaks `ThroughputComplete` |
| `StopAndWaitTx_race` | is a packet dropped at the gate, is one counted twice, does each stop end? | bursts of 1 and 2 with `set_send` between, 3 packets over 2 sequence numbers (a number is used twice), a collision report besides the one the uninitialised flag may hold |
| `SnsReceiver_clear` | do tagger and sink agree on the collisions, is a collided packet published, what does a collision cost, which reports may a clear signal overtake, is every stop reported in time cleared? | two collisions, `MinLen` 2, `Valid` 1, stretches of up to 2 samples, a search that passes 3 samples at once, 3 between controller and sink: a second collision before and after the clear signal of the first, and a sink far enough behind that the clear signal does overtake a report: TLC refutes `told = "collision" ~> told = "clear"` without `prompt` here |
| `SimpleArq_link` | does the file end? with a long enough wait: does the link implement `ReliableLink`, does the file arrive in order, once and complete, does a line fail only for as many losses of its own as it had tries? | 3 lines of lengths 0, 119 and 124 (empty, the longest both ends accept, the longest the sender accepts), limits of 2, 2 messages under way each way: a line given up and the resynchronisation after it. `RetryLimit` 4 over `ResetLimit` 2, where a line is exported twice, was run besides |
| `ArqLink_live` | is the list in order, is each line counted once and each use of the channel in the log once, does the link implement `ReliableLink`, is a second export of a line forced, is each line acknowledged in the end? | 4 lines, 3 tries of each, 2 losses, time-outs at any moment, 2 messages under way: three lines pending at once, answers that overtake, come twice, and come for lines repeated since |
| `FileDownload_repeat` | does each download implement `ReliableLink`, what is reordered, repeated or dropped, and does a download end? | 7 chunks, 2 downloads, `RESETLIMIT` 4, 3 losses and 2 early repetitions: without the premise `early < 2` TLC finds the chunk confirmed unread, so the race is in reach |
| `DumpTx_window` | is each packet listed once and in order, does an answer count once, is a packet repeated for ever? | window of 3, 4 lines: the window fills, stays full, and is written by two threads at once |
| `IcResync_objects` | is a recorded object intact until it is cancelled, are headers dropped in time, is what cancels newer than the collision, is each cancelled once? | 3 objects in a memory of 8, 3 headers of two packets, rounds of up to 2: objects that do not fit, are given up, and follow each other at one place. Packets are only compared, so they are a symmetry set |
| `CompoundFile_read` | do descriptions and parameters come back complete and in order, does a written file read back, but for white space and the joints of texts? | every class as the root with 2 elements and 2 texts (plain, to be quoted, or not ASCII) below it, such as two texts around an element that is passed over; descriptions of 8 elements, enough for two parameter lists, nested or side by side |

The limits of the code (16-bit numbers, 10 retries, `RESETLIMIT` 5) are
parameters and small in the runs. Where a property depends on their proportion, the
run keeps the code's or the property says what it needs: `RetryLimit <= ResetLimit` in
`FileArrives` (the code has 10 and 5), fewer losses than `ResetLimit` in
`FirstDownloadInOrder`, and two runs of `d_valid` samples in `SnsReceiver` (`Near`),
where the code passes 512 samples at once and `d_valid` is 64.

### Disagreements found (`violation` runs)

* `SuLink_loss`: in a round where clean and indexed acknowledgements meet, a
  packet can be lost in silence. The frame's index is one too high (line 369
  before 374-375); an indexed acknowledgement settles the next slot, a clean one
  the packet's own.
* `SuLink_assert`: a stale acknowledgement of a larger round fails the assertion
  of `update_retx_table` (line 304).

Further observations are premises of properties that hold:

* the packet in which the 16-bit number of `su_sr_transmitter_bb` wraps (line 395) has
  0xffff in its header and 0 in the queue, so outside a round no acknowledgement ever
  takes it off and each time-out repeats it: `CleanLinkLosesNothing` needs
  `born < NumSeq`, and `SuLink_live` with `NumSeq = 3` and `MaxAlarms = 0` refutes
  `EveryPacketSettled`;
* an answer applied after its line was given up counts as the success of the next
  (`simple_tx.cc:103-106` against 162-174 and 152): `LinkIsReliable` of `SimpleArq`
  confirms nothing unless the wait is longer than a round trip. The same race makes
  a download skip a chunk after two delays that were too short (`LinkIsReliable` and
  `NoChunkSkipped` of `FileDownload`);
* `RETRYLIMIT` is 10 (`simple_tx.cc:35`) and `RESETLIMIT` 5 (`simple_rx.cc:34`), so
  the repetitions of one line are enough to make `simple_rx` resynchronise on it:
  after five lost answers it exports the line again. That no line is exported twice
  needs `RetryLimit <= ResetLimit` (`FileArrives`);
* `read_data` takes lines whose packets `simple_rx` refuses (`simple_tx.cc:126-134`,
  `simple_rx.cc:79`); they fail on a perfect channel (`OnlyLossFails`);
* the controller's clear signal overtakes the report it answers when the sink is two
  runs of `d_valid` samples (128) behind the controller, which one search for the SFD
  (512 samples) is enough for. The transmitter then stays stopped until another collision
  is cleared: `EveryStopIsCleared` promises a clear signal for `prompt` reports only, and
  `ClearAfterReport` says which ones may be overtaken;
* `phy_crc` keeps its table when a round has the size of the one before
  (`phy_crc.cc:111`) and takes new packets for repeats: `ThroughputComplete` needs
  `ownTables`;
* the message `arq_tx` publishes for an average has `d_avg_size` in all its fields
  (`arq_tx.cc:118-121`); only the log has the sums (line 124);
* an answer met while `check_timeout` moves its packet counts twice, and an overlap
  of two writes can take a packet off the list (`AnswerCountsOnce`,
  `EveryPacketRepeated`);
* a failed `create_intf` while objects wait lets a later object overwrite them
  (`ObjectsUndamaged`);
* `compoundsuper.py`, run as a program, writes a compound's title as the
  representation of an object (line 426) and the texts of a mixed content unquoted
  (line 135), and ends at a name that is not ASCII (line 423); the indentation it writes
  in mixed content (lines 139, 2787) is read back as texts. `RoundTrip` leaves out the
  first three and compares but for white space.

### Fairness

* `SuSrTransmitter`: weak fairness of `work`; the scheduler keeps calling it.
  `RoundPastSensingEnds` assumes that alarms stop resetting the retry counts and
  that the round has seen one acknowledgement: before that the code repeats
  without limit (line 351).
* `SuLink` (`FairLinkSpec`): weak fairness of the blocks; strong fairness of the arrival of frames
  and acknowledgements is an assumption about the channel (a channel that loses
  everything settles nothing). A frame's loss is never fair. `EveryPacketSettled`
  is stated for the packets within the bound, and the last of them relies on
  `WorkTimeout`, as in the code.
* `StopAndWaitTx`: each thread is scheduled and its sleeps and limited waits end.
  Spurious wake-ups may happen and are never assumed. Clear signals are not
  assumed either.
* `SnsReceiver`: each block and thread is scheduled. That long stretches of a burst
  and of silence come again and again is an assumption about the primary user (strong
  fairness of `Stretch`): without its bursts the controller waits for ever.
* `DumpTx`: the clock and the two threads run; strobes and answers may end.
* `SimpleArq`: threads are scheduled, waits end, and a message under way arrives
  or is lost; nothing makes the channel deliver.
* `ArqLink`, `FileDownload`: the threads are scheduled, time passes, and the
  receiver takes what comes. The channel may lose up to `MaxLost` messages, at any
  moment; that it stops at some time is the assumption about the radio. In
  `ArqLink` `MaxTries` exceeds `MaxLost`, so the bound on tries never keeps a line
  from being acknowledged.

`CHECK_DEADLOCK FALSE` stands where a model really stops: at a failed assertion,
at the last line of a file, or when a bound is used up.


## 4. What is proved

Each theorem holds for every value of the constants that satisfies the module's
assumption (queue sizes, limits, time-outs, burst lengths, numbers of lines), and
tlapm checks it to the last leaf. Most of the invariants are not inductive alone.
Each proof module therefore has one strengthening, a conjunction of named parts in
the component's own module, which TLC checked first, and one lemma for each action
that keeps it. `LinkInv` (of both links), `CountInv`, `CancelInv`, `SimpleArqInv`,
`OrderInv` and `DownloadInv` hold in the runs as well, and so do `StopIsOwed`,
`PatientSuccessWasAcked` and `NoChunkSkipped`; the runs list the properties they
imply or lead to.

| module | theorem | property | argument |
|---|---|---|---|
| `SuLink_proofs` | `TransmitterInvariant`, `CountIsExact`, `RoundLocks`, `RetriesBounded`, `RoundHasItsSlot` | `TransmitterInv` and its parts `CountMatchesTable`, `RoundLocksQueue`, `OpenSlotsWithinLimit`; `NeverThrows` | of the transmitter alone, whatever it is told; see below |
| | `AccountsBalance` | `PacketAccounting` | a second induction on top of `TransmitterInv` |
| | `ImplementsLockedBuffer` | `BufferLocks` (refinement), in a build with assertions | see below |
| | `LinkTypes`, `LinkImplementsTransmitter` | `LinkTypeOK` | whatever index and size arrive, the check of `phy_crc.cc:157` keeps the index inside the table that the same size makes; and what reaches `msg_in` on the link is what the transmitter assumes of its input, so all of the above holds there |
| | `LinkInvariant`, `NothingLostBeforeAlarm`, `ShiftedIndicesDeliver` | `LinkInv`, `CleanLinkLosesNothing`, `IndexedRoundDelivers` | see below |
| `StopAndWaitTx_proofs` | `StopIsNotForgotten` | `StopHasEnder` (part of `StopAndWaitInv`) | what safety can say of `StopEnds`: while no notification was lost, a stopped transmitter finds `wait` asleep, the timer on its way to resume, or a collision the timer has yet to see. One lemma for the block's writes, one for the two threads |
| | `StopAndWaitInvariant`, `GatePassesPackets`, `AcknowledgedOnce` | `StopAndWaitInv`, `NoPacketDropped`, `PacketsAccounted` | `OpenAfter(n)` is what the tags of the first n items on the stream make of the gate. Packets find it open (`PacketsFindItOpen`), a burst under way keeps it so (`BurstKeepsItOpen`), and a tag that stops follows the last packet (`StopTagPending`) |
| `SnsReceiver_proofs` | `ReceiverInvariant`, `TagsAlternate`, `CollidedStayUnpublished`, `OneMutePerCollision` | `TagsTakeTurns`, `CollidedNotPublished`, `OneWithheldPerReport` | the tags between tagger and sink, read as one sequence over all blocks, take turns. A sample that moves on leaves the sequence as it is (`ReadsKeepsTags`), the tagger appends to it (`TurnedAppend`), and the sink takes off its head (`TurnedTail`) |
| | `CountInvariant`, `ReceiverTypes`, `NoCollisionMiscounted`, `ClearIsLast` | `CountInv`, its types, `CollisionsAgree`, `ClearAfterReport` | `Begun` counts the rising tags of a stream: the tagger adds one to it, the sink takes one off, and a sample that moves on takes its tag along. Each clear signal answers a tag of its own (`ClearsAnswerTags`), and the samples of the last burst the controller waits for lie behind every tag it has counted (`BurstBehindTags`): when the burst is over there are two runs of `d_valid` of them, for any sizes of the streams |
| | `NoStopForgotten` | `StopIsOwed` | what safety can say of `EveryStopIsCleared`: the controller forgets a collision only by letting a clear signal go (`CtrlOwes`), and when one goes no tag is `Near` its end of the stream, so a report made after it is not `prompt`, or is of a collision the controller has yet to count off |
| `SimpleArq_proofs` | `SimpleArqInvariant`, `SuccessIsReal`, `FailureIsLoss` | `PatientSuccessWasAcked`, `OnlyLossFails` | when the wait is long enough one message at most is under way (`OneUnderWay`), and each try of a line of valid length that is over cost one loss of that line's packet or answer (`TriesExplained`, `hit`) |
| | `OrderInvariant`, `FileArrivesInOrder` | `OrderInv`, `FileArrives` | a second induction: once the line under way was exported, the repetitions left of it are too few to resynchronise on, and until a line fails `simple_rx` expects it or has just exported it (`ExportsFollow`) |
| | `LinkKeepsPromise` | `LinkIsReliable` (refinement of `ReliableLink`) | publishing is `Send` or a stutter, `Receive` takes what was published (`OnlySent`), and settling a line confirms one `simple_rx` has acknowledged (`OneUnderWay`) |
| `ArqLink_proofs` | `ArqInvariant`, `OldestComesFirst`, `EachLineOnce`, `BaseStaysPending`, `EveryUseLogged` | `ArqInv` and its parts, `ChannelUseAccounted` | of `arq_tx` alone, whatever answers come. That `d_ack_no` names a pending packet needs the order of the list. The tries of the listed packets are counted as a set of pairs (`Tries`), to which a transmission adds one and from which an answer takes those of its packet |
| | `LinkImplementsArqTx`, `SuccessIsReal` | `SuccessWasAccepted` | each step of the link is one of `ArqTx`'s or leaves its variables alone; with `ChannelCarriesSent`, the answers under way are for lines `simple_rx` acknowledged |
| | `LinkKeepsPromise` | `LinkIsReliable` (refinement of `ReliableLink`) | a line is confirmed when it was sent and is not on the list (`Settled`): a call of `generate_msg` lists the next line or one listed already, an answer unlists its own, and each answer under way is `simple_rx`'s (`OnlySent`) |
| | `LinkInvariant`, `RepeatsCostPackets` | `LinkInv`, `RepeatsAreForced` | every packet sent is under way, lost, exported or dropped; lines are exported in order (`InOrder`) until enough packets were dropped to make `simple_rx` resynchronise (`Received`) |
| `FileDownload_proofs` | `DownloadInvariant`, `NothingSkipped`, `FirstInOrder`, `DropsBounded` | `DownloadInv`, `NoChunkSkipped`, `FirstDownloadInOrder`, `DropsPerDownload` | before two delays were too short all that is under way is of the current chunk (`FewUnderWay`); what is acknowledged and not exported is counted by `d_reset_cnt` (`DropsCounted`). In the first download each repetition that reaches `simple_rx` is paid for by a lost answer (`LossesCounted`) or by a delay that was too short (`StreamInOrder`). What a later download drops is its beginning (`IsFirst`): the receiver drops in step until it resynchronises |
| | `DownloadsKeepPromise` | `LinkIsReliable` (refinement of `ReliableLink`, while `early < 2`) | `UpTo` adds one pair, the chunk in this download, when a chunk is taken up, acknowledged or passed over, and `reset_downloader` turns the complete download into the next one's empty start. That `simple_rx` acknowledges only the current chunk is `AllCurrent`, that the downloader passes it only then is `AnswersTrue` |
| `DumpTx_proofs` | `WindowInvariant`, `AnswersCountOnce` | `DumpTxInv`, `AnswerCountsOnce` | what `check_timeout` read at the front is still there when it removes it, and its copy is behind (`FrontHeld`) |
| `IcResync_proofs` | `ResyncInvariant`, `TypesHold`, `ObjectsStay`, `HeadersStay`, `StackIsNewer` | `ResyncInv` and its parts, `StackAfterCollision` | listed objects lie before the place of the one under way (`Recording`), so a write never touches them; headers are in the order of their age (`InOrder`) |
| | `CancelInvariant`, `ObjectsCancelledOnce` | `CancelInv`, `CancelledOnce` | numbers and places grow along the list and `d_ic_list` names listed objects in that order, so the iterator, which only moves on, hands each over once |

**The transmitter.** `calculate_output_stream_length` throws at lines 90 and 349
when the next slot does not exist. Why it exists takes three facts that only hold
together: in a round the queue, its copy and the table of slots have one size
(`RoundLocksQueue`), the count is the number of settled slots
(`CountMatchesTable`), and no full round is left standing. Then a round that goes
on has an open slot, and the index finds it. Neither `NeverThrows` nor any of the
three is inductive alone; `TransmitterInv`, with the types, is. The lemmas of the
actions rest on lemmas about `Settle`, about `ResumeClear`, about
the cardinality of a set with one member more, and about a sequence with one
element removed.

**The refinement.** `Outstanding` (the packets of the queue) and `OpenPackets`
(those whose slot is open) map the block to `LockedBuffer`. `BufferInv` adds to
`TransmitterInv` that the packets of the queue are distinct and that no
acknowledgement was counted outside the table. Then settling a slot settles one
packet (`MarkMaps`), settling the last one ends the round and empties the buffer
(`EndMaps`), and the count tells which of the two it is (`SettleMaps`). The theorem
assumes `~NDEBUG`: without assertions a stale acknowledgement of a larger round
(line 304) counts without settling a slot, and the round may end early.

**The link.** `LinkInv` adds to `TransmitterInv` two facts about what is under
way. `CleanLink`: before the first alarm a sequence number names one packet, in the
queue, in a frame and in an acknowledgement, and an acknowledgement under way is for
a packet `phy_crc` published, so what `AckClear` takes off was delivered. `RoundLink`:
in a round, each frame tagged with it carries the packet of some slot and the index
behind it, and each index acknowledged or in the table is that of a delivered packet
(`IndexDelivered`). It says nothing of what else is under way: frames of earlier
rounds may arrive at any time, and what they settle sets `mixed`. At the end of a round
that is not `mixed` the table holds every index (`FullTable`), and since `i + 1` modulo
the size reaches each slot (`AllIndexed`), every packet was delivered.

**Only model-checked:**

* every liveness property;
* `ThroughputComplete`;
* everything of `CompoundFile`, whose definitions are recursive and whose properties
  are about the text a whole file yields.

## 5. Plan

Done: the core and its refinement, the links and their receivers, the three links of
the primary user shown to implement `ReliableLink`, the stop-and-wait pair, the
window transmitter, the bookkeeping of the interference canceller, the reader of
doxygen's files, and the eight proof modules, which state every safety property the
runs check but `ThroughputComplete` and those of `CompoundFile`.

Left, in this order:

1. `SnsReceiver` composed with `StopAndWaitTx`, for clear signals that arrive after
   the next collision (`stop_n_wait_rx_ctrl_cc_impl.cc:111`);
2. the framing blocks beside `su_packet_sink_c`;
3. the tables of members in `docs/doxygen/doxyxml/base.py` and `doxyindex.py`:
   what `get_member` finds when a name occurs twice or a file did not parse, and
   which of several overloads is kept.

## 6. Not modelled

* **Signal processing** (filters, loops, correlators, energy, the cancellation
  itself, preamble matching): arithmetic on real numbers.
* **Bindings, flow graphs and build files**: declarative. The flow graphs give the
  connections the compositions follow.
* **Start and shutdown of threads**, printing threads and the size planned for an
  output buffer. `dump_tx.cc:79` keeps its reporting thread in `d_thread`, and `stop`
  dereferences `d_report_thread`, which is never set; a model of it would restate
  the two lines.
* **The other framing blocks and taggers**: `su_block_receiver_c` and
  `prou_packet_sink_f` are the machine `SnsReceiver` has; `eng_det_cc`, `block_tagger_cc`,
  `burst_tagger_cc` and `sfd_tagger_cc` keep a counter at most.
* **Contents**: what symbols decode to, bytes, checksums. Whether a frame is
  received, garbled or lost is a choice.
* **Reports**: `throughput_report`, `message_file_sink`, `throughput_file_sink`
  count for a reader outside the program.
* **Of the documentation tools**: `exportLiteral`, the find operations, CDATA
  sections, classes that no branch reaches, and the pass of `swig_doc.py` over the
  members.
