# Verification of esp-adf-libs

TLA+ models of the parts of esp-adf-libs that exist as source, the TLC runs that
check them on small instances, and TLAPS proofs of what matters most for every
size of system: about the memory trace and its history, the HLS reader and its
sources, the codec registry, the video encoders and decoders, the ID3 parser, and
the packet indices of SRTP.

## 1. The system

Most of the repository is headers over closed archives (`lib/*.a`), examples and
one vendored library, libsrtp, which is the larger half of the source. What keeps state is:

| component | source | state | operations | what is hard |
|---|---|---|---|---|
| memory trace | `media_lib_sal/mem_trace/media_lib_mem_trace.c` | record table, module list, usage and peaks, the installed allocators, a recursive mutex | the `media_lib_*` and `media_lib_module_*` allocation calls, `add_trace_mem`, `remove_trace_mem`, queries, start, stop | tasks interleave outside the mutex; the heap reuses an address at once; nested locking; table full; start and stop at run time |
| memory history | `media_lib_sal/mem_trace/media_lib_mem_his.c` | ring of slices, write position, number of full slices, `running`, `stopping`, a file | add a malloc or free record, save thread, stop | flags and the count are read without the mutex; records straddle slices; stop against the thread's polling |
| OS layer | `media_lib_os.c`, `port/media_lib_os_freertos.c`, `media_lib_adapter.c` | table of function pointers | one call each | recursive mutex semantics |
| socket, TLS, crypto, netif layers | `media_lib_socket.c`, `_tls.c`, `_crypt.c`, `_netif.c` | table of function pointers | one call each | nothing of their own |
| HLS reader | `esp_hls_stream/src/hls_io.c` (230-614) | data bus, `media_remain`, fetcher handle | acquire by the IO thread, read filter, seek, open, close, reset | frames and reads cut at different places; timeouts in a frame; seek; end against abort |
| HLS URL cache | `esp_hls_stream/src/hls_io.c` (45-228) | one shared io, the tag of its scheme, one handle per opened URL | open, reload, read, abort, seek, size, close | handles share the io; failure at each step |
| HLS file helpers | `hls_helper.c`, `hls_io_helper.c` | files, reference handles that share a position, a URL opened in advance | open, reload, read, seek, close | sharing, failure paths |
| video codec registry and front end | `esp_video_codec/src/video_codec_reg.c`, `esp_video_enc.c`, `esp_video_dec.c` | two registration lists, open codecs | register, unregister, query, open, set, process, close | dispatch and lookup |
| video codecs | `esp_video_codec/src/{encoder,decoder}/*.c` | settings, the inner codec, which is created by the first frame, a cached frame | open, set, get, process, close | order of set and first frame; failure half way; retry |
| ID3 parser | `esp_extractor/src/esp_extractor_id3_parser.c` | the handle; five fields, extra texts and a cover, each in blocks of their own; the place in the tag | open, parse, get_info, close | sizes and boundaries; a read or an allocation that fails anywhere in a frame |
| registrations | `esp_audio_codec/src`, `esp_extractor/src/esp_extractor_reg.c`, `esp_muxer/src/muxer_reg.c` | none | call a closed library per format | - |
| closed libraries | effects, h264, image effects, protocols, jpeg, muxer, codecs, fetcher, MIDI | - | headers only | no source |
| libsrtp, packets | `esp_libsrtp/libsrtp/srtp/srtp.c`, `crypto/replay/*.c` | per stream: the 48 bit index, two replay windows, a pending rollover counter | protect, unprotect, the same for RTCP, set_roc, update | the index is guessed from 16 bits while packets are lost, repeated and reordered; rollover; rekeying of one side at a time |
| libsrtp, sessions | `srtp.c`, `crypto/kernel/crypto_kernel.c` | kernel; template, stream list, keys that are owned or shared | init, shutdown, create, add, remove, update, packets, dealloc | keys shared with the template; a list that grows; allocations that fail half way |

How they interact: applications allocate through the OS layer; when the trace is
installed it takes the place of the OS layer's allocators and calls the ones it
kept; under its mutex it hands each record to the history, whose ring the save
thread drains into a file. The HLS reader runs a thread of ESP-GMF that asks the
fetcher for media and publishes it on a data bus, and the application's reads go
through the filter in the application's own thread. The fetcher reads URLs
through the callbacks of the URL cache (or of a file helper). The video front
end looks codecs up in the registry and passes calls on. The extractor library
calls the ID3 parser when it meets a tag, with a callback to read. A sending and
a receiving SRTP session share nothing but the packets on the network.

## 2. Modules

| module | what it is |
|---|---|
| `MemTrace` | the memory trace: tasks, heap, record table, usage, start and stop |
| `MCMemTrace` | symmetry for TLC |
| `MemTraceProofs` | `MemTrace`: types, one record per block, records are true, the usage is what they sum to, the leak report is exact, each module's usage and the peaks |
| `MemHisLog` | abstract specification: the file is a growing prefix of the accepted bytes, closed when it holds all |
| `MemHis` | the ring, the writers, the save thread and stop; refines `MemHisLog` |
| `MCMemHis` | for TLC |
| `MemHisProofs` | `MemHis` implements `MemHisLog`; the slice being written is not shared |
| `HlsStream` | abstract specification: reads give consecutive bytes from the last open or seek; the end comes with or after the last |
| `HlsRead` | IO thread, data bus and read filter; refines `HlsStream` |
| `MCHlsRead` | for TLC |
| `HlsSource` | the three implementations of the fetcher's source: URL cache, helper on ios, helper on files |
| `MCHlsSource` | URLs and their schemes for TLC |
| `HlsProofs` | `HlsRead` implements `HlsStream`; a handle of `HlsSource` reads its URL, ios and FILEs have one owner |
| `VideoReg` | the registry of video codecs, used for encoders and for decoders |
| `VideoRegProofs` | its invariants and the stability of its answers |
| `EncSettings` | abstract specification: a setting answered OK is what every later frame is coded with |
| `VideoEnc` | extends `VideoReg`: front end and the four encoders; refines `EncSettings` |
| `VideoEncProofs` | `VideoEnc` implements `EncSettings` and the registry |
| `VideoDec` | extends `VideoReg`: front end, the three decoders, an application that retries |
| `VideoDecProofs` | what is given was decoded, once; with a patient application every frame is given, and what is told is of the last |
| `MCVideoEnc`, `MCVideoDec` | codecs and streams for TLC |
| `Id3Parser`, `MCId3Parser` | the ID3 parser, and frame ids for TLC |
| `Id3ParserProofs` | it stays in the tag, blocks have one owner, a field is its last frame |
| `SrtpIndex` | operators: index guess, the replay databases of RTP and RTCP |
| `SrtpChannel` | abstract specification: an index is used for one packet of a key; what arrives was sent, and arrives once |
| `SrtpStream` | extends `SrtpIndex`: one SSRC between two sessions and a network; refines `SrtpChannel` |
| `SrtpKernel` | the crypto kernel: loading its types, shutdown |
| `SrtpSession` | extends `SrtpKernel`: template, stream list, keys on the heap, updates |
| `MCSrtpStream`, `MCSrtpSession` | for TLC |
| `SrtpProofs` | the guess is right within half of the sequence numbers; the windows remember what they can tell; `SrtpStream` implements `SrtpChannel`, refuses nothing it should accept, never goes back; the keys of `SrtpSession` have an owner, updates apply |

### MemTrace

| model | code |
|---|---|
| `heap` | what the kept allocators have handed out: size, whose, and (history) whether the trace was told |
| `mt` | `*mem_trace`: `trace_item`, `module_lists`, usage and peak |
| `mtState` | `mem_trace` NULL, in use, or in use with its mutex destroyed |
| `typeSet`, `recordNum` | `trace_cfg.trace_type`, `trace_cfg.record_num` |
| `lib` | the allocators `media_lib_set_mem_lib` installed |
| `holder` | who holds the mutex across several steps (the two reallocs) |
| `task[t].pc` | `kmalloc` kept.malloc, `add` add_trace, `remove`/`kfree` the two halves of `_free`, `krealloc`/`lock` the start of `_realloc`, `mlock`/`mrealloc` that of `media_lib_module_realloc`, `rremove`/`radd` what both do next |
| `ctl` | the controller inside start (`num`, `install`) or stop (`restore`, `mutex`, `free`) |

`CallX` is a call up to the first point where another task can interfere: it
evaluates the `trace_type` test and the dispatch through the installed table.
An access of the kept heap outside the mutex is a step; a section that takes the
mutex once is a step, as nothing it does can be seen before it ends. In the two
reallocs the outer lock, the kept realloc, the nested remove and the nested add
are four steps, because a wrong lock there is what could go wrong.
`media_lib_malloc`, `calloc`, `caps_malloc_align` and `strdup` differ in the size
they record only, and are one action; so are `get_mem_usage` and
`print_leakage`, which change nothing. The client obeys the heap's own rules: it
frees and resizes blocks it holds, once. A start that fails (no memory, no
mutex) releases what it made before anyone can see it and is not an action.

### MemHis

Bytes are numbered in the order the writers hand them over, so that a slice
overwritten, written twice or out of order shows. Writers hold the trace's
mutex, hence one `writer`. `SaverPoll`, `SaverLocate`, `SaverWrite`,
`SaverRelease`, `SaverCheck`, `SaverFlush`, `SaverClose` are the statements of
`save_thread` between which others can run. Not modelled: a save thread that first runs
after stop has freed `save_his` and reads through NULL (`SaverStart` ends there; that
stop does not wait for such a thread is part of the finding of `mem_his_race`), and a
stop that meets a task inside a wrapper (`media_lib_stop_mem_trace` calls it without
the trace's mutex): `MemTrace` has that case, in `mem_trace_stop`.

### HlsRead

`bus` holds headers and media bytes, each media byte by its place in the stream:
a filter that loses step takes a media byte for a header. `Fetch`, `FetchWait`,
`FetchEos`, `FetchFail` are the outcomes of one `hls_fetcher_read_data` inside
`_hls_acquire_read`; `PullMeta` is one turn of `_hls_pull_next_meta`; `TakeMedia`
and `NothingLeft` are the two outcomes of `esp_gmf_db_acquire_read` in the
filter. External, modelled from how the code uses them: the fetcher (it marks the
first data of a segment, and the first after a seek, with `bos`), the bus (a
frame becomes visible whole), and the framework (it stops the thread and empties
the bus when a seek succeeded).

### HlsSource

`backend` is the table of functions the fetcher was given: `cache` (`hls_io.c`),
`ios` (`hls_io_helper.c`) or `files` (`hls_helper.c`). `file` holds the ios or FILEs
there are, with the URL they are on; `shared` is `hls_io->io` or the playlist's,
`tag` is `prev_io_tag`, `handle` what the fetcher holds, and `want` (history) the
URL it last opened or reloaded a handle for. An open, reload or init fails
wherever the code can return an error. Reads, seeks, sizes and aborts go straight
through to the io and are left out, with the positions in files. External: the
fetcher, a closed library. `Careful` says what the code relies on it for: the
cache has one handle at a time, and a handle of the playlist is reloaded with the
playlist only. Without the first, `ReadsItsUrl` fails as soon as a second URL is opened;
without the second, as soon as a reference is reloaded. The fault `"open"` (an io
that was made does not open) is left out of the run because the helper on ios is
known to lose the io then; with it TLC violates `EachHasItsOwner` (a finding).
At a change of scheme `CacheMiss` closes and deinits the io, as the code does, and does
not delete it: what is left is a `Shell`, an object to which nothing points any more,
and there is one more after each change (a finding). `EachHasItsOwner` is about what
was not ended and leaves the shells of the cache out; it does say that the helpers,
which end what they made by a delete or `fclose`, leave none. Shells take their places
in `Files`, so that four ios are three changes of scheme.

### VideoReg

`libs` is the linked list, its head first. `AddLibs`, `RemoveLibs` and `LibExists`
are `add_libs`, `remove_libs` and `lib_exists`; a call that is refused, or says OK
and does nothing, is not an action. The scan of `lib_exists` is stated by what it
stops at: the first entry of the fourcc, or without a fourcc the first of hardware,
or else the last it saw.

### VideoEnc

| model | code |
|---|---|
| `ops` | `video_enc_t.ops`: the codec found at open |
| `cfg` | `enc_cfg` (`jpeg_enc_cfg` of the hardware) |
| `inner` | `enc_handle`: NULL, created but not opened, open |
| `param` | what the wrapped encoder has taken over |
| `Set(k, v)` | `esp_video_enc_set_*` with the `set` of the codec; `Sent` is the type the front end passes |
| `Process` | `esp_video_enc_process`: `open_h264` or `open_jpeg` at the first frame, then the frame |

The settings in force are `param` of an open wrapped encoder and `cfg` otherwise;
that is the refinement mapping. Creating, opening, setting and coding in the
wrapped libraries can fail at any call. Three settings are left out of the run and
of the theorem because the code is known to get them wrong: the GOP (`"gop"` not
in `Settable`), whose call changes the frame rate, the quality of software
MJPEG before the first frame (`EarlyQuality`), which is lost, and after it a quality
that `jpeg_enc_set_quality` refuses (`OddQuality`; `TakesQuality` is what it takes, 0 is
not in it though `esp_video_enc.h` allows it), which is answered OK and lost. With any
of them TLC violates `SettingsTakeEffect` in a few steps; each is a finding.

### VideoDec

A packet is a sequence of units, each a picture by its size or one that gives no
frame. `Data` is the address `in_frame->data`. `kept` is `out_frame` of the software
H.264 decoder with `last_dec_data` and `last_consume_size`; `opened`, `info`,
`expect` are `opened` or `header_parsed`, `jpeg_info`, `frame_info` or what
`param_handle` tells, and `expect_out_size`. `Decode` is one `esp_video_dec_process`;
`Retry` and `NextPacket` are the application of `video_codec_test.c:687-708`.
External: the wrapped decoders take at most one picture per call, and the
hardware driver says how large the frame is when the buffer is too small. The run
is of an application that does not give a packet up after "buffer not enough"
(`GivesUp = FALSE`): the kept frame is recognised by the address alone, so one that
drops the packet and reuses its buffer is given the old frame, and
`EveryFrameOnce` fails. The streams of `MCStream` do not grow for the hardware: with
`MCGrowing` in their place `RetryFits` is violated (a finding). Nor do they turn
there without changing their area, which leaves `info` stale (a finding).

### Id3Parser

| model | code |
|---|---|
| `live` | the blocks allocated; a block is named by its purpose and the number of the frame it was taken for, so none is mistaken for another |
| `fields`, `extra`, `cover`, `parsed` | `parser->info`, `parser->parsed` |
| `left`, `at` | `left` of `id3_parse_v2`; the bytes of the tag read or skipped |
| `pc` | what of a frame comes next: header, body, text, extra, picture, release |
| `nth`, `kept`, `broken` | history: frames so far, the texts kept, whether a read failed |

The steps end where a read or an allocation can fail, so that a failure meets every
state of the handle. What a text says and how it is encoded is abstracted to the
frame it is from; that UTF-16 is not copied whole and that the encoding reported
is the last one are findings. `get_info` only reads. The ids of `MCId3Parser` leave
out `TCOM` and `TCOP`, which the code takes for the genre (a finding): with one of
them `FieldsTakeLast` is violated.

### SrtpIndex and SrtpStream

| model | code |
|---|---|
| `snd`, `rcv` | `srtp_stream_ctx_t` of the SSRC in the sending and the receiving session; `up` is FALSE while only the template exists |
| `index`, `mask` | `rtp_rdbx`: highest index, and the bits that are 1 in the vector below it |
| `start`, `rtcpMask` | `rtcp_rdb` |
| `pending` | `pending_roc` |
| `key` | which master key of the sequence the stream is on |
| `sent`, `got` | how often each packet was protected and unprotected |

The network is every packet once sent: it may arrive at any later time, any
number of times, or never. Ciphers, digests and key derivation are abstracted to
one fact: a tag verifies exactly if the receiver has the same master key and
arrives at the same index (RTP carries 16 bits of it, the rollover counter goes
into the tag). `allow_repeat_tx` is FALSE, its default. AEAD is not configured in
(`GCM` is undefined in `esp-port/config.h`). The key usage limit is a refusal like any
other (`accepted` in `SrtpSession`); that its counter goes on below zero is a
finding. `BeforeWrap` ends a stream before the last index there is: after it the code
begins again at 0 without an event (a finding). A rollover counter that was set is kept
until the estimate is far ahead and is lost by an update (findings); the
condition of `InSync` therefore names the case without and the case with one.

### SrtpKernel and SrtpSession

The heap is which master key each block holds; `keys` of a stream is the block it
uses, its own or the template's. `luck` is the allocation that fails in a call:
`load` in the kernel, `alloc` of a stream or a template, `grow` of the list's array,
`clone` of a stream of the template. A stream is its SSRC, keys, direction and the
number of packets of RTP and RTCP it took, which is what an update must carry
over. `SessionNext` is a step of the kernel or a step of the session: streams need the
secure kernel. `used` and `told` are history: what the SSRC was used for, and whether
a collision was reported. An update makes a stream anew and forgets its direction
(`srtp_stream_init`), while its index goes on: a collision of what the SSRC did before with
what it does after is reported to nobody (a finding). The run asks for the uses since
the stream was made or last updated; with `AcrossUpdates` those before count too
(`Carried`), and TLC violates `CollisionsReported` after create, protect, update, unprotect.
Left out of the run because the code is known to get them wrong,
each a finding: two policies for an SSRC (`AddTwice`; the second stream is never
found), and the faults `update_init` and `update_list`, after which the keys of the
new template stay allocated (`KeysOwned` is then violated). A clone that fails in an update
takes streams with it that had been moved already: it loses streams, not
keys, and is in the run (a finding). `TagsAssumption` says that the tags the model
uses are apart from what they are tags in: the code has a type beside the SSRC, and
a pointer where the model says that a block is unused.

## 3. Runs

| run | instance | states | shows |
|---|---|---|---|
| `mem_trace_named` | 2 tasks, 3 addresses, sizes 1 and 2, 2 modules, table of 2, symmetric | 2.5 M | table, leak report, per-module usage and peaks are right when every call names its module |
| `mem_trace_mixed` | 2 tasks, 2 addresses and 1 of the client's, plain and named, failures, table of 1 | 218 k | usage = recorded + overflowed; every call returns |
| `mem_trace_stop` | tasks not quiet | violation | stop frees the trace under a running wrapper |
| `mem_his_calm` | 4 slices of 3 bytes, records of 1, 2 and 4, 26 bytes | 4.5 k | the file is the log; slices are never shared; writers and stop get through |
| `mem_his_race` | the same, stop at any time | violation | stop can lose a full slice |
| `hls_read_play` | 6 bytes in 2 segments, frames up to 3, reads of 1, 2, 4 | 22 k | continuous stream; segments, end and failure are reported |
| `video_enc` | 4 encoders and one of the application, at most 2 registered at a time, numbers 1 and 2, a field of 8; values 0 and 1 | 110 k | settings other than the three of section 2 hold across the first frame and failures; lookups are unique, stable, hardware first |
| `video_dec` | 3 decoders, 3 packets of 1 to 3 units, 2 addresses, buffers of 1 and 8 | 8.6 k | each frame once and in order; retries have the right size and end; information is current |
| `srtp_stream` | 6 sequence numbers, 2 rollovers, windows of 2, 4 RTCP indices, 2 keys, 3 packets on the network | 69 k | every packet at most once and under an index of its own; nothing that should be playable is refused; indices never go back |
| `srtp_session` | 2 SSRCs, 2 master keys (symmetric), 3 blocks of keys, a list of 1 that grows | 177 k | keys are freed once and none is left; collisions are raised, if no update lies between; updates reach every stream they are for |
| `hls_source` | 4 URLs: 2 schemes, one of none, the playlist; 2 handles, 4 ios | 7.4 k | a handle reads its URL; every io and FILE that was not ended has one owner |
| `id3_parser` | tags of 3 and 34 bytes, frames of 0, 2 and 6, 7 ids, 4 frames and tags, 1 extra text | 4.3 M | nothing leaks or is freed twice; the reader stands behind the tag; a field has its last text |

Why the bounds are enough. Two tasks are what an interleaving of one call with
another needs; three addresses let one block be moved while another task is
given the old address and a third block exists, whose record is moved by the
swap in the table; a table of two overflows; ids 0 and 1 are the shared and an
unshared id. `MaxLost` stops allocation once bytes were counted without a record
(they stay for ever and would make the state space infinite). `MaxBytes` lets
the ring of 4 slices wrap twice. The stream has a segment boundary that is not a
multiple of a frame or of a read. Two codecs registered at a time (`MaxLibs`) are
what one insertion or removal beside another codec needs, and the proofs are for
any number; two values tell a setting from the one before; packets of three
units have a frame, a silent unit and a second frame that does not fit. For SRTP
a median of 3 and two rollovers have every branch of the guess, three packets on
the network are the one that was late, the one that overtook it and a repetition,
and two keys one update of either side; the run stops at the ends of the indices,
hence `CHECK_DEADLOCK FALSE`. Three blocks of keys are a template, a stream with its own,
and the one being made while an update still holds the old; the list doubles from
one entry to two. A third io is there while the second handle is
open beside the playlist. A tag of 34 bytes holds two frames, or one and a rest; one
of 3 is shorter than any header; the fourth frame is one more than it takes to
replace a text, fail, and replace it again. `TypeOK` of the memory trace, of its
history and of `SrtpStream` is not in a run because it is proved.

Each violation is of a sentence the repository states; they are in
`PROJECT.json` under findings with that sentence. The calm runs say when the
code does keep it: `Concurrent = FALSE` (the application's tasks make no call
while the trace starts or stops) and `Calm` (stop
comes after the save thread has looked at the count since the last slice filled). Findings without a run of their own are disagreements the models
leave out by a named constant, or lines a model does not reach; they say which
constant, where there is one, shows them. Two of them concern the memory trace: with `NoModule` among
`AllocNames` of `MemTraceNamed.cfg`, `ModuleUsageExact` is violated (blocks without a module
are charged to nobody and taken off the first module), and with it among
`ReallocNames`, `OneRecordPerBlock` (the plain realloc frees before it locks).

Fairness. A task inside a call of the trace is scheduled and gets the mutex it
waits for: strong fairness of `Run(t)`, as FreeRTOS gives a mutex to the waiting
task of highest priority that waited longest and the recursion never starves one
of equal priority. The save thread and both polling loops sleep and are woken
for ever: weak fairness. The application is not obliged to allocate, to stop, or
to seek; for `hls_read_play` it is obliged to go on reading, which is what the
properties about being told are about. The IO thread has no fairness: it may
stop at any moment. In `video_dec` the application goes on with a packet it has
begun (weak fairness of `Decode` and `Retry`, the loop of the test); it may close or
not start at all.

## 4. Proofs

`MemTraceProofs` proves for every set of tasks, addresses, sizes and modules,
every table size and word size:

- `TypeCorrect`: `Spec => []TypeOK`. The invariant `TypeInv` adds what `TypeOK`
  does not say and its induction needs: module ids of records lie below the
  number of ids (`AllocModule` stops there), the arguments of a call in progress
  fit its `pc`, and the heap never holds a block of the client's by mistake.
- `OneRecord`: `Application => (Spec => []OneRecordPerBlock)` and `RecordsAreTrue` the
  same for `RecordsDescribeBlocks`. `Application` says that tasks are quiet during
  start and stop and that the plain realloc is not used; `mem_trace_stop`, and the instance with `NoModule` among
  `ReallocNames`, show that neither can be left out.

The argument (`RecordInv`): a block in the hands of a call in progress belongs to
that call alone (`Apart`); a task about to add a record of a block knows the block
to be live with the size it will record, and that no record of it exists
(`TaskInv`); a task between removing the record and freeing knows that no record
of the block exists; every record describes a live block unless the holder of
the mutex is about to replace it (`Records`); records are distinct (`Distinct`);
while the controller is inside start or stop every task is idle (`PhaseOK`); the
mutex is held exactly by the task inside a resizing (`MutexOK`). `OneRecordPerBlock`
alone is not inductive: adding a record keeps it only because the block handed
out had none, and that depends on what other tasks are doing to its address.
`RecordInv` was model-checked as an invariant of the instances of `mem_trace_named`
(2.5 M states) and of a mixed one with three addresses before it was proved.

- `UsageIsCounted`: `Spec => []UsageIsRecordedPlusLost`, for every table and word and
  whatever start, stop and the tasks do. What the table sums to (`Weigh`) is a
  fold over a function, whose order is a CHOOSE: `SumFunction` is first shown to be
  one addition for one more element (`Adds`), then, as induction with an operator
  parameter is out of reach, to depend on nothing but the elements by way of a smallest
  counterexample. Appending, the swap with the last record and the fall of the table by one
  then change `Weigh` by one record. The history variable that counts the lost
  bytes is not wrapped, the usage is: the two differ by `% 2^w` of the sum only.
- `LeakReportIsExact`: `Exact => (Spec => []LeakReportExact)`. `Exact` is `Application`, and
  that nobody resizes or no resize fails: one inside the mutex that does fail removes the
  record of the block and does not put it back. That what is traced is what is recorded
  is false inside a call; `Covered` says it but for a block whose record was removed and
  that is to be freed or recorded anew (`Between`), and for one that was moved and whose
  record is to be replaced; `MovedOK` says what a resizing knows of the block it had.
- `ModuleUsageIsExact`: `Named => (Spec /\ []RecordsFit => []ModuleUsageExact)`. `Named` is
  `Exact`, and that every call names its module, memory for an entry is there and the ids
  suffice for the names: a block without an entry is recorded under id 0, which is the first
  module's. `RecordsFit` says the recorded blocks amount to less than a word, as disjoint
  blocks of one address space do; a counter is a sum modulo the word without it. The
  property speaks of blocks and of the moments between calls, the steps of records:
  `CountEach` keeps each counter the sum of the records with its id and of what was lost
  under it, `RecordsNamed` each record's id the entry of its block's name. The second
  fails while a realloc to another name holds the mutex (`Replaced`), so it needs
  `RecordInv` and who may rename a block at all (`NameChanges`).
- `ModulePeaksFitTogether`: `Named => (Spec /\ []CountersFit => []ModulePeaksFit)`. A peak is a
  past value of a counter, so it takes an invariant over the counters of every
  moment (`PeaksFit`): the modules' usage adds up to the whole. `CountersFit` counts
  the lost bytes too, which are never taken off again: a trace whose table is full
  long enough does wrap, and then the claim is void.

`VideoRegProofs` proves, for any types, fourccs, descriptions and any number of
registrations, `RegTypeCorrect`, `OneOfEach`, `PrefersHardware` and
`AnswersAreStable`. The answer of `lib_exists` is characterised without its CHOOSE
(`Chosen`: accepted, and least or greatest among what it competes with; lemmas
`AnswerIsChosen` and `ChosenIsAnswer`); inserting at the head and removing shift
positions and keep their order, hence keep `Chosen` (`InsertKeepsAnswer`,
`RemoveKeepsAnswer`). Stability needs `OneOfEachTag`: after a removal no second entry
equal to the removed one may remain.

`VideoEncProofs` proves `Spec => RegSpec` (`EncodersRegister`), so the registry's
theorems hold of the encoders, `EncTypeCorrect`, and `EncodersKeepPromise`:
`Supported => (Spec => SettingsTakeEffect)`, step by step under the mapping above.
The invariant is `HandleInv`: configuration and parameters are functions on `Keys`
exactly while the handle, respectively the wrapped encoder, is open, and the
hardware MJPEG encoder never has a wrapped one. Without its last part a setting
that goes to `cfg` would not be in force. `Supported` names the three exclusions and
says that numbers fit the byte they are stored in.

`VideoDecProofs` proves of the decoders, for any streams, alignments, rooms and
buffers:

- `DecodesOnce` (`Spec => []DecodedOnce`), whatever the application does, and
  `RetryIsEnough` (`RetryFits`) where no picture of a hardware stream is larger than
  one before it (`NeverGrows`). From `Weak`: what the software H.264 decoder was fed is a
  growing sequence of places that ends where the application stands, or ahead
  of it by the units of the kept frame (`Fed`, `Ahead`); the frame kept and what
  `param_handle` tells are of pictures that were decoded; the other decoders are never
  ahead (`MjpegAt`).
- With an application that does not give packets up (`GivesUp = FALSE`):
  `DecTypeCorrect`, `EveryFrameGiven` (`EveryFrameOnce`) and, where no picture of a hardware
  stream has the area of another and not its shape (`NoTurn`), `InfoOfLast`
  (`InfoIsCurrent`). `EveryFrameOnce` alone is not inductive: a frame that was decoded
  and did not fit is neither given nor lost, it is the kept one. `Extra` says
  that each picture behind the application is given (`Complete`), each given one was
  taken (`Given`), the kept one lies ahead of it in the same packet (`KeptNow`), and
  whose picture `info` tells (`InfoNow`).

What `GivesUp`, `NeverGrows` and `NoTurn` leave out is what the findings show to fail.
`DecConstants` says what the wrapped decoders are for: H.264 and MJPEG, and a
packet of MJPEG is one picture.

`Id3ParserProofs` proves, for any frames, fields, sizes and faults, `InTag` (`StaysInTag`),
`AllOwned` (`BlocksOwned`) and `LastTaken` (`FieldsTakeLast` where `ExactIds`: an id is
that of one field only, which leaves out `TCOM` and `TCOP`). `BlocksOwned` says nothing in
the middle of a frame, so its invariant does: which blocks are in hand at each `pc`
(`Held`), that the names of what the handle holds and of what is in hand differ
(`Apart`), and that a block is named by a frame already seen, so that the next
allocation is of a new name (`Named`). `Placed` says how much of the tag is left at each `pc`.

`MemHisProofs` proves, for any ring, slices and records:

- `TypeCorrect`, `SliceNotSharedAlways`, `NeverDropsAny`, from `Sound`: the slices that are
  full lie just behind the one being filled (`Back(s, d)` counts them), the thread's
  slice is the oldest of them, and the count leaves one slice for the writers.
- `FileIsTheLogAlways` and `SyncCompleteWhenCalm`: `Calm => (Spec => FileIsTheLog)` and the
  same for `SyncComplete`, from `Complete`: `Ordered`, and that no slice is full when
  the thread leaves its loop (`CaughtUp`). The last is what `Calm` gives;
  `mem_his_race` shows that it does not hold without.
- `OnlyFullSlicesLostEver`, without `Calm`: `mem_his_race` shows that bytes can get
  lost, this theorem which. The file is in order, nothing is in it twice, and
  at the end it lacks the slices that are still full (`n` of them) and nothing else. The
  invariant `Ordered` adds to `Sound` what is in each slice (`Contents`: byte
  numbers that go on from slice to slice) and what the file has (`FileHas`):
  a run of bytes from the first, and once the unfinished slice is flushed
  `Skipping`, that run, a gap as long as the full slices, and the unfinished one.

`HlsProofs` proves of `HlsRead` `TypeCorrect`, `ToldBeforeMediaAlways` and `ContinuousStreamAlways`
(`Spec => ContinuousStream`, step by step: a read that returns is `HlsStream`'s read of the
same bytes) for any stream, segments, frames, reads, bus and seeks. The invariant is
`Sound`. Its core, `Synced`, says that the bus can be read from where the
filter stands: there are three functions on the places of the bus (bytes of a
frame still to come, place in the stream, segment told by then) which agree with
what is at each place and with what the filter (`remain`, `told`) and the IO
thread (`pos`) believe at the two ends. That `remain` agrees with the bus at present is not
inductive: a read in the middle of a frame, a timeout, or a frame cut by a segment
needs it of every later place too.

Of `HlsSource` it proves `Careful => (SourceSpec => []ReadsItsUrl)`, whatever fails, and
`EachHasItsOwner` where moreover `"open"` is not among `Faults`, for any number of URLs,
schemes, ios and handles. `Sound`: what is pointed to is there (`Held`), the cache has one handle
(`OneOfCache`), with a helper the references share
the playlist's io and every other handle has its own (`Apart`), an open io is at
the URL its handle wants (`AtWanted`). `Kept` adds that whatever was not ended is held,
`NoShells` that only the cache leaves shells.

`SrtpProofs` proves, for any median, number of rollovers and windows, `EstimateRight`
(a packet less than half of the sequence numbers away from the highest index is given its
own index and distance), and `RdbxKeepsWindow` and `RdbKeepsWindow`: adding an index the check
let through leaves in the window exactly what was there and can still be told,
and that index.

Of `SrtpStream`, for any number of keys too, it proves `TypeCorrect`,
`InSyncAlways`, `NeverBackAlways` and `Refinement` (`Spec => ImplementsChannel`). The
invariant `IInv` says what the bits mean: the ones of a stream are exactly the packets of
its key that it has seen among those its window can tell, and none it has
seen lies ahead of its index (`RtpInv`, for the sender with `sent` and for the receiver
with `got`); a stream has seen packets of its key and earlier ones only (`KeyInv`), and
none while only its template exists (`QuietInv`); the same for RTCP, where the
sender only counts (`SenderRtcpInv`, `ReceiverRtcpInv`); and nothing was sent
or accepted twice (`OnceInv`). `OnceInv` alone is not inductive: that a packet will not be accepted
again lies in the mask, or in its distance below the index.

Of `SrtpSession`, for any SSRCs, master keys, number of blocks and faults, it proves
`CollisionsAreReported` under `~AcrossUpdates` (an entry that was used against its direction
since it was made or updated has told so; its lemma is part of the invariant), and

- `SessionTypeCorrect` (`SessionTypeOK`): the streams fit the array of the list, whose size
  is one of `Capacities`. Streams with keys of their own are at most as many as
  there are blocks (`Apart`), and the clones of the template have an SSRC each (`Single`),
  so a list never has more than `MostStreams`; the least doubling that holds so
  many is one of the first `MostStreams` (`DoublingsFacts`, by a least counterexample
  in place of an induction). It needs that there are finitely many SSRCs, as there are
  in 32 bits.
- `KeysInUseAreHeld`: whatever fails, what a stream or the template names is
  allocated, and nothing but the template's keys is named by two.
- `KeysAreOwned`: `Leakless => (SessionSpec => []KeysOwned)`. `Leakless` says that neither of the
  faults `update_init` and `update_list` occurs: after them keys stay behind, as the
  run's instance leaves out for the same reason. The inductive invariant `SessionInv`
  needs neither: without `Leakless` it still gives that what is used is on the
  heap and that no two streams share what is not the template's (`Apart`); with it,
  that nothing else is (`Held`). Each helper (add, clone, remove, update of a stream, of the
  template and of the streams made from it) is shown to keep `Good` on any session and
  heap, since an update applies several of them to states no step ends in.
- `UpdateAppliesAlways`: `~AddTwice => (SessionSpec => UpdateApplies)`. With two entries of an
  SSRC an update replaces the first and the second keeps its key, so the invariant
  adds that each SSRC has one (`OneEach`).

`srtp_create` is a fold over at most as many policies as the model's calls have, two, and is
unrolled; the list `update_template_streams` goes through is of any length.

Checked by TLC only: the liveness properties, which are out of the prover's reach.

## 5. Plan

1. `MemTrace`, its runs and proofs. Done.
2. `MemHis` over `MemHisLog`, with proofs. Done.
3. `HlsRead` over `HlsStream`, with proofs. Done.
4. `VideoReg`, `VideoEnc` over `EncSettings`, `VideoDec`, with proofs. Done.
5. `HlsSource`: the URL cache and both helpers, with proofs. Done.
6. `Id3Parser`, with proofs. Done.
7. `SrtpStream` over `SrtpChannel`, `SrtpSession`, with proofs. Done.

Open: AEAD, should `GCM` be configured in.

## 6. Not modelled

- Closed libraries (effects, codecs, fetcher, muxer, protocols, MIDI): headers
  and archives, there is no source.
- libsrtp beyond indices, replay and key ownership: AES, HMAC, SHA-1 and
  key derivation compute a function of their inputs, and what they compute is
  abstracted to whether a tag verifies; the test drivers of the library and
  the cipher and digest registries' self-tests; AEAD, which is not configured in.
  This is most of the source by lines.
- The socket, TLS, crypto and netif layers of `media_lib_sal`: tables of function
  pointers with a NULL check.
- Threads, queues, semaphores and event groups of the OS layer: one call of
  FreeRTOS each.
- Registrations of codecs, extractors and muxers, codec defaults and sizes:
  straight lines of calls.
- The MIDI sample cache, the examples and test applications, other than the decoding
  loop of `video_codec_test.c`, which is the application of `VideoDec`.
