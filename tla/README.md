# A verification of deepin-movie

deepin-movie is a video player for the Deepin desktop: a Qt program of about
30 000 lines of C++ and C, with libmpv as its player and, on one platform, a
hardware decoder (VPU) driven through the vendor's library. Another 26 000
lines are that library's headers and the VPU's firmware. The repository has
no tests and no design document; what follows was read from the code. Paths are
relative to `src/src/`.

## The parts of the program

| part | state | operations | who it talks to |
|---|---|---|---|
| `PlaylistModel` (`common/playlist_model.*`) | `_infos`, `_current`, `_last`, `_playMode`, `_playOrder`, `_userRequestingItem` | append, remove, clear, playNext, playPrev, changeCurrent, setPlayMode, save and load | asks the engine to play and to wait; hears `stateChanged` |
| `PlayerEngine` (`common/player_engine.*`) | `_state`, a copy of the backend's | play, pauseResume, stop, next, prev, playByName, requestPlay, waitLastEnd | between playlist, widgets and backend |
| `Backend`, `MpvProxy` (`backends/mpv/*`) | `_state`, `_pendingSeek`, burst mode | play, stop, pauseResume, the mpv event handler, `pollingEndOfPlayback` | libmpv by commands, properties and an event queue |
| libmpv (external) | the file it opens or plays, `pause`, its event queue | loadfile, stop, set property; events FILE_LOADED, END_FILE, IDLE, property changes | runs in threads of its own |
| `MpvGLWidget` | what it draws with | draws the frames | libmpv's render callback |
| `MainWindow` (`common/mainwindow.*`) | window flags, `_miniMode`, `_pausedOnHide`, timers | `requestAction` for every user request, hide and show, tool window hiding | everything |
| `ToolboxProxy` (`widgets/toolbox_proxy.*`) | `_lastHoverValue` | shows the engine's state, previews | engine, `ThumbnailWorker` |
| `ThumbnailWorker` (`common/thumbnail_worker.*`) | `_wq`, `_cache`, `_cacheSize`, `_quit` | requestThumb, getThumb, its loop | a thread; signals to the main thread |
| `PlaylistWidget`, `DMRSlider`, dialogs, notifications (`widgets/*`) | selection, drag state | presentation | main window, engine |
| `BurstScreenshotsDialog` and burst mode of `MpvProxy` | `_count`, `_inBurstShotting`, `_posBeforeBurst` | fifteen shots by timer | backend |
| `EventMonitor`, `EventRelayer` | one flag | forward X events | a thread in the X record extension |
| settings, shortcuts, `ActionFactory`, `CompositingManager`, utilities, start-up | option values, key map | read once or on change | toolkit |
| VPU pipeline (`backends/vpu/vpu_decoder.*`, `vpu_proxy.*`) | three queues with mutex and conditions, `_quitFlags`, `_seekPending` | reader thread, audio and video decoder threads, refresh timer, seek, stop | each other through the queues |
| VPU API and device interface (`backends/vpu/vpuapi`, `vdi`) | the pool of instances, the pending instance, the lock of the core, all in memory shared by processes | open, close, SEQ_INIT, register frame buffers, start a picture and ask for its result, for decoders and encoders | the device; its other users |
| VPU memory manager (`vdi/mm.c`) | a page list with tags, a tree of free and a tree of allocated blocks | init, alloc, free, get_info, exit | called by `vdi.c`, unless the driver allocates |
| VPU helpers (`vpuhelper.c`, `vpuio.c`) | the queue of displayed frames, the VSYNC flag, what was written to the bitstream | stream headers, writing the ring, layout of frames | decoder, VPU API |
| firmware and vendor headers | - | data | - |

`PROJECT.json` lists each part with what of it is modelled.

Where the difficulty is:

* **mpv is asynchronous.** A command returns before its effect; the ends of
  files come later in a queue. The program keeps a state derived from events
  and takes an end it did not ask for as the end of the film, on which the
  playlist moves on. So an end read late can move the list on wrongly. The
  countermeasure is a nested loop, `pollingEndOfPlayback`, which reads and
  drops events until it meets an end.
* **Indices.** `_current` and `_last` are indices into a list that is edited
  while a file plays, and that lags behind what mpv plays.
* **The preview.** Requests, pictures and signals overtake each other, and a
  signal's slot runs when the playlist and the cache have changed.
* **The shared VPU.** The pool of instances, the lock and the pending instance
  outlive a call, a thread and a process; a lock is kept from one call to the
  next, left out on some error paths, and taken away from whoever holds it too long.
* **The VPU queues.** `put()` and `deque()` wait once and do not look again.
  A seek and a stop each flush the queues and put marks in them while the
  decoders and the reader go on.

What makes each part correct: the item shown is the item that plays, and the
list moves on only at the end of what was begun last (player); the derived state
is mpv's state once all is reported (backend); the last place hovered is
previewed, with a bounded cache and a worker that ends (preview); packets reach
the decoders in order and no old ones after a seek, queues stay bounded, no
thread is left behind, and stop ends the decoders (pipeline); an instance has
one owner, and the VPU is given one command at a time and in order (VPU API); each
page is in one block and what is freed is joined (memory); no two pictures
overlap, and the bitstream says what the file says (helpers).

## The modules

```
Media ── PlaylistModel ──┐
   └──── Mpv ────────────┴─ Player ── MCPlayer                 Jukebox
                              │                            ▲ J in Player
                              └─ Window ─┬─ MCWindow
                                         └─ PlayerProofs
Media ── ThumbnailWorker ─┬─ MCThumbnail
                          └─ ThumbnailProofs
PacketQueue ── VpuPipeline ─┬─ MCVpu
                            └─ VpuProofs
BitstreamRing ── VpuDecoder ─┬─ MCDecoder
                             └─ DecoderProofs
VpuApi ─┬─ MCApi
        └─ ApiProofs
FrameProofs ── FrameMaps ────────┐
StreamProofs ── BitstreamHeaders ─┴─┐
                                 ┌──┴─ MCMemory        PageAllocator
         AvlTree ── VideoMemory ─┤                        ▲ A in VideoMemory
                                 └─ MemoryProofs
```

**PlaylistModel** has the list and the decisions. `playNext()` and `playPrev()`
are operators (`NextPlans`, `PrevPlans`) from mode, list and idleness to a set
of *plans*: what to play or do, the new `_current` and `_last`, and whether the
end of the present file must be waited for. A set, because in ShufflePlay the
code reads past the end of `_playOrder` when `_last` is not in it
(`ReadPastOrder`): whatever is there is taken for an index.

**Mpv** is external: libmpv as the code uses it. The core is idle, loads or
plays; it may have been told to end its file (`stopping`) and to begin another
(`nextFile`). Ends come as `"end"`, then `"idle"` when nothing follows. A change
of the property `pause` is a bit, reported when the event queue is empty, as
libmpv does.

**Player** composes the two. The main thread is in its event loop or polls
(`thread`), in which case `plan` is what it does afterwards. One action per
user request (`User`), one per kind of event (`OnFileLoaded`, `OnEnd`,
`OnPauseChanged`), two for the poll (`PollDropsEvent`, `PollMeetsEnd`), and the
steps of the core. `_state` of engine and backend change in the same step and
are one variable. `fault` records that `currentInfo()` or `items()[id]` was
reached with no such item; the model goes no further.

**Window** extends Player by what pauses the film besides the user. `hideEvent`
pauses and `showEvent` resumes, both by the toggle `pauseResume()`, which goes by
the state the program knows. A burst of screenshots pauses, then takes a picture
and has mpv step a frame for each timeout of a timer, which is started again after
the last picture too; `requestAction()` toggles the pause when the modal
dialog is closed. A frame step is mpv resuming and pausing again (`FrameStep`,
`FrameStepped`). Three variables are ghosts: `asked`, what the user's last word
was; `overruled`, that since then the dialog of a burst could toggle a pause that the
burst had not made; and `tidy`, that every request so far came when mpv had reported
everything, the window was not hidden or shown behind an open dialog, and no dialog was
closed before its burst was over.

**Jukebox** is what the player promises: one item is shown, only it is ever on,
and editing the list does not disturb it. `Player` implements it with
`shown <- Item(current)` and `on <-` the file mpv plays.

**ThumbnailWorker** has the worker's loop, one action per critical section of
`_thumbLock`, the request, and the slot that Qt calls later. A request has a
number (`id`), which the code has not, so that requests for the same place can
be told apart. A picture's data is its size. The slot may come to a current
item that is not there, or to a picture that is not in the cache; `fault`.

**PacketQueue** has the three queues with their conditions. `asleep` says which
condition a thread waits on; `woken` which threads were woken and have not got
the mutex since. A woken thread goes on without looking again, as the code does;
taking from an empty queue then gives `junk`, an `AVPacket` whose data pointer
was never set, which may pass for a packet, an end mark or a flush mark.

**VpuPipeline** has the four threads. A place (`at`) is where a thread can be
overtaken: between two calls on a queue, and between reading a flag and acting on
it. A packet carries the number of seeks before it was read and its position.
What the VPU does with a packet is a choice: a picture, none, or an end of
decoding. `fault` is a decoder deleted while it runs, on which Qt aborts; since
ten waits of a second are long for packets that last one, it is only reached when
the decoders have ended or sleep and the main thread has no picture to take
(`TenSecondsOver`). The reader itself is deleted by the main thread after ten waits in any case
(`vpu_proxy.cpp:262`); that it still runs by then is left out of `JoinReader`, and no property rests on it.

**BitstreamRing** is the ring buffer in which compressed video is handed to the
VPU, as operators: the room a writer is told, the refusal to run over the reader, the
pointers after a write. `stored` is a ghost, the bytes really kept, which the two
pointers cannot tell once they are equal.

**VpuDecoder** is what VpuPipeline takes for a choice: `VpuDecoder::loop`, `seqInit` and
`flushVideoBuffer`, cut where they wait for the VPU or for the core's lock, with the
calls of the VPU API inside them. A decoder's `pc` is its place, `reason` the
`int_reason` it goes by, `fill` is `bsfillSize`, `shown` and `clears` are the instance's
`frameDisplayFlag` and `clearDisplayIndexes`, `queue` and `vsync` the helpers' display
queue and VSYNC flag. `hides` is that the instance is of a VC-1 film (`Vc1Films` has such films) of which only B
pictures were displayed so far; what they left is in `hidden`, a ghost. `lock` and `pending` live in memory shared by all processes, which
is why two decoders meet at all. The VPU is external: it reads bytes, asks for
more when it has less than it reads at once, or finishes with any result; an
interrupt stays, and the VPU with it, until the host has received it (the
comment in `VPU_ClearInterrupt`). `ForceLock` is `vdi_lock` losing its patience, `TimeOut`
an interrupt that did not come in time. `disturbed` is a ghost: one of these took a
lock from its holder or left a command unfinished, or a header met a memory
violation, which keeps the pending instance (`vpuapi.c:1153`). `_quitFlags` of the
decoder is only set by its own thread and is `quit`. `buildVideoPacket` has no
`return` at its end; what its caller compares with zero is `negative`, either.
Left out: the mode PIC_END and the post-processor, which the program does not
switch on, the debug frame count, and answers to SET_FRAME_BUF that never come.

**VpuApi** is the other side of the same calls: what several users, decoders and
encoders, do to each other through the pool, the lock and the pending instance.
A client's `pc` is the call it has made (its checks are done before it has the
lock, `MayCall`), or the place between the two halves of one. The model keeps
apart what the pool says of an instance (`pool`: `inUse`, `codecMode`,
`initialInfoObtained`, whether a stride is set) and what the VPU has been told
(`told`), because every check goes by the former. `Failures` are what may go
wrong: the driver refuses, memory is lacking, the firmware answers badly, SEQ_INIT meets
a memory violation, a map of tiles cannot be set, an answer never comes. `Crash` is
the process dying with a call half done. `lock` and `pending` are shared with its
successor; a lock whose owner is gone is `"gone"`. The ghosts `spoilt`,
`overtaken` and `abandoned` record what the properties must except: a registration
of frame buffers that failed half-way, an instance given out before it was
wholly freed, and a command that a memory violation has left on record.

**AvlTree** and **VideoMemory** are `vdi/mm.c`. A tree is a nested record; the
operators do to copies what the code does to nodes (rotations, the
re-balancing, the five shapes of taking a node out, `remove_approx_value`). What the code does
by recursion is a recursive function over `Trees`, all trees that are no higher
than `MaxHeight`; it only has to be more than the number of pages, and `HeightCounted`
below proves that no tree of the allocator then outgrows it. The pages
have the tags of the code: used, the length in a block's first page, the first
page's number in its last. `ASSERT` never returns, so a failed one is `stuck`.
**PageAllocator** is what all that promises: best fit, lowest first, free
neighbours joined. VideoMemory implements it with the trees as the sets of blocks.

**FrameMaps** has where the pictures lie: `AllocateFrameBufferArray` (sizes
and base addresses of the frames), `SetTiledMapType` (the tables from positions to
row, bank and column of the memory and from these to addresses) and
`GetXY2AXIAddr`, which follows the tables. The state is what an encoder keeps
of them in `VPU_EncRegisterFrameBuffer`. Of a size that call asks only that the stride is not 0 and a multiple of 8
(`vpuapi.c:3631`), and so does `RegisterFrameBuffer`; of the height and of an upper bound of the number of frames
it asks nothing. The constants (`FrameMapsAssumption`) leave a caller these duties: a stride of at most 2048,
which is what the tables' bits 0 to 10 of x can tell apart; a height of at most 1088, which is what
`CheckEncOpenParam` admits of a picture (`MAX_ENC_PIC_HEIGHT`, `vpuapifunc.c:508`, with at most 1920 of width); and
at most 22 frames, since the call writes their addresses into `frameAddr[22]` (`vpuapi.c:3607`). Blocks of the driver's
memory begin at pages of `VMEM_PAGE_SIZE` (16 K; `vdi/linux/driver/vmm.h:490`).

**BitstreamHeaders** has what `buildVideoPacket` writes: the sequence header made
of the extradata, then for each packet a picture header and the data, in which
an mp4 file's lengths have been replaced by start codes. A byte is a number or
the i-th byte of something nobody looks at. `Films` says of each film what it
consists of, `Found` how a decoder reads a bitstream by the rules of its format, and
`IsFilm` what a file of each format is: an mp4 file puts lengths before its units, in a broadcast
start codes stand before them, no unit has a start code in it (the formats see to that), and a length is
one that its field can hold. `FilmsAssumption` is that `Films` are such, and TLC evaluates it for those
of the run. Not among them is a broadcast with neither extradata nor a start code in its packet's first bytes
(up to the next multiple of 4, `IsBroadcast`): there `BuildPicHeader` reads `avc->extradata[0]` through a null pointer (`vpuhelper.c:2537`).

**MC modules** extend these with TLC's `Permutations` where symmetry is used: in
`Player_hasty.cfg` and `Decoder_two.cfg`, neither of which checks liveness.
`MCMemory` holds three helpers that share no state; one of them moves in a behaviour and the
others stay as they began, so that their states are added and not multiplied.

## The runs

| run | question | bounds |
|---|---|---|
| player_hasty | requests at every moment, all modes, files that fail to load | 2 urls, 5 events |
| player_patient | a user who acts when mpv has settled; refinement of Jukebox; a looping list plays every item | 3 urls, 4 events, all modes and requests |
| player_waitend | two requests in a row: violation of the rule of `waitLastEnd` | 2 urls |
| player_assert | clearing while a file loads: violation of the assertion in `currentInfo()` | 2 urls |
| window | hiding, showing and bursts among pauses, play and next | 2 urls, 3 events, bursts of 2 pictures, a looping list |
| thumb | the preview, safety and liveness | 2 films, 2 places, 3 requests, pictures of size 0 to 2, threshold 1 |
| vpu_play | playing and seeking, decoders that fail, the end of the film | queues of 1, 3 packets, 1 seek |
| vpu_stop | stopping and seeking | queues of 1, 1 packet, 1 seek |
| decoder_one | one decoder: ring, commands, frame buffers, its end | ring of 8 bytes read 2 at a time, 2 frame buffers, pieces of 1, 2 and 9; films of VC-1 and others |
| decoder_two | two decoders on one VPU, impatient locks, timeouts | ring of 4 read 1 at a time, no pictures, so that what VC-1 hides is nothing |
| memory | the allocator and its refinement; the frame buffers' addresses; the bitstream | 9 pages of which one is lost, blocks of 1 to 4; all maps on both memories, 2 frames, 5 strides (one refused) and 5 heights; 254 films of two packets |
| api | the calls of two users while anything fails | 2 clients, 2 instances, every failure, 1 crash |

Deadlock is not checked: a player with an empty list, a worker that has quit,
a stopped pipeline and a decoder whose slot is lost rightly do nothing more.

*What they show.* `EndWillCome` and `PollReturns`: the poll never waits for an
end that cannot come, though it drops events, a paused core that went idle
included. `SettledStateIsTrue`: dropping events does not leave a wrong state
behind. `AdvanceOnlyAtLastEnd`, `IsJukebox`, `OneFileInFlight`: hold for a user
who waits for mpv to settle, and only for that one. `player_waitend` shows the
second request in a row: the state is Stopped until FILE_LOADED is read, so the
wait is left out and the end of the first file is later taken for the second's.
With further requests and a pause this does not settle: TLC finds a run in which
each stale end makes the list begin another file whose beginning interrupts the
one before, and so on for ever with nothing played. `LoopPlaysEveryItem`
therefore only speaks of players with no more than one end to read, and is
checked for the patient user, in all modes, with changes of the mode.
`ShuffleOrderFitsList`: every operation that changes the list in ShufflePlay
rebuilds the order.

`PlaysAsAsked`: what hideEvent paused is resumed for the user, and a film that the user
paused stays so; files that end behind a hidden window are no exception. A burst keeps
less well to it. `burstScreenshot()` pauses a film only if it plays
(`mpv_proxy.cpp:511`), but `requestAction()` toggles the pause after the dialog in any case
(`mainwindow.cpp:1119`). So a burst on a film that the user had paused resumes it; and when the file ends
under the dialog, the next one plays already and is paused by the closing. Both are in the model
(`CloseDialog` leaves `asked` alone) and are what `overruled` excepts, until the user pauses or resumes
again. Nothing in the repository says what a burst should do there, so no run refutes it.
The property also only holds while `tidy` does. Hidden and shown before
mpv has reported the pause, the window finds the state still Playing, leaves the
film paused, and keeps the flag, which is why `RemembersWhileHidden` has the same
condition. `BurstEnds` speaks of an open dialog, since
it is the dialog that counts: closed early, the burst goes on stepping and pausing
until the film ends.

`CacheIsBounded` relates the counter to the cache through every cleaning.
`PreviewsInOrder` and `LastHoverIsPreviewed`: taking the newest request and
dropping the rest neither shows an older place after a newer one nor forgets the
last. `MissingOnlyIfOutdated`: `getThumb()` dereferences what `find()` gives
without looking; that it is `end()` happens, but only for a request that the
worker has left behind. The slot also reads `currentInfo()` when the film may have
ended: the model comes to it and the list has no current item.

`DecodedInOrder` and `OneStaleFrame`: after a seek the decoders get a flush mark
before any packet read after it, whatever they slept on, and at most the one
picture in work survives. Once stop() empties the queues, flush marks included,
packets of two seeks may meet, and nothing is claimed any more. That is the label on the frame: the VPU's own ring and
its reordered pictures are not emptied by a seek (`VPU_DecFrameBufferFlush` is commented
out at `vpu_decoder.cpp:1762`), so a picture of before the seek may still come
with the label of a packet after it. `SleepsOnlyAfterSeek`: the refresh timer looks at the
size and takes the frame in two critical sections; only a seek's flush comes
between. `QueuesBounded`: see the proof. `DecodersCatchUp`: no mutual wait between
the reader, the two decoders and the display. `EofEndsDecoders`: the end mark
works, with the two exceptions it names. The first is real: stop() puts its
marks, and a seek that the reader is just carrying out flushes them; the decoder
then sleeps until it is deleted. At the natural end of the film no mark is put at
all (`ReaderMeetsEnd`), and a decoder that sleeps on its empty queue is deleted
after ten seconds while it runs.

`UnreadIsKept`: the writer's margin and rounding keep it behind a reader that moves on
while it writes, over every wrap, and a full ring never looks like an empty one.
It excepts a decoder that has given up (`GaveUp`): a memory violation in its header leaves it
on record, and the next decoder to open sets the VPU's pointers for itself.
`KnowsItsCommand`: the decoder goes from packet to packet with a command open and knows
that only by the last interrupt's reason. `LockGuardsCommand` and
`CommandsExclusive`: the lock held across packets is what keeps two decoders apart;
they hold until a lock is taken away, and not after, when the robbed decoder's next call
clears and unlocks what is the other's. `PicturesGoBack`: each picture that the decoder is told of goes
back with the next command, because `sendFrame` has already copied it and raises the VSYNC flag
that its own call then reads. Between packets the display queue is empty, so that the
seek's emptying of it and the flag raised when the VPU runs out of buffers find
nothing to do. What is not given back is exactly what the decoder is not told of: of a
VC-1 film, `VPU_DecGetOutputInfo` reports nothing displayed instead of the B pictures before the first
other picture (`vpuapi.c:2557`), though the VPU displays them. The decoder then queues and clears nothing
(`vpu_decoder.cpp:1485`), the flags stay set, and so many frame buffers are lost to the film; with as many of these
pictures as there are buffers the VPU has none left. The property says so (`hidden`). `EofCloses`: after an end mark the instance is closed, whether the VPU was
starved, timed out or in the middle of a picture.
A header that is refused is the exception: the jump to `ERR_DEC_INIT` goes past
`VPU_DecClose` (`vpu_decoder.cpp:1795`), and the instance is lost.

`OneOwner` and `HandleWorks`: an instance is looked for under the lock and freed
outside of it, in two writes (`inUse`, then `codecMode`). A new owner may come
between them. It is still the only owner; but the second write takes its `codecMode`
away, and every later call refuses its handle. That is the exception of
`HandleWorks`. `PendingIsLocked`: the command on record is the lock holder's. Left
behind by a memory violation in SEQ_INIT (`vpuapi.c:1153`) it refuses every
command of everybody else until somebody takes the lock by force.
`CommandsInOrder`: what the checks read is in the pool, what they are meant to
guarantee is in the VPU; the stride is set before all in a registration that may fail, so a
picture may be begun without frame buffers after one that did. `LockComesFree`:
three calls return without leaving the lock (`ForgetsLock`: `VPU_DecGetInitialInfo`, the encoder's
registration of frame buffers, and `VPU_GetVersionInfo` when the firmware does not run, `vpuapi.c:399`) and a dead process
never does; `vdi_lock` takes it back. The version is only asked before an instance is opened, as `CheckVersion` does
(`vpu_decoder.cpp:1660`).

`SearchTrees` and `TagsTell`: the trees are balanced search trees after every
order of calls, agree with the tags, and no `ASSERT` fails. `IsPageAllocator`:
together they are the allocator of `PageAllocator`. `BlocksApart`: for every map of
tiles, both memories and both layouts of chroma, no two blocks of the frames
have an address in common or lie outside what was allocated, and a frame fits
`VPU_GetFrameBufSize`. The fit holds of every size the call lets pass, the rest but for two
exceptions. One is a map, `Crooked`: FIELD_V
with ten column bits. Its table begins with an entry `Z_SEL`, which stands for
zero elsewhere, but here is read as bit 0 of y, exclusive or the field. The other is sizes that a map cannot
lay out though the call does not refuse them, `Ragged`: in the macroblock maps strides or heights that are no
multiple of 16 (with a stride of 24 the number of a macroblock, `vpuapifunc.c:2631`, is the same for the last half of
one row and the start of the next); in the linear map with separate colours strides
that are none (a line of chroma is then 4 bytes more than whole blocks); in the row maps heights of one more than a multiple of
256 (halved twice before they are rounded up). The rounding that avoids this
is the caller's: the decoder rounds to 16 and 32 (`vpu_decoder.cpp:1050`), but calls
`VPU_DecRegisterFrameBuffer`; the repository has no caller of the encoder's. By the proof no other
size fails; of the macroblock maps some strides and heights that are excepted do no harm.
`StreamTells`: for films of
every format that is written, a decoder that follows the format finds in the
bitstream the parameter sets and the pictures of the film, in order.

*Are the bounds enough?* The player's interesting cases need two files in mpv
(one that ends, one that begins), an index before and one after the current one
(three urls), and a queue that holds an end, an idle and what a second file
reports (4 or 5). A burst of two has a first picture and a last one. The
preview needs a request in work, one waiting and one newer: three; threshold 1 is passed by one picture of size 2 and not by one of size 1.
The queues need to be full and empty, so capacity 1 has all the cases there are of
`count >= capacity`, and three packets are one queued frame, one in the decoder's
hand and one waiting. One seek is enough for packets of two epochs. The
decoder's ring of 8 has the margin of 5 and room for one piece of 2 or two of 1, so that every
write wraps sooner or later at every offset; a piece of 9 is larger than the ring.
`bsfillSize` is only compared with one and two units and is capped there. Two frame
buffers are one displayed and one decoded into, and the VPU can run out of them.
Two clients and two instances are one instance taken by both in turn and one left
over, and an empty pool once one is lost. One crash shows what a successor
inherits, from each place of a call. Of eighteen units of memory that begin in the
middle of a page there are nine pages, and the one that `num_pages` forgets; eight pages in
blocks from one up make trees of height three, in which every shape of unlinking and
single and double rotations occur; `MaxHeight` is 10, more than the nodes there can be. The
frames have strides that are less than a row of the memory, that take more
than one, and the widest (24, 32, 1040, 2048), heights of one macroblock, of more than a field's
unit of rows, and the largest (16, 144, 1088); 20 is refused, and 24, 17 and 257 are what some map cannot lay out. The blocks looked at are at edges and about powers of two. The bitstream's
bytes have eight values instead of 256 (`Radix`), so that a unit of 8 to 15
bytes has a length whose bytes are 0 0 1 x, which is what a start code is confused with.
The theorems
below do not depend on any of them.

*Fairness.* Player: the event loop serves mpv, and mpv carries out what it was
told (`Handler`, `MpvStep`); nothing is assumed of the user, and a paused file need
not end. Window: the same, and the timer fires. Worker and pipeline: each thread runs when it can; Qt delivers queued
signals. Decoder: its thread runs, the queue of frames is emptied so that it can send, and a
VPU that is not starved (or knows the stream to end) finishes; packets need not come. VPU API: a client asks for
the result of its command, as the decoder's loop does when the interrupt or the
timeout has come, and goes on trying to take the lock, as the loop of `vdi_lock` does.
The wake-ups are not assumed, they are steps of the model.

Every property has a mutant in `PROJECT.json`: the definition of the code it
would catch going wrong, with a plausible fault (the operators are beside the
originals, such as `WrapEarly` beside `WrapAbove`).

## The proofs

`PlayerProofs`, for any set of urls, any requests, any queue length:

* `TypeCorrect`: `Spec => []TypeOK`. One step per action; the plans are typed
  by `PlansType` (that `_last` and `_current` do not fall below -1 rests on the
  guards of `playPrev`), the removal by `RemoveAtType`.
* `EndAlwaysComes`: `Spec => []EndWillCome`. Not inductive: a FILE_LOADED in
  the queue will set the state to Playing, so that the end of *its* file must come
  behind it. `EndInv` adds `LoadedIsEnded`: behind each `loaded` in the queue an
  `end` follows, or the core is busy, and that a paused state comes from a
  busy core. The step proof separates the actions that leave the queue alone
  (`EndInvQuiet`), those that read from it (`EndInvRead`) and those of the core
  that append to it (`EndInvEnded`).

* `OrderAlwaysFits`: `Spec => []ShuffleOrderFitsList`. The order changes only with
  the list or the mode. The lemmas say what reshuffling gives (`ReshuffleFits`) and
  that whatever is decided (`FinishFits`, `RequestFits`) keeps it.
* `StateComesTrue`: `Spec => []SettledStateIsTrue`. The state is only right in
  the end, so the invariant, `ToldInv`, says what is on its way while it is wrong: the
  news of a file that plays is the last event in the queue or has been read
  (`PlayingIsTold`), and the news of a pause is not lost before it
  (`LoadedIsAnnounced`, `PauseIsTold`). What the poll drops does no harm because
  it leaves the state at Stopped, and what was begun since is reported behind.

The second half of `PlayerProofs`, for the same and a user who waits for mpv to settle (`Patient`, which
its theorems assume): `PatientHolds`, `OneFileAtATime`, `MovesOnAtLastEnd`,
`CurrentInfoFound`, and `PlayerIsJukebox`, the refinement: `Spec => IsJukebox`.
The invariant `PatientInv` rests on how little can be in mpv's queue:
`QueueFits` gives it for each state of the core as a finite set of queues.
With this, the poll is in the middle of an end or has one to read next
(`PollIsShort`), no file waits for the end of another (`NothingWaits`), and the file
mpv is busy with is the current item (`CurrentIsOn`). That no url is listed twice
(`OnlyOnce`) is what makes the item an index points at the only one of its kind.
`EndWillCome` and `SettledStateIsTrue` come from the first half. Each action is then
shown to be a step of Jukebox or none.

`ShownIsOn`: the abstract player's promise is an invariant of it, and by
`PlayerIsJukebox` of the program.

The last part of `PlayerProofs`, for the same requests at every moment, and any length of a burst:
`AskedIsPlayed` (`PlaysAsAsked`), `NoStaleMemory` (`RemembersWhileHidden`) and
`PlayerUnderWindow`, that `EndWillCome` and `SettledStateIsTrue` survive the toggling of the
pause by window and burst. `WindowInv` says of a tidy history who has paused the film:
a hidden window, whose film then stays as it is, nothing to report
(`HiddenPause`), an open dialog (`DialogInFront`, `BurstIsShown`), whose burst paused a film that the user
wanted to play (`BurstPauses`), else the user (`PauseIsAsked`); the last two as long as nothing
could go against the user's word (`overruled`). mpv resumes an idle core by itself, which is why the user's word has
to be forgotten with it (`IdleIsTold`, `IdleForgets`). Steps of the window are
steps of the player's pause alone (`WindowIsPauseOnly`), for which the player's invariants are kept.

`ThumbnailProofs`, for any films, places, sizes, threshold and number of requests:
`InvariantHolds`, `NeverBack` (`PreviewsInOrder`) and `LastIsFound`
(`MissingOnlyIfOutdated`). `IInv` orders the numbers of all requests alive
(`InOrder`: shown, on the way, in work, waiting) and says that the
picture of the request in work is in the cache until the next is taken, if its signal
was sent (`LastIsKept`). `CacheStaysBounded` (`CacheIsBounded`) needs that the picture
entered is not there yet (`CacheInv`), and that a sum over a finite set grows by what is added,
whatever the order in which `MapThenSumSet` goes through it (`SumGrows`). That is an induction; the provers take
no lemma with an operator as parameter, so it is stated for sets of numbers (`NatInduct`, from the
library's `WFMin`) and used on the cardinality of the subsets.

`VpuProofs`, for all capacities, any film and any number of seeks: `TypeCorrect`,
`Spec => []TypeOK`, and `NeverOverfull`, `Spec => []QueuesBounded`. `put()` does not look again after its wait, so the
bound rests on who puts. A queue of packets is filled by the reader, and by the main
thread once, in stop(). Until then the reader, which looked before it read, never
waits at all: `ReaderHasRoom`. The main thread may wait and find the room it
was woken for taken: that is the one packet more. From then on the reader may be the
one that waits, and when it was woken there is room for it below that bound
(`WokenHasRoom`). The queue of frames has one producer. `IInv` is these with where
the reader and the video decoder can sleep (`ReaderSleeps`, `VideoSleeps`). Its step
is proved once for each kind of step (`TakeKeeps`, `PutKeeps`, `SleepKeeps`,
`MoveKeeps`), and each action is shown to be of one of these kinds.

`DecodesInOrder` (`DecodedInOrder`): what a decoder decoded last, what it has in hand and what
waits in its queue are one line (`Line`). In it packets between two flush marks are of one seek
and in the order of the film, and the end of the line is of the reader's present seek unless the
mark for it is still to be put (`Unmarked`). Taking moves the line on by one, putting appends to it,
a flush cuts it off, and a packet the reader holds is as new as the last (`ReaderHolds`).
`AtMostOneStale` (`OneStaleFrame`): `Fresh` says when the video's queue has no packet
from before the seek, `FewStale` that of frame queue and decoder together one thing is.
`MainSleepsAfterSeek` (`SleepsOnlyAfterSeek`): between looking and taking
the main thread's frame is there or a seek was made (`AfterSeek`).

`DecoderProofs`, for any number of decoders, any packets, ring and frame buffers:
`LockHoldsCommand`, `ReasonTells` and `OneCommandAtATime`, which are
`LockGuardsCommand`, `KnowsItsCommand` and `CommandsExclusive`. The call that gives
the lock back clears the pending instance whoever it is, so the bound needs to know that it
is the caller's: `Knows` says for each place of a decoder whether the command
on record is its own, and for the places after the wait that the VPU is idle and its
interrupt received; `InterruptOwned` that no finished command's interrupt is left when
nothing is pending, so that nobody receives another's. All of it holds only
while `disturbed` does not. Of the types it needs that a decoder is a record with these
fields (`DecShape`).

`UnreadStays` (`UnreadIsKept`), without that condition, is the invariant `RingInv`: the pointers of each ring tell
what is stored, and those in the VPU's registers are the recorded decoder's, the
reader's inside what is stored (`RingKept`). That the lock is free or the recorded
instance's is part of it, since whoever gets the lock writes the registers. One piece written
behind the room that was told keeps the margin (`PutTells`, from
`RoomIsSpare`); a packet is a fold over its pieces, which is the induction above again (`PiecesKeep`).
`PicturesAreGivenBack` (`PicturesGoBack`), while nothing is disturbed, is `PicInv`: by a decoder's place,
the flag is down and the display queue empty, or holds the one picture in work, and what is displayed and
not cleared is `hidden`, no more and no less (`GivesAllBack`), and the
VPU shows at most the one picture it reports, when it is idle (`ShowsOne`).

`ApiProofs`, for any clients, any number of instances, any failures and crashes:
`TypeCorrect`, `InstancesHaveOneOwner`, `HandlesWork`, `CommandsAreLocked` and
`CommandsComeInOrder`. The last two rest on what the checks leave true until the
lock is had (`StillChecked`), on what the pool claims of an instance in use being
true of the VPU (`Told`), and on a client in a command having the lock and its command on
record (`CommandLocked`). For the first two, `Overtaking` knows the instances that
are cleared while somebody has them again.

The first half of `MemoryProofs`, for keys and trees of any size (up to `MaxHeight`), says what the operators of `AvlTree` do.
Each is a recursive function on an infinite set, so that it satisfies its own equation
is first to be proved: functions for the lower trees exist and agree (`NodesExists`, `OutExists`, `IntoExists`,
`FromExists`, `ApproxExists`, then `InsertStep` and its like). That is the induction
above, and so is `TreeInduct`, that a set of trees closed under putting two below a node has all of them.
`Good` is `WellFormed` of a tree of `Trees`, `Entries` its keys with their pages.
`Balanced`: `do_balance` makes a good tree of one whose sides differ by two, with the same entries, and
one lower than it was or as high. With it `InsertFacts`, `UnlinkEndFacts`, `DoUnlinkFacts`, `RemoveFacts` and
`RemoveApproxFacts` say of good trees that they stay so, which entry comes or goes
(for `remove_approx_value`, the least not below the key), and that the height changes by at most
one. `HeightCounted`: a good tree is no higher than its entries are many.

The second half, for a memory of any size with a page in it (`num_pages # 0`; otherwise `vmem_init` stops
in an `ASSERT`) and any requests: `TreesStaySearchTrees` (`SearchTrees`), `TagsTellAlways`
(`TagsTell`) and `MemoryIsPageAllocator`, the refinement `Spec => IsPageAllocator`. `PagesStayPartitioned` and
`FreeBlocksAreJoined` are the abstract allocator's own invariants: `IInv` is that its blocks lie inside,
apart from each other, cover the memory, and no two free ones touch. `MemoryIsPartitioned` carries them over
to the trees. `MemoryInv` joins the two levels. Both trees are good and have one entry for each block, `IInv`
holds of these blocks, and the tags and counts tell of them (`Told`), unless `vmem_exit` has
thrown all away (`Exited`). It needs the abstract invariant to step: what `vmem_free` reads in the tags of the
neighbouring pages are blocks of the free tree only because the blocks cover the memory and do not
overlap (`BeforeShown`, `AfterShown`), so the nodes it removes are found and the `ASSERT`s hold. The removal by approximation is
best fit (`BestFound`), and tags, merge and counts of a call are the abstract step (`AllocTold`,
`FreeTold`, with `JointIsJoin`).

`FrameProofs`, for every size that the call lets pass up to 2048 by 1088, up to 22 frames and wherever their memory begins
(`FrameMapsAssumption`): `FramesKept`, that what is registered is the layout and the tables of one
map, memory and size (`FramesInv`), and from it `BlocksLieApart` (`BlocksApart`). TLC looks at blocks at edges
and about powers of two; `EveryBlockLiesApart` says it of all of them. Both except `Crooked` and `Ragged`; the size that
`VPU_GetFrameBufSize` advises is enough without exception. The argument goes
up from the bits. `BitOfValue` and `SameBits`: a number made of bits has these bits and no others make it (an
induction, again with `NatInduct`). So two positions that a table does not tell apart agree in all the bits it picks
(`ConvertedTells`), and an address tells the row, bank and column it was made of (`FpgaAddressTells`,
`BoardAddressTells`, `RowTells`). In the row maps, column and bank tell the place in a tile of 64 lines by
256 or 512 bytes (`FpgaTells`, `BoardTells`, `Tile`): that no bit is picked twice and none left out, for
luma and chroma each by its own half of the tables, is what a wrong entry would break. The row tells tile,
field and plane (`RowsDifferFpga`, `RowsDifferBoard`): of the chroma planes one has the left half of the tiles of a line and the
other the right, which is enough because its stride is half of luma's. In the macroblock maps
the address is the column of the block plus its number times its size (`MbAddressIs`), in the linear map
the position itself; `GridTells` reads both back. `Placed` says that each block lies in its own frame,
`Apart` that two of one frame do not meet, and `OneFrame` that frames do not. `SizeFits` compares the two
computations of a frame's size, which round in a different order: a product of rounded factors is no less than the rounded
product (`ProductsGrow`, `RoundedFurther`).

`StreamProofs`, for films of every format that is written, any number of packets and any lengths that a
file of the format can tell (`FilmsAssumption`), any `Radix` of at least 6 and any names of codecs:
`DecoderFindsTheFilm` (`StreamTells`). A decoder begins at the first byte and the player appends at the last, so
`StreamTells` is not inductive: that the right things were found so far does not say that what comes
next will be found behind them. `StreamInv` says it (`StreamKept`). For the format of the film
(`Reads`) the stream is one that can be read up to its last byte and ends where something may follow:
units between start codes, the last not ending with a zero (`UnitsHeld`), or a header and then pictures
whose lengths lead from one to the next exactly to the end (`EndsWhole`, `RvEndsWhole`). For each format there are three
lemmas: it holds of the header (`SimpleRead`), a packet keeps it (`SimpleReadOn`), and it tells what is found
(`SimpleTold`). Below them is what a walk finds in a stream when something is appended
(`WalkGrows`): a walk whose steps are the same up to the end goes on there. It gives `PicturesGrow`, `RvPicturesGrow`,
`UnitsGrow` and `UnitsGrowAll`. For the start codes one also needs that a unit brings one code and no
other, also not across its ends (`CodesGrow`), that the one before it ends there (`CodeFromGrows`), and that
the zero of a code of four bytes is not of the unit before (`FoundBetween`). Of an mp4 file, `RecodedOfSized`: with each
length overwritten by a start code, `Sized` units are `Coded` ones, which rests on walking by the lengths alone;
`ParameterSetsFound` and `AvcHeaderIs` say the same of the extradata. The headers (`RcvHeaderIs`, `RvHeaderIs`,
`IvfHeaderIs`, `RvPicHeaderIs`) are taken apart field by field: what `PUT_BE` and `PUT_LE` put, in so many bytes at
that offset, is read back there (`NumberOfPutBE`, `StartsNumber`), and the size returned is that of the bytes put. All of it is induction
over sets (`NatInduct`, `SeqInduct`), the recursive functions first shown to satisfy their equations (`WalkStep`,
`NumberIs`, `ShiftedIs`, `FlattenIs`). The proof found that `PacketData` had been written as a `CASE` whose arms
overlap, of which TLA+ may choose any: it now has the order of the code's `if`s.

Model-checked only: liveness under fairness, for which tlapm has no backend, nor for `ENABLED`:
`LoopPlaysEveryItem`, `BurstEnds`, `PollReturns`, `LastHoverIsPreviewed`, `QuitEnds`,
`DecodersCatchUp`, `EofEndsDecoders`, `EofCloses` and `LockComesFree`. Every invariant that a run
checks is proved.

## Not modelled

Drawing, widgets, menus, settings, X11 helpers, start-up: they keep
no state on which a protocol depends. Of PlayerEngine and MpvProxy the
requests that mpv only passes on (volume, tracks, subtitles, speed, rotation). Saving the
list and the position: it happens in the destructors only, and what is loaded at start-up is what
`AddPlayFile` adds. Of the pipeline the audio output, the clocks and the start-up: threads start in their
loops, or failed to; and a second film of the same `VpuProxy`, which by `_reqQuit`
never stops.

Of the VPU API: `VPU_HWReset` and `VPU_SleepWake`, the contents of registers, the locks of
the display and of VMEM, `task_num`, and that an address in the shared pool
may be one of another process. In `BitstreamHeaders`, `BuildPicData`, which nothing
calls; AVS in an mp4 file is modelled as the code has it, but no such film is
among those checked. The tables of codecs, reports and file output of the helpers.

The VPU's firmware (`Magellan.h`) and the headers of the vendor's graphics library
(`gc_hal*.h`) are data and declarations: 26 000 of the 56 000 lines in
implementation files, which leave little more than half of them to model. The widgets, which have
no protocol, and the tables of registers are much of the rest.

## What is left

1. The pipeline's `MakesFrames` as an abstraction of the decoder.
2. A second film of the same `VpuProxy`, and the audio output with its clock.
3. Restart: saving at exit and loading, as a step of `Player`.
4. Slider, shortcut map, string distance of `utils.cpp`.
