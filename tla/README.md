# Verification of multiMAN

multiMAN is a file and game manager for the PlayStation 3: one large C++ program
(`source/multiman.cpp`), a video player (`source/video/`), an FTP server
(`source/openftp/`) and wrappers around the system. This directory models the parts of it
in which the order of steps matters: copying and moving, which can lose a user's files,
the menu, the thumbnails, the video and the music player, which are run by threads that
share memory, the FTP server, downloads and copies over the network, and the settings. Paths below are relative to `src/`; `multiman.cpp` stands for
`source/multiman.cpp`.

## 1. Inventory

| Component | State | Operations | Hard about it | Correct when | Module |
|---|---|---|---|---|---|
| **Asynchronous copy engine**, `fast_copy_*`, multiman.cpp 10963-11568 | queue `fast_files[]` (path, fragment, offsets, double buffer, phase `fl` of each), `current_fast_file_r/w`, `fast_read`, `fast_writing`, `fast_used_mem`, `files_opened` | `fast_copy_async`, `fast_copy_add`, `fast_copy_process`, callbacks `fast_func_read/write` | the callbacks run on I/O threads and share `fl` and the flags with the loop without a lock; one read overlaps one write; files are split and joined on the way; errors and aborts in any state | every file ended as complete equals its source; what was not cancelled never runs on a closed handle or a freed buffer; success means all was copied; the loop ends | `FastCopy`, `CopyService` |
| **Copy of selected files**, `file_copy` and its caller, multiman.cpp 11571-11744, 15850-16005 | globals `abort_copy`, `global_device_bytes`, `copy_global_bytes`, the selection | copy, move, rename | success is told by comparing globals that live on from file to file | a move removes only what is whole at the destination; no partial copy stays | `FileCopy` |
| **Folder and game copy**, multiman.cpp 12377-13010, 15930-15990, 22500-22930 | the walk, the queue of the engine, `abort_copy` (0/1/2/3/7/665/666), counters, name of the game folder | `my_game_test`, `my_game_copy`, `_my_game_copy`, `my_game_delete`, rename with `_` | recursion whose results are ignored; many kinds of abort; moves repeated after a failure | a move loses nothing; only a whole game has a plain name | `GameCopy` |
| **XMB columns**, multiman.cpp 2302-3130, 6639-6835, 18520-19355, 20000-20041, 22058-22100, 23611-23813 | arrays `xmb[].member[]`, `size`, `first`, `init`, `group`, flags `is_*_loading`, saved lists | five loader threads, the columns of the main loop, groups, folders, devices that come and go, the cursor | loaders and main loop exclude each other by flags without a lock; columns are emptied and regrouped while they are filled | a column that says it is complete lists each title once; the cursor is inside; a visited column loads | `Columns` |
| **List of games and films**, multiman.cpp 6523-6602, 10508-10951, 20739-20833, 21111-21168, 21764-22140, 22588-22830, 6848-6900 | `menu_list[]`, `fdevices`, `fdevices_old`, `forcedevices`, `disc_in_tray`, `first_launch`, `is_reloaded`, the list file and the state file | refresh, scan of a device or disc, sort, refresh all, delete, copy, save, take over | devices and discs change at any time; three sets of devices decide what is scanned; members of the columns name places in the list | the list is what was scanned, and the scan is fresh where the program was told; the choice under the cursor is the one shown | `TitleList` |
| **Thumbnails**, multiman.cpp 1216-1302, 3630-4094, 18074-18163, 26019-26118 | `xmb_icon_buf[]`, `is_decoding_*`, status and icon of the members | draw, slide, scroll, reload, decode, flush | two decoders, one loader and the drawing loop share the arrays without a lock; a pool that is smaller than its users | a loaded member shows its own picture; visible members end loaded | `Thumbs` |
| **Video output**, `video/vpost.c`, `vdisp.c`, `common.c`, `util.c`, `avsync.c` | frame pool and queue, receive and thread status of each thread, `MODE_EXEC`, `STATUS_READY/END`, `cFrame`, the two time stamps | convert, queue, show, hold, skip, end, stop, compare | monitors signalled without their mutex, end of stream against last picture, frames shared with the drawing loop, 33 bit stamps in 32 bit integers | frames conserved; picture on display intact; order and completeness; late fields skipped, early ones held; the player ends | `VideoOut`, `Playback`, `AvSync` |
| **Demultiplexer, decoders**, `video/avidmux.c`, `vdec.c`, `adec.c` | ES buffers, access units on the way, receive status | find, fill, decode, release, end | callbacks of the decoder library on its thread; end of stream; full buffers; closing at any time | access units decoded once, whole, in order; the threads never all wait for each other | `Demux` |
| **Film files**, `video/avidmux.c`, `util.c` | the parser's place, stream and index tables; the reader's pool | open, parse lists, read either index, choose streams; seek, skip and read through a buffer | nested lists, two kinds of index, files cut short | the places found are those of the chosen streams; a sound film is not refused | `AviFile`, `FileReader`, `FilmSamples` |
| **Player control**, `video/video.c`, `common.c`, multiman.cpp 24069-24084, 6836-6845 | which module is open, started, joined | `playSequence`: open, start, join, close, repeat | any call may fail; the user closes it, the system ends the program | no module is closed under a thread; all is given back | `PlayerControl` |
| **Audio output**, `video/apost.c`, `amixer.c` | block queue, `bSequence`, `bReqStop` | convert, mix, stop handshake | READY handshake with the video; the stop waits for a callback | samples in order and complete; the mixer ends | `AudioOut` |
| **Music player**, multiman.cpp 7818-7860, 13448-13750, 17943-17965, 24141-24180, 26146-26190 | `force_mp3_fd`, playlist, `current_mp3`, `audio_sub_proc` | play, next, previous, pause, stop, stream callback | a descriptor shared by the callback and the main loop, requests passed by a flag | the song that plays is the one the list stands at; the list goes round | `MusicPlayer` |
| **FTP server**, `openftp/ftp.c`, `ftpcmd.c`, multiman.cpp 4537-4547, 5060-5078 | `exitapp`, `ftp_clients`, per session: login, data connection, `rest`, `rnfr` | accept, the commands, SITE EXITAPP | one thread per session, shared files, a count that the main loop trusts | acknowledged transfers are whole; the count of clients is right; the service can be ended | `FtpServer` |
| **Downloads**, multiman.cpp 2670-2698, 6084-6397, 16724-17384, 26120-26144 | ring `downloads[]`, the HTTP library, the job of the foreground | ask for a cover, download, update of the program and of games, themes | two threads and one HTTP library; a ring without a lock; stubs and truncated files | a cover is its own; what is offered to install is whole; a cover that was asked for is tried | `Downloads` |
| **Network copy**, multiman.cpp 5087-5894, 5897-6082 | `f_files[]`, `abort_copy`, the connection | get, put, command, put one | the length of a file is announced before it is sent; broken connections, skipped files, a full list, results of reads that nobody looks at | files arrive whole; the list is not overrun; all is closed once | `NetCopy` |
| **Settings**, multiman.cpp 904-915, 16376-16716, 19363-19901, 24028-24127 | the option variables, options.bin, STATE.BIN, the members of the settings column | read, clamp, choose, change by button, save | values live in variables, in a column and in files | what was chosen is found again | `Settings` |
| **PARAM.SFO**, multiman.cpp 9491-9816, 22330-22338 | a file of keys and values | read, change a field, change the version | offsets into a buffer, rewritten in place | what was written is read, and nothing else changed | `ParamSfo` |
| **Game cache and mounting**, multiman.cpp 7623-7700, 13758-, 24985-25100 | cache directory, mount table | build, evict, mount | calls to the payload of a patched firmware | | not modelled |
| **Language files, lists of covers** | tables of strings | parse | | | not modelled |
| Main loop, menus and pad | the selection, the view | | one thread; only drawing and input | | not modelled |
| Graphics and fonts (`graphics.cpp`, `fonts*.c`, `mscommon.cpp`), kernel access (`syscall*.c*`, `hvcall.cpp`, `peek_poke.cpp`, `mm.cpp`), headers, libraries, release data | | | computations on pixels, system calls, data | | not modelled |

**Interaction.** The main loop calls everything else. `my_game_copy` counts a tree, then
walks it and hands every file to `fast_copy_add`, which calls `fast_copy_process` when the
queue is full; both report through the global `abort_copy`, and a caller that moves deletes
the source when it is 0. The file manager calls `file_copy` for single files, with the same
globals. The thumbnail code reads columns that loader threads fill, gives icon buffers to
decoder threads, and polls flags. The video player runs its threads beside the main loop,
which draws the frame `cFrame` behind the menu; every thread of the player is stopped by
clearing `MODE_EXEC`. Inside the player, avidmux hands access units to vdec and adec, these hand
pictures and blocks to vpost and apost, and vdisp compares its fields with the stamp the mixer
left in avsync. The music player and the film player never run at once. The loaders of the columns
ask the download thread for covers. `ftp_off` is called by the main loop, and `net_used_ignore` asks the
count of FTP clients before the program ends or a game is started.

The hazards found in this code are listed at their lines in `PROJECT.json`
with the properties that would catch them.

## 2. Modules

`FastCopy` is the engine. Its program counter follows `fast_copy_process` branch by branch:
`loop` is the head of the `while`, `rend`, `join` and `wend` the places where the loop has
looked at `fl` or `fast_writing` and has not yet acted, `pad` the pad test, and `cancelw`,
`sleepw`, `cancelr`, `sleepr`, `free` the way out. `cellFsAioCancel` withdraws a request or comes too late
(external); the sleep of 200 ms after it is one step that waits for nothing, so that a request may outlive it
and run on a closed handle or a freed buffer. A read then brings nothing, a write writes anything (`InBuffer`). The callbacks are actions of their own
(`ReadDone`, `ReadSignal`, ...): the statement `fast_read=0;fi->fl=3;` is two steps since
the loop can run between them. Data is abstracted to addresses: the buffer is the source
address of its first byte, the destination a function from addresses to the source address
written there, so that a block lost, doubled or swapped between the buffer halves is visible.
`CopyService` is what the caller relies on: a destination is truncated, grows only as a
prefix of the source, and is finished when it is whole; once the caller is told of a failure (`failed`,
the `abort_copy` of the engine) no file is finished any more and the unfinished ones hold anything.
`FastCopy` instantiates it as `Service`.

`FileCopy` is the loop over the selected files and `file_copy`. `GameCopy` has the recursive
walks as a stack `walk` of directories with the entries that were not read yet, since
directory order is arbitrary; the engine is used by what `FastCopy` shows of it: it finishes
a prefix of the queued files, and all of them unless `abort_copy` is set. `Tree` gives for each
folder what is in it at any depth: a constant, which `TreeAssumption` says is the least set closed under `In`.
`Mark` is the `rename` of a game folder to the name with the underscore, whose result the code does not look at: it
fails when there is a folder of that name (from an earlier copy), and the game keeps its plain name.

`Thumbs` has one action per thing the drawing of a column may do to a member, the flush
(`free_all_buffers`, which waits for the decoders), the decoder threads in three steps
(test of the member, open and decode, store), and the loader of a column.

`VideoOut` has one monitor per thread. A thread at `going` has decided to sleep and holds
the mutex; a signal given without the mutex finds nobody asleep. The stream is
`Pictures` pictures, and `FieldsUpTo` says how many fields the first n of them have. `Playback` is what a viewer
is promised: fields pass in order, none comes twice, and a sequence is complete only when
every field was converted and has passed.

`FtpServer` has the accepting thread and one thread per connection. A command is one step
where the code does not wait; `PasvAccept`, `StorBlock`, `RetrBlock` are the places where
it does; `EndOfCommand` is the block after the chain of commands, which drops the data
connection and the restart point unless `dataactive` was set. `ftp_clients` is loaded and
stored in two steps, by every thread. A file is a sequence of blocks named by who wrote
them, and a path names a file, so that deleting or renaming does not disturb a transfer. The restart point is
what `atoi` makes of the number of the client (`Atoi`: above `MaxInt` the largest int, or the low bits with
their sign), and one that is not positive is not sought (`From`).

`Columns` has one loader as `LoadStart`, `LoadAdd` (one member), `LoadSort` and `LoadExit`, the columns
the main loop builds in one step each, and the events that empty or regroup them.
A title is a number; titles are in the order of their names.

`TitleList` is the list behind the columns of games and films. A refresh is `Refresh` (which devices are
there), one `Fill`, `Drop`, `ScanDisc` or `DropDisc` for each device that is due, in their order, and
`AfterScan`. Devices, discs and what is on them change between any two steps; `scanned` remembers what the
last scan of each device found, and `untold` the devices whose content changed without the program being
told.

`Demux` follows an access unit from `avidmux` through the receive status of a decoder into the
decoder library and back; the library is a queue of `LibSize` units that may refuse one. The film
is a sequence of chunks per stream. `PlayerControl` is the thread around it, as lists of modules in
the order in which the code opens, starts, joins and closes them, with what each acquires and releases;
`ErrorExit` (`commonErrorExit`) stops the threads, for a thread that failed or for the callback of the system
(`SysutilCb`), which leaves `is_bg_video` as it is. `AviFile` walks a film that is a
tree of chunks (`FilmSamples`), each cut off at the end of the file; `FileReader` is the buffer under it.

`AudioOut` has apost, the callback of the mixer and the thread that ends them. `AvSync` plays the `Films`: the
callback of the mixer moves the clock of the audio, the display reads it and its own time in two critical
sections, and compares their low bits as signed numbers, of a range of twice `Half`.

`MusicPlayer` has the main loop, the thread that takes requests, the loading of a song in steps
(close, open, read, trigger) and the callback of the stream.

`Downloads` has one download as steps (init, request, receive, quit), run by the thread and by the
foreground through one library; the jobs of the foreground are sequences of downloads. `NetCopy` has
the conversations with a host, with the pieces on the wire as a sequence. What the code does not look at is
a choice: a header of which only a part has come (`ReadHeader`), a directory that cannot be opened
(`ReadEntry`, `StartPut`), a read that fails in `net_folder_copy_put` (`SendUnread`: the last buffer again, or
the end of the file), where `network_put` breaks off (`SendFails`).

`Settings` has twelve options, one for each way a setting is stored, shown and changed.
`ParamSfo` has a file of three keys at a time.

Each `MC` module gives the constants values. Where components share a run (`MCFolders`,
`MCTransfers`, `MCVideoOut`, `MCPlayback`, `MCSound`, `MCShell`), the variable `part` says which one
runs: they do not interact there, they only share the run. Its invariants speak of one part each
and begin with the type invariant of that part.

## 3. Runs

| Run | Question | Bounds |
|---|---|---|
| `fastcopy_join` | Is what the engine ends as complete a copy, with transfers, failures and aborts in any order? What may still run when its memory is freed? Does the loop end? | `MAX_FAST_FILES`=1 as the program is built; buffer of 2 blocks; files of 1, 5, 3+1 and 2+3+1 blocks: below, at and above the buffer size, fragments that fill it and that do not |
| `fastcopy_split` | The same in copy_mode 1, with 2 queue slots so that reading runs ahead of writing: are fragments closed in time, is progress exact? | a file of 9 blocks with a limit of 3 per fragment: three fragments, the last one full |
| `folders` | Copies and moves of folders and games to the internal disk, with fragments joined, and to an external one, with splitting, failed counts, failed and aborted deletions, repeated moves; a game copied again after an earlier copy was marked | two folders, one with a file, a hidden file and a subdirectory with a file, one with a split file or two whole ones, one of them big; every order of entries |
| `gamecopy_retry` | *Violated.* A move repeated after an aborted deletion overwrites a whole joined file by what is left. | as `folders`, inside |
| `filecopy_unreadable` | *Violated.* A file that could not be opened is removed by a move. | two files |
| `transfers` | Do failures of the disk and aborts in one file of a batch harm that file or the next ones? Are downloads and copies over the network what was asked for, and do they end? | disk: three files, an empty one, one of less than a buffer and one of two buffers and a rest, any number of batches; downloads: a ring of one slot, two covers, one job in the foreground, two packages, files of one or two pieces; host: one operation on one of three directories, one of them in another, with five files of one or two pieces, `MAX_F_FILES`=3 |
| `thumbs` | Do members show their own pictures, and do the visible ones end loaded? | a windowed and an ordinary column, 3 and 4 pictures, two buffers, one broken and one missing picture, two moves of the user |
| `shell` | Are the columns and the list behind them complete, is the cursor on a member and the choice the one shown, does a visited column load? Are settings and PARAM.SFO fields found again? | `MAX_XMB_MEMBERS`=6, two groups and two groups of letters, four starts of the program with at most two events each, one scroll, four moves in folders; the list: a USB device and a card, three discs, `MAX_LIST`=5, two things that happen from three states of the console, two starts; two changes and two sessions of settings, two changes of three sample files |
| `playback` | Do the decoders get their streams whole and in order? Do the threads never all wait? Is a film found in its file? Is every module given back? | two streams of up to three units, a library of one unit, one film; one player and one repetition with every failure; eleven films of up to three streams, whole and cut at every chunk; a file of 5 bytes through a buffer of 2 |
| `video_out` | Are frames conserved, is the picture on display intact, does the player end, and does it implement `Playback`? Is the clock compared right? | three pictures of 2, 1 and 2 fields, two frames, a stop or an error at any time; stamps of a range of 16 (`Half` = 8), twelve films, some of which wrap |
| `sound` | Are samples in order and complete, does the output end? Is the song that plays the current one, does a list go round? | up to four blocks, one of them empty, two buffers; three songs, one too small, two requests |
| `ftp_sessions` | Are acknowledged transfers whole, are the clients counted, does the service come to rest? | two clients, two names, two files of at most 2 blocks; restart points up to 2, an int that holds up to 1; 4 commands that change something, any number of others |

Why the bounds are enough: in every run the scarce resource (queue slot, buffer, icon buffer,
frame) is smaller than what is asked of it, so that each limit is met, left and met again;
the sizes lie on both sides of each comparison the code makes; and each counter is large
enough that a second round of every loop starts from a state the first one left. 37 icon
buffers and a window of 11 members become 2 and 2, and the 2 frames of the player are the
ones the code uses for streams of up to 30 pictures a second. `MaxMoves` (thumbnails) and
`MaxWait` (times the head of the frame queue is held back by the clock) cut counters that
the program does not bound; so do `MaxPlays` and `MaxOpens` (players, repetitions and openings of films;
a player is started only when the last one has ended),
`MaxRequests` (music), `MaxJobs`, `MaxCovers` and `MaxOps` (network), the `left` of a start of
`Columns` (events, scrolls, moves in folders), `MaxChanges` and `MaxSessions` (settings),
`MaxEvents` and `MaxStarts` (what users and devices do to the list), and
`MaxLead` (how far the display falls behind the audio: less than half the range of a stamp; in
the code half the range is more than six hours). `Kilo` is the size below which a cover counts as none, in pieces.
`MaxRest` is above `MaxInt`, so that a restart point does not fit. One game is copied, but as often as its
name is free. `MaxCommands` is enough for an upload and a download with their
PASV, for a resumed transfer, or for a transfer and a deletion or renaming beside it. Deadlock is not checked in any run: in all of them the system
may rest when the user does nothing, or when the copy or the film is over; that it does not
stop earlier is what `CopyEnds`, `FoldersEnd`, `TransfersEnd`, `VisibleLoaded`, `VisitedLoads`,
`ServiceQuiets`, `OutputEnds`, `SoundGoesOn` and `NoStall` say.

**Fairness.** Only threads of the program and transfers of the system are fair: the loop of
the engine, its two I/O directions, the main thread inside a batch, the drawing loop, the
loaders and each decoder, the two output threads, the decoder and the audio that feed them, the
callback of the mixer and of the music stream, the download thread, a conversation with a host, the
threads of the FTP server where they do not wait for a client. Two steps of the film's audio are
strongly fair: the two callbacks of the decoder library, for decoded samples and for the end of the
sequence, which take a mutex that apost holds again and again. In `folders` only the part
"inside" is fair, and its end is what is checked.
These are PPU threads and the interrupt-driven transfers of the console, which are scheduled
whenever they can run; the loops poll and never leave the CPU for ever. Nothing the user
does is fair: moves, aborts, stops and the answers to dialogs may never come.

### What the properties say

* *Copy engine.* `CopyFaithful`, `SuccessMeansCopied`, `FreedWhenOver` (a request that runs has its handle and
  its buffer, unless it was cancelled and outlasted the 200 ms, and then the caller is told), `FragmentsSound`
  (the limit of a fragment, and every handle closed: those forgotten on an error path are counted in
  `leaked`; the code loses the read handle when the destination cannot be opened),
  `ProgressExact`, `CopyEnds` (the loop ends unless the end of a read is lost, `ReadLost`: a read failed and
  `fast_read` stays set, or the `fl` = 3 of the first read of a joined fragment was overwritten by the `fl` = 2 of
  the loop, which then waits until the user aborts; a copy that was aborted ends there too), and `Implements`, the
  refinement of `CopyService`.
* *Files.* `MoveLosesNothing`, `WholeOrNothing`, `TransfersEnd`, and `UndisturbedResult`: a copy that nothing
  disturbed is taken for a failure exactly when its file is empty and a file with contents was copied before it, in
  this batch or any earlier one; the counter that file left is never set again.
* *Folders.* `MoveLosesNothing` over repeated moves; `ResultsReal`: a copy that ends well
  has copied as many bytes as were counted, and a folder that is not marked by
  an underscore holds the whole game, unless the marked name was taken by an earlier copy (`marked`) or the user began
  to delete it; `FoldersEnd`.
* *Downloads and hosts.* `DownloadsSound` (a cover is that of its own name unless a slot was written
  while it was served, `overwritten`; a package is whole unless the server itself sent less,
  `early`), `CopiesSound`, `TransfersEnd`. `CopiesSound` says of a copy from a host that each file holds its own
  bytes in order, after a file that was broken off (`skipped`) or a header that came in parts (`short`) excepted; of a
  copy to a host the same, unless a file changed meanwhile, a read failed unnoticed (`misread`) or the list was full;
  of both, that everything is there when nothing of `trouble` happened, every entry of the tree included
  (`AllListed`); and always that the list is not overrun and that what is opened is closed.
* *Columns and lists.* `ListsComplete`. In the columns, no thread fills a column beside another, a complete
  column and a saved list hold each title once, a folder shows what is in it; the histories `mixed` and
  `blurred` excuse a column that was emptied or regrouped under its loader until it is listed again. In the list
  behind them (`ListRight`), each device has the titles its last scan found and the scan is fresh, the disc is
  shown, once and first, and the rest is in order. Excused are devices nobody told the program of (`untold`),
  titles there was no room for (`full`), a disc listed again that is no game (`twice`), and the order after the
  sort put the last entry into the place of a double (`ragged`).
  `CursorRight`: the cursor is on a member (`astray`: a list got shorter under the cursor), and the entry it names is
  the one shown, except among the videos after a new disc (`shifted`). `VisitedLoads`.
* *Settings and PARAM.SFO.* `ValuesKept`: excused are what a button changed behind the column
  (`behind`), the hundredth that overscan loses in its float (`short`), the two copies of the
  font after a power off (`FontsDiffer`), the defaults after a power off within a save, and a
  PARAM.SFO that was being written at a power off (`torn`).
* *Thumbnails.* `PicturesUndisturbed`: up to the first reclaim after a flush a member shows its own
  picture and the decoders keep apart; `VisibleLoaded`.
* *FTP.* `ClientsCounted` (until an update of the count is lost to a race, `lost`; threads
  that could not be created stay counted, `ghosts`), `TransfersWhole`
  (unless another client wrote into the file, or a read failed, which the server also
  answers by "226 Transfer complete": `disturbed`; and for restart points that an int holds, `Resumable`: beyond,
  the server starts elsewhere and says "226" all the same), `ServiceQuiets`.
* *Playback.* `UnitsWhole`, `NoStall` (a thread that has fallen asleep after the order to end is
  excused), `FilmFound` (an index taken for the other kind is excused, `Mistaken`),
  `ResourcesSound` (a module closed under a thread that a sequence left when it broke off is excused,
  `unjoined`; that everything is given back holds of these paths too, and of every end but those where a module
  could not be opened or closed, `fault`).
* *Video.* `FramesSound` (the picture on display until a skip), `DecisionRight`, `OutputEnds`
  (except when a thread sleeps through an order to end, or a stream is shorter than the queue; and no
  field waits for the audio for ever), `Implements`.
* *Sound.* `SamplesInOrder`, `PlaysCurrent` (two threads that choose a song at once are excused,
  `raced`), `SoundGoesOn` (the audio of a film ends from where both outputs have started, unless a
  wake-up is lost; a list goes round unless it is paused, a load failed or a late callback
  skipped a song that was being loaded, `stalled`).

### Disagreements with the code's own words

The two violated runs are disagreements between the program and its own words; each quotes
them in `PROJECT.json`. Other errors are excluded by name from a property: the loop that waits for ever after
a failed read, or when the completion of the first read of a joined fragment is overwritten
(`ReadLost`); a request that outlives the 200 ms after its cancellation (`FreedWhenOver`); a restart point of 2 GiB
or more (`Resumable`); a rename that fails because the marked name is taken (`marked`); a failed read of a file
that is sent (`misread`); the threads that miss the order to end (`slept`); short streams that
never start (`drained`); a skip that returns the picture on display to the pool
(`released`); icon buffers that are reclaimed from members that show them, and members that move up
under a decoder (`disturbed`);
the deletion of a game that is aborted (`home = "rest"`); and those named with the properties above. An empty file whose copy
counts as failed because of a stale counter is stated, not excluded (`UndisturbedResult`).

A move of a folder with a split file to an external device (`copy_mode` 1) loses the later fragments: `fast_copy_add`
passes over `.66601`, ... in every mode ("ignore this file", 11486) and takes them with the first one only in
`copy_mode` 0, nothing is reported, and the source is deleted (15958). TLC finds the loss when `GameCopyRetry.cfg` is run with
`CopyMode = 1` and no failing deletion; in the part "outside" of `folders` no file is split yet, and the proof excludes it by name (`Lone`).

Found while modelling and outside what a property says: `cFrame` is never cleared, so that the main loop may draw
from freed memory at the end of a film and until the first frame of the next (multiman.cpp 3145); a film whose index lists the record lists
counts them as chunks of stream 0, and the format of PCM audio is read two bytes past a header of 16
bytes (avidmux.c 736); `is_remoteplay` is never set; `add_xmb_option` ends `subname` one array too
far (multiman.cpp 18019-18046); the choice of an unavailable disc emulator is shown although it was
refused (24088-24127);
a display mode chosen in the settings scans only the drive again (24062); a new disc alone lists the games but not the
films again, so that a film starts another title (22077-22090); a disc that is no game and is scanned again is listed
twice and may pass `MAX_LIST` (21876-21944); a list is saved with one entry more than it has (6859); a title deleted
on a card has the drive scanned instead of the card (22588-22680); a PARAM.SFO field keeps its old length in the index (9524).

## 4. Proofs

A module `X_proofs` holds theorems for every value of the constants that satisfies the named
`ASSUME`s of the module it extends. None of the invariants below is inductive by itself. Each proof
has the same shape: a stronger invariant, which was checked by TLC on the instance of the run first;
a lemma that `Init` implies it; a lemma or a case for every action; and the theorem. What the
strengthening adds is what the code relies on and does not say.

| Module | Theorem | Says |
|---|---|---|
| `FastCopy_proofs` | `TypeCorrect` | `Spec => []TypeOK`; the queue never holds more than `MAX_FAST_FILES` |
| | `CopyIsFaithful` | `Spec => []CopyFaithful` |
| | `FreesAfterCancel` | `Spec => []FreedWhenOver` |
| | `SuccessIsComplete` | `Spec => []SuccessMeansCopied` |
| | `EngineImplementsService` | `Spec => Implements`: the engine refines `CopyService` |
| | `FragmentsAlwaysSound` | `Spec => []FragmentsSound` |
| `Transfers_proofs` | `TypeCorrect` | `Spec => []TypeOK` of `FileCopy` |
| | `MovesLoseNothing` | if `Ordinary`, `Spec => []MoveLosesNothing` |
| | `NothingPartial` | if `Ordinary`, `Spec => []WholeOrNothing` |
| | `UndisturbedCopies` | if `Ordinary`, `Spec => UndisturbedResult` |
| | `DownloadsAlwaysSound` | `MCFairSpec => []DownloadsSound` |
| | `CopiesAlwaysSound` | `MCFairSpec => []CopiesSound` |
| `GameCopy_proofs` | `FoldersLoseNothing` | if `Lone` and `Certain`, `Spec => []MoveLosesNothing` |
| | `UnmarkedGamesAreWhole` | if `Lone`, `Spec => []UnmarkedIsWhole` |
| `FtpServer_proofs` | `ClientsAlwaysCounted` | `Spec => []ClientsCounted` |
| | `FtpTypeCorrect` | `Spec => []TypeOK` |
| | `TransfersAlwaysWhole` | `Spec => []TransfersWhole` |
| `Playback_proofs` | `DemuxTypes` | `Spec => []TypeOK` of `Demux` |
| | `NeverStalls` | `Spec => []NoStall` |
| | `NothingOverwritten` | `Spec => []BufferUntouched`: no access unit is overwritten while the library holds it |
| | `PlayerResources` | `MCSpec => []ResourcesSound` |
| `VideoOut_proofs` | `FramesAlwaysSound` | `Spec => []FramesSound` |
| | `VideoImplementsPlayback` | `Spec => Implements`: the output refines `Playback` |
| | `DecisionsRight` | `MCFairSpec => []DecisionRight` |
| `Sound_proofs` | `SamplesAlwaysInOrder` | `MCSpec => []SamplesInOrder` |
| | `ClockNeverGoesBack` | `MCSpec => ClockForward`: while a film plays, the stamp given to the video never decreases |
| | `PlaysAlwaysCurrent` | `MCSpec => []PlaysCurrent` |
| `Thumbs_proofs` | `ThumbsTypeCorrect` | `Spec => []TypeOK` |
| | `PicturesStayOwn` | `Spec => []PicturesUndisturbed` |

**Copy engine.** That a file is faithful at its end needs that, all the time,
what is on disk is the beginning of the source (`PrefixInv`), that a write takes what a read
has brought (`WriteInv`), and that the read in flight continues exactly where the bytes sent
end (`ReadInv`); and that needs the window: slots below `w` are finished, those above `r`
untouched, a write that was not acknowledged belongs to `w`, and `r` is `w` or `w + 1`
(`WindowInv`). The requests in flight and what the loop knows of them are `IOInv`: a request either has its handle and its buffer
and the loop knows of it (`WriteOwned`, `ReadOwned`), or it was cancelled, the loop knows of none, and the caller is told
that the copy failed, which is what `FreesAfterCancel` says; the
states outside the loop are `CallerInv`, `StoppedInv`, `LeaveInv`; that no entry is forgotten
is `CoverInv` on top of `QueueInv`. Their conjunction with `TypeOK` is `IInv`; there is one
lemma for each action, the lemmas `At...` say what holds where the loop has just looked at a
slot, and `Invariance` puts them together. The assumption that is not just a type: the fragments of a split file, but the last, are at
least as large as a read buffer. The splitting code makes them a gigabyte, and a buffer is
a few megabytes. A first fragment that is smaller is read at once, and the ones after it
are not copied: the theorem does not cover such a source.

The refinement maps the destinations of the engine to those of `CopyService` as they are, and
needs more than `IInv` only where the loop has given up while a write is still in flight: a
destination then grows after the loop has stopped looking; once `abort_copy` is set, such a write is a `Fail` or `Spoil`
of the service. `GrowthInv` says that such a write still
appends (`FlightInv`), and that every open destination holds exactly the blocks its slot has counted (`GrownInv`).
`FragmentsSound` needs that a fragment has room for the next buffer before it is
filled (`RoomInv`), and which slots have open handles (`HandleInv`).

**Copy of files.** `IInv` knows what `file_copy` has counted and what the destination holds
(`CopyInv`), and what the counters say (`CountInv`): while a file with contents is copied undisturbed
`global_device_bytes` is what was copied of it, and it is 0 only as long as no file with contents was copied
(`counted`). `BatchInv` adds that a file still to be copied is at the source and that all other destinations are whole.
The last three theorems assume `Ordinary`: every source opens. Files may be empty. What happens without it is shown by
`filecopy_unreadable`, where a move loses an unreadable file.

**Downloads.** `HttpInv`: the HTTP library is up while one of the two downloads through it (`LibraryInv`), no file is
longer than what it was loaded from (`Sizes`), the thread serves the cover of its slot, and every other cover on the
disk is its own and no stub, until a slot is written while it is served (`ThreadInv`), and what the foreground
has downloaded of its job is good: whole, or ended early by the server (`MainInv`). `DownloadsAssumption`: the
packages and covers have names of their own and the files of the server are not empty.

**Network copy.** `HostInv` says where an operation is (`EntryInv`), what it has open (`OpenInv`), how full the list
is (`BoundInv`) and what was moved. For a copy from the host (`GetInv`): what has arrived is the beginning of the file,
and exactly the rest of it is on its way. For a copy to it (`PutInv`): every record before this one is whole at the
host, the host waits for exactly the rest of this one, and what may still be sent, which the code bounds by the sum of the
listing, is the sum of what is left (`Sums`, with the partial sums as a witness, since a sum over a list is out
of reach). That sum needs that no file is listed twice: every name has one place, in a tree without cycles (`Distinct`,
`Unlisted`; `CopiesAssumption`, where `PathDepth` says that the tree has none). `ListedInv`: every
entry of a directory that is listed is in the list or still to be read. Each part is claimed only while none of the
troubles that `CopiesSound` names for it has happened.

**Copy of folders.** The walks are recursive, so the invariant speaks of sets of directories and needs no
induction over the tree. While nothing was given up there is a set E of directories the copy has entered, which holds
the folder itself, and whatever is on the source in one of them is still awaited by the walk, or is a directory
in E, or a file that is saved or queued with all its fragments (`Walked`, `CopyInv`). When the walk is over, nothing is
awaited and nothing queued: all that a directory of E holds is safe (`CopiedIsSafe`). The deletion then only enters directories of E
(`DeleteInv`); and E with its files is closed, so it includes the whole tree of a game (`GameIsWhole`).
What the engine overwrites is on the source with all its fragments when nothing is being deleted (`Together`, `StillThere`), so
that a repeated copy takes nothing away.

Two hypotheses stand for where the code does lose files. `Certain`: where fragments are joined no deletion stops
half way (`gamecopy_retry`). `Lone`: no fragments are copied to an external device (section 3), and no first
fragment is empty, since an empty file is made without its fragments. The invariant `FolderInv` was checked by TLC on
three instances: inside without and with failing deletions (338,757 and 1,547,287 states), and outside with all failures (3,273,200 states).
A game that is under its plain name although its copy was kept or split is one whose marked name was taken (`WholeInv`).

**FTP.** The counter is a byte, so the count is exact only if it never wraps. `CountInv` adds what
that needs: the connection that is being counted has no thread yet (`AcceptedIsNew`), and a
thread that could not be created used up a connection that is over (`GhostsAreOver`). Hence
sessions, ghosts and the new connection are never more than the clients (lemma `Room`), and
`% CounterSize` changes nothing (lemma `ModFact`). A client connects once; with 256 or
more connections counted at a time, the code's count wraps, and the theorem does not apply.
`FileInv` follows a transfer: while nobody else has written into the file, what an upload has
stored is the old beginning up to the restart point and then its own blocks (`Uploaded`), and what a download has sent is
the file from its restart point on (`Downloaded`). Both speak of the restart point of the client only when an
int holds it: then `Atoi` gives that number and no other, and the session keeps it until the transfer.

**Video.** `VideoInv` says where vpost is in its stream (`PostInv`), that the end is announced only
when everything before it is (`EndInv`), that each frame is in exactly one place: free, in hand, queued, or
in use by vdisp (`PlaceInv`), which field each of these holds (`DataInv`), and that the frame
on display is none of those that may be written (`ShowInv`). The refinement of
`Playback` follows: a field passes when it leaves the queue, and `DataInv` says which one it is.

**Clock.** `DecisionsRight` is for every `Half` and every set of films whose sound and fields are in order and less
than half the range apart (`ClocksAssumption`; in the code half the range is more than six hours). The lemmas on
remainders say that the signed difference of the low bits of two such times is the difference of the times.
`ClockInv`: what the display has read of the audio is the low bits of a time the clock showed since it began to
read (`ReadInv`), and that time is near the field (`TimesInv`), whatever the callback does in between.

**Demultiplexer and decoders.** `NeverStalls` counts buffers: each is free, read, or given to the decoder, and what was given is in
the library, in hand, or decoded and waiting to be released (`QueueOf`); the end of the film is announced to a decoder
and not forgotten (`EndOf`); a thread sleeps only when nothing it waits for has been set since it looked (`WakeOf`, `DmuxInv`). When
all are asleep, the counts leave a decoder whose library is empty and whose buffers are all free, which contradicts the demultiplexer
waiting. A thread that fell asleep after the order to end is the exception of section 3. For
`NothingOverwritten`, a buffer is in one queue at a time (`DistinctOf`) and the library holds its units in the order of the
queue of those to be released (`LibOf`).

**Player control.** `PlayerInv`: a thread that runs was left by a broken sequence or belongs to the one that is played
(`RunsInv`), and what is held is what the lists up to this point have opened and not closed (`HeldInv`). The rest is facts about
the lists of the code: each module is opened and closed once, and releases all that it acquires (`PlaysAssumption`
only bounds the repetitions).

**Sound.** `FilmInv`: every buffer is free, in the hand of apost or in the queue (`BufferInv`), the queue holds the
blocks fetched last, without those that have no samples (`BlockInv`), and the block in play is the next of them
(`PlayInv`); positions in the ring are taken modulo its size, for every size. `ClockNeverGoesBack` states an action property
no run checks by itself: it is the reason why the display may compare with the stamp at any time. `MusicInv`: while
no two threads have chosen a song at once, the song that is loading or playing is the current one, or
the choice of a newer one is on its way to the thread that loads (`OnItsWay`).

**Thumbnails.** `PicturesUndisturbed` is about the members on a column and says nothing of those a decoder still
works for after they have left it. `UndisturbedInv` speaks of the live members, which include these: a buffer belongs to at most one live member
(`IconsInv`), a decoder works for a `Loading` member of its kind unless the column was listed again under
it (`TargetsInv`), and the buffer it writes is that of this member or of none (`WritesInv`).
The assumption with weight is `NBuffers > Above + Below`: there are more buffers than members in the window,
as in the code (37 and 11). The invariant was also checked on an instance with three moves of the user (957,957 states).

**Only model-checked:**

* Liveness (`CopyEnds`, `FoldersEnd`, `TransfersEnd`, `VisibleLoaded`, `VisitedLoads`, `ServiceQuiets`,
  `OutputEnds`, `SoundGoesOn`), which is out of reach of the prover.
* What recursive definitions compute: `FilmFound` (`FileReader`, `AviFile`).
* `ProgressExact`, and of `GameCopy` `ProgressReal` and `TypeOK`, which holds its byte counters: they are sums
  over sets of files, and that a sum grows by what one of its terms grows is an induction over data. `ResultsReal`, which
  the run `folders` checks, is the proved `UnmarkedIsWhole` together with these.
* Of `UnitsWhole` that the units are in order and that none is missing; `DemuxTypes` and `NothingOverwritten` are the rest of it.
* The properties of `Columns`, `TitleList`, `Settings` and `ParamSfo`.

## 5. Deliberate simplifications

* Copy engine: a file descriptor that the code leaves uninitialised is taken as one whose
  seek fails. `file_counter` and all text output are left out.
* Folder copy: `use_symlinks` and `join_copy` are 0, no device is `/pvd_usb`, a game has one
  destination folder, and folders are not copied between the parts of a game copy. Files
  named `._*` are passed over by the copy on purpose and are excluded from `MoveLosesNothing`.
  `abort_copy` keeps its codes, and the errors of the engine are the codes it sets. A rename to a marked name fails
  exactly when there is a folder of that name. The engine is used without requests that outlive their cancellation: they
  exist only after a failure, and may only spoil what is not finished (`CopyService`).
* Thumbnails: the update of one member and the store of one decoded picture are single
  steps. The column is not sorted again after an orphan was deleted from it: it is in order already.
* Columns: adding a member is atomic; the flag of the game column is looked at inside the scan of the
  menu thread only; opening a device at level 1 by its default folder is left out.
* List of titles: PFS volumes, the folder of installed applications, the copy of a disc, the editing of titles and
  the other cover modes are left out; an aborted copy leaves nothing, though the code may keep it under a
  name of its own; the drive can be read at once when the system tells of a disc.
* Settings: `bd_emulator` (its choices depend on the firmware), the parental pass and the ids of
  the fonts of a language are left out; the user chooses the ends of a range only.
* PARAM.SFO: the padding at the end of the table of keys is assumed.
* Downloads and network copy: the text of the protocols and the progress are left out, and
  `network_del`. A host drops what it does not wait for, and a connection on which nothing comes any more breaks in the
  end. The index of the host does not change while it is copied.
* Film: files below 4 GB; the tables of streams hold `MaxStreams` headers; what a refused film has left
  in the tables is cleared. A skip beyond the end of the file goes unnoticed, as in the code.
* Sound: the mixer library signals a stream only between two callbacks, and the samples of a block
  are counted, not converted.
* FTP: directories, permissions and listings are left out; passwords are not checked, as in
  the build (`DISABLE_PASS`). The number of open sockets is not modelled (a second PASV
  forgets the first connection). What `rnfr` holds before the first RNFR is not initialised:
  it may be any name.
* Video: clearing `MODE_EXEC` and signalling all monitors is one step; only DivX, with at
  most two fields for a picture; the answers of the audio clock are a free choice in `VideoOut`, `AvSync` says what they are. `slept`,
  `released`, `drained` and `disturbed` are history variables which no guard reads. What the main loop draws of a
  film (`cFrame`) is followed in `VideoOut` while the player runs, not beyond it.

## 6. Not modelled

Game cache and mounting: sequences of calls to payloads of a patched firmware, whose behaviour
nothing in the repository states. The main loop itself, graphics and fonts, the kernel wrappers: one
thread, pixels, and system calls, with no state of their own that others rely on; the steps of
the main loop that other components see are in their modules. Language files and the lists of
covers: tables of strings.

## 7. Plan

All components with state that several actors share are modelled. Proved are the safety properties of the engine, the
copy of files and folders, the FTP server, the video and sound output, the clock, the demultiplexer and the player around it, the music
player, the downloads, the copies over the network and the thumbnails. What is left is proof: the order
of the units in `UnitsWhole`, and the cursor and the lists of `Columns`. `ProgressReal` and `FilmFound` need inductions
over data that the prover cannot do, and the sort of `TitleList` is a fold.
