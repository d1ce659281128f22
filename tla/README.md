# A verification of the AmebaPro2 SDK's own C

The AmebaPro2 SDK (v9.0a) is the firmware kit of a Wi-Fi camera chip: third-party
stacks (FreeRTOS, lwIP, mbed TLS, FatFs, littlefs, codecs, a Bluetooth host), drivers
delivered as libraries, and a smaller amount of C of its own around them.  This
directory holds TLA+ modules of the part of that C which keeps data and firmware alive
when power goes and blocks fail, and of the services in which tasks, timers and clients
meet; the TLC configurations that check them; and theorems about them that TLAPS checks.

`PROJECT.json` lists the components, the runs, what each definition models
(`map`: file, lines and function), the mutants that each property detects, the
findings, the hazards and the theorems.

## 1. Inventory

### 1.1 The flash translation layer — `component/file_system/ftl/ftl.c`

A key-value store of 32-bit words for small, often changed data (Bluetooth keys,
counters, configuration).  `ftl_init` mounts N pages (flash sectors; three in
`main.c`).  The pages form a ring that is used as a log: a *record* is a data word
followed by a key word, which holds the logical address; the first two cells of a page
are INFO_beg (version, sequence number, valid bit) and INFO_end.

| State | Where | Meaning |
|---|---|---|
| the words of the pages | flash | the log |
| `g_cur_pageID`, `g_free_cell_index` | RAM | the write cursor |
| `g_free_page_count` | RAM | erased pages after the current one |
| `ftl_mapping_table` | RAM | for each logical address 12 bits of half the cell index of its record |
| `g_doingGarbageCollection` | RAM | a collection does not start another |
| `ftl_mutex_lock`, `ftl_sem` | RAM | a mutex around save and load; a recursive one around a write and a collection |

Operations: `ftl_save_to_storage`, `ftl_load_from_storage`, `ftl_ioctl` (clear all,
collect in the application, sweep the invalid pages, idle collection), `ftl_init` with
recovery after a power loss.  `ftl_write` rolls over to the next page when the current
one is full, collects when the last free page was taken, and the collection calls
`ftl_write` to copy live records.

What is hard: power can go between any two flash operations of a rollover inside a
collection inside a save; page sequence numbers are eight bits and wrap; a collection
must free more than it copies, however the live records are spread; a load takes other
locks than a collection; the results of most flash operations are not looked at.

What makes it correct: a save is durable when it returns and atomic when it does not; a
load returns what a boot would recover; the log never runs out of space or pages; a boot
reaches a usable state from wherever power went; every call returns; at most one task
writes.

### 1.2 The flash backend — `component/file_system/ftl_common/`

`CONFIG_FTL_EN` is 1 in `platform_opts.h`, so `ftl_flash_write` goes to
`ftl_common_write`, which splits a request into pages and sends each page to
`ftl_write_nor` or `ftl_write_nand`.  On NOR flash one word is written by reading,
erasing and programming its whole sector.  On NAND flash `ftl_nand_api.c` manages bad
blocks: a table (`pbbt`, in RAM and in two copies in the last four blocks) gives each
bad block a block of a reserve of 5 %.

State: the table in RAM, its copies, the marks in the spare areas, a block-sized buffer.
Operations: `ftl_read_nand`, `ftl_write_nand` (with its recovery of a failed write),
`ftl_erase_nand`, `ftl_init_nand`.  All of them run under `ftl_lock`, so what is hard is
not interleaving but failure: a program fails, its replacement fails, then the block of
the table fails, and power goes in between.  Correct means: what was written is read
back, through every failure the code handles; no two bad blocks share a replacement;
what is known to be bad stays known.

`ftl_lock` creates its mutex at the first call, and a second task may come in between.

### 1.3 The firmware update — `soc/8735b/misc/platform/ota_8735b.c`, `sys_api.c`

Two images, of which the boot loader (external) starts one.  `update_ota_local_task`
receives the other block by block; on NOR `ota_flash_NOR` programs the blocks, reads
them back for a checksum and programs the label, the first eight bytes, last; on NAND
`ota_flash_NAND` reads the partition table, writes it without the target's record,
programs the data into free blocks and writes the table with the new record, in two
copies.  `sys_clear_ota_signature` and `sys_recover_ota_signature` switch between the
images by inverting the first byte of a label, or the magic numbers in the table.

Hard: a loss of power, a broken connection or a failing block at any step; a switch
beside an update; two copies that differ.  Correct: an image that can be started is
complete, there is always one, and an update that is reported done is the one started.

### 1.4 Services with several actors

* **Device locks** (`os_dep/device_lock.c`): a mutex for each device, created by its
  first user.  Two first users must not get two mutexes.
* **Timers of the Wi-Fi driver** (`os_dep/timer_service.c`): a list finds the timer that
  a FreeRTOS handle belongs to.  The daemon runs callbacks while tasks cancel and delete;
  handles are freed and given out again.  No command may name a freed handle, and a
  cancelled timer stays quiet.
* **DHCP server** (`network/dhcp/dhcps.c`): one set of globals for all clients, a bit map
  of addresses ever given out, a table with a row per station.  Answers are lost, stations
  come and go.  Two stations must not get one address, a renewal must keep its own.
* **RTSP server** (`network/rtsp/rtsp_api.c`, `media/mmfv2/module_rtsp2.c`): the server's
  task, a task that sends RTP and the media task, joined by a session state, two queues
  per stream and one pair of semaphores for all streams.  The socket of a client must
  outlive what is sent over it, and no task may wait for an object that is there.

### 1.5 The other components

| Component | Interaction | Status |
|---|---|---|
| `system_data` | reads and writes an active and a backup sector; of its two writers in the sources one, for Bluetooth, has no caller, so that nothing interleaves | not modelled |
| Wi-Fi API | event callbacks of the driver library beside connect and disconnect | not modelled: the other half is the library |
| Bluetooth HCI | H4 framing from an interrupt into a ring buffer | later (`CONFIG_BT` is 0) |
| static heaps, fwfs, lwIP glue | free list; cursor; DHCP client loop | later |
| websocket, HTTP, fast connect, Simple Config, the other mmfv2 modules | bindings to code delivered as libraries | not modelled: the logic is not in the sources |
| HAL, AT commands, flash drivers of the file systems | registers, consoles, address arithmetic | not modelled: pure I/O |
| third-party code, examples, images | — | not modelled |

## 2. Modules

```
 FtlStore (promise)                                  NatExtrema (Min, Max)
     ^ refines                                           |
 FtlLog  (meaning of the log)                            v
     | extends             FtlLock  (tasks and locks)   FtlProofs, FtlNandProofs,
 Ftl  (the FTL)                ^ FtlLockProofs          PartsProofs
     ^ FtlProofs           FtlNand  (bad blocks)
     ^ composed with           ^ FtlNandProofs
 FtlReader (a loading task)
     ^ FtlLogProofs (of FtlReader, FtlLog and Ftl, with FtlProofs)

 FtlTable  FtlCommon  DeviceLock  TimerService  Dhcps  OtaNor         OtaNand  Rtsp
                                                         ^ OtaNorProofs          ^ RtspProofs
             MCParts: each of them, one at a time
                 ^ PartsProofs
```

* **Ftl** — `ftl.c`.  One step is one flash operation of the code (a word written, a
  sector erased) with all that runs until the next one, because power may go between any
  two.  `pc`, `op`, `wr`, `gc`, `era` and `idx` are the program counters, arguments and
  locals of the call stack: `Save`, `WriteData`, `WriteKey`, `SetEnd`, `BeginFormat`,
  `EraseSector`, `MarkErased`, `MarkFails`, `StampPage` are `ftl_write` and its
  rollover; `StartGc`, `CopyNext`, `CollectPage`, `EndGc` the collection, in a save or
  by `FTL_IOCTL_DO_GC_IN_APP`; `ClearAll`, `ClearPage`, `ClearTable` and `Sweep` the
  other requests; `Boot` (the scan for the newest page), `Mount`, `RecoverCopy`,
  `RecoverEnd` are `ftl_init`; `Crash` and `CutWrite` are power losses.
  The words of a page are abstracted to data words, keys (a record with the address) and
  the blank word; INFO_beg to `status` and `seq`; INFO_end to `fin`.
* **FtlStore** — what `ftl.h` and `ftl_int.h` promise: a durable map with atomic saves.
* **FtlLog** — the meaning of the flash contents: what a boot should recover, said with
  sets of records and not with the loops of `ftl_init`.  It gives the refinement mapping
  `Store` and the property `ReadsAgreeWithLog`.
* **FtlReader** — Ftl beside a task in `ftl_read`: look-up, check of the key and read of
  the word are separate steps.
* **FtlLock** — the locks only: any number of tasks, `ftl_mutex_lock` with its 100 ms
  timeout, the recursive `ftl_sem`, the error return of `ftl_write` that leaves
  `ftl_sem` taken (`Leak`, with the history variable `leaked`).
* **FtlTable** — the bytes of `ftl_mapping_table`, and the one after them, in which the last
  entry ends if there are an odd number of words: nobody sets it at first (`Beyond`), and a clear
  leaves it.
* **FtlNand** — `ftl_nand_api.c`.  One step is one page programmed or one block erased.
  `pc` says where the call under way stands: `write` (before `bbm_nand_write`),
  `program` (`bbm_nand_write_block`), `tag` (`bbm_mark_tag_block`), `retry` and
  `reprogram` (the recovery in `ftl_write_nand`), `update` (`bbm_update_table`).  The
  table is a function from blocks to `Good`, `Unmapped` or a reserve block.  `want` is a
  history variable: what a read of each place must return, or `Unknown` where the code
  promises nothing (a block whose write was cut short by a power loss, a bad block
  without a saved replacement, a write given up although success is returned).
* **FtlCommon** — `ftl_common_api.c` with the cycle of `ftl_write_nor` that reads, erases
  and programs a unit.  `Pieces` is the cutting of a request at page borders; `Test`,
  `Point`, `Create`, `Take` are the steps of `ftl_lock` on a mutex that may not be there
  yet, `raced` remembers that two first calls overlapped.
* **DeviceLock** — `device_lock.c`: `Enter` tests the bit, `CreateOnce` tests it again in
  the critical section, `Get` and `Put` are lock and unlock.
* **TimerService** — `timer_service.c`.  The actions are the parts of `init_timer`,
  `mod_timer`, `cancel_timer_ex` and `del_timer_sync` between two calls of FreeRTOS, and
  `Expire`, `timer_wrapper` in the daemon.  FreeRTOS itself is external (`kernel`, `Send`,
  `Execute`): its daemon has the highest priority, so tasks move when its queue is empty.
* **Dhcps** — `dhcps.c`.  An action is a packet handled, which the thread of the IP stack
  does one at a time; `Hears` loses the answer or not.  Clients follow RFC 2131
  (external).  The bit map keeps the arithmetic of the code, with words of `Width` bits:
  `Fifth` are the addresses whose mark is shifted out of the word.
* **OtaNor** — one step is a block erased, programmed or read back.  `ota` holds the
  counter and the static variables of the update, `tool` those of a switch.
* **OtaNand** — one step is a block erased, programmed or read.  `writer` is the loop over
  the blocks for copies of the table that both use.  `events` remembers what the
  properties do not cover.
* **Rtsp** — `server`, `sender` and `media` are where the three tasks stand; `Setup`,
  `Play`, `Pause`, `Default`, `Leave` are requests and the ways to the end of a session,
  `WaitOn` and `Close` what the server does after a delay of 2 s; `Scan`, `Take`, `Sent`, `Put`
  and `Up` are the loop of `rtp_service_unicast`, `Frame` to `Back` `rtsp2_handle`.
  `sender.socket` says whose socket RTP goes to.  Two history variables: `stalled`, a send has
  waited for the network during the delay, and `restarted`, a PLAY was repeated.
* **NatExtrema**, **FtlProofs**, **FtlLogProofs**, **FtlLockProofs**, **FtlNandProofs**,
  **OtaNorProofs**, **RtspProofs**, **PartsProofs** — theorems.  PartsProofs has those of
  the smaller components and of OtaNand, a section for each, and says of `parts`, the composition, what
  OtaNorProofs and RtspProofs say of theirs.
  **MCFtl**, **MCFtlReader**, **MCParts** — instances.

## 3. What is checked

| Run | Question and answer |
|---|---|
| `store` | Ftl implements FtlStore: a save commits with the write of its key word, and no step of a rollover, collection, sweep or boot, nor a power loss between two of them, changes a stored word.  The table in RAM agrees with the log at every step. |
| `space` | With every permitted address in use the log never runs out of space; the cells written are blank; a page is free whenever no call runs; the valid pages are those a boot walks back through; recovery never wipes the store; a page is erased only when its records are dead. |
| `rough` | Power is lost anywhere: between the words of a record, in a clear, inside the program of a sector; the mark after any erase may fail.  The FTL still boots with a free page and never runs out of space. |
| `live` | Every call returns and every boot ends, unless power goes again and again. |
| `load` | A load that excludes saves returns the stored word beside sweeps and power losses. |
| `lock` | One writer at a time; `ftl_sem` is given back as often as it is taken until a format fails.  A task that got `ftl_mutex_lock` gives it back, if collections are not asked for for ever and no other task keeps `ftl_sem` after a failed format. |
| `nand` | Through failing programs, failing replacements, failing table blocks and power losses: what was written is read back (`ReadsBack`), no reserve block serves two bad blocks, no block known to be bad is written, none is forgotten. |
| `parts` | The components that stand by themselves; `part` says which one moves, the variables of the others stay at `Off`.  Table: a write changes the entry of one address; a clear empties all of them but the last of an odd number, of which four bits stay.  FtlCommon: a write changes its bytes only and is never half done but in one unit, a read is exact.  Locks: one holder (`OneHolder`, of `ftl_lock` and of a device).  Timers: no dead handle is used, a cancelled timer is quiet, a handle finds one timer.  DHCP: no two stations share an address, what is recorded is marked, a renewal keeps its address.  Update: no torn image can be started, some image always can, a reported success is bootable, on both flashes.  RTSP: nothing is sent while there is no client; RTP over TCP goes to the client that asked for it unless a PLAY was repeated; no wakeup is lost. |
| `torn_lost` (violation) | finding 1 |
| `ota_bricked` (violation) | finding 2 |
| `race` (violation) | finding 3 |
| `nand_remap` (violation) | finding 4 |

### Findings

1. **Half a record hides a page** (`torn_lost`).  Power lost between the data word and
   the key word leaves an odd cursor at the next boot; keys are then looked for at the
   wrong cells and every record of that page is lost, although its saves had succeeded.
2. **An update without the running image** (`ota_bricked`).  When power goes between the
   two copies of the final partition table, the new image is in the first copy only.  The
   next update takes the table of the second (`ota_8735b.c:148`), writes it without its
   target and without the image that runs: until it ends, no image can be started.
3. **A load beside a collection** (`race`).  `ftl_read` takes no lock that a collection
   from the idle task or `ftl_ioctl` takes: the page is erased between the check of the
   key and the read of the word, and the load returns 0 with a word never saved.
4. **A replacement that is not saved** (`nand_remap`).  The reserve block picked for a
   factory-bad block is entered in RAM only; after a restart another bad block gets it.

Observed while modelling, without a run of its own here:

* FTL: the current page can become the oldest one during a collection that only copies
  (`ftl.c:443` asserts the contrary, but the macro is empty); the result of a failed copy
  is ignored and its page erased (`ftl.c:505`); one failed erase leaves `ftl_sem` taken for
  ever (`ftl.c:1108`); `MAPPING_TABLE_SIZE` rounds down, so that for an odd number of
  addresses — the SDK's three pages have 1021 — the four high bits of the last entry survive a
  clear (`Cut` in `ClearLeavesOneNibble`); an entry has 12 bits of half a cell
  index, so that more than eight pages of 1024 words do not fit (`ftl.c:766`); a save of
  several words is not atomic (`ftl.c:929`); a clear and a sweep take no lock (`ftl.c:1190`).
* Through `ftl_write_nor` every word erases and programs its sector: power lost in between
  loses the records of the whole page (`ftl_nor_api.c:58`).  The FTL goes on
  (`rough`), its data do not.
* `ftl_common`: an aligned read puts page i at `i * i * page_size`
  (`ftl_common_api.c:106`; `ReadIsExact` leaves out what it calls `Skewed`); each page's
  result replaces the one before, so that a failed page is reported only if it is the last
  (184, 140); two first calls that overlap may leave a task with a mutex that is not
  initialised (`raced`).
* NAND: a recovered partial write ignores its offset (`ftl_nand_api.c:177`; `ReadsBack`
  fails as soon as `Offsets` has two elements); an erase of a bad block without a
  replacement erases block 0 (442); the result of the table's update replaces that of the
  write (420); a malloc that fails leaves the table half built and marked as there (755).
  The copies of the table carry no version and `bbm_check_is_init` takes the first block without a
  mark: when three of the four table blocks fail now and then, a table that calls marked blocks good
  is written twice to blocks that the next boot skips, and an older copy is loaded
  (`BadBlocksSurvive` fails for `T = 4` and three table blocks in `Breakable`; `FewFail` leaves
  it out).
* DHCP: addresses 129 to 160 are never marked (`dhcps.c:80`, left out as `Fifth`); the
  requested address outlives a NAK or a DECLINE (739); while an offer is open any message
  gets an offer (911, `strayed`); a lease that finds no row is recorded nowhere (131,
  `dropped`); the server deinitialises from another task than the one that serves (1236).
* Update: with one readable copy of the table the update returns with the flash locked
  (`ota_8735b.c:155`, modelled by `ReadTableFails`), and a switch erases the only copy
  before it writes (`sys_api.c:349`, event `lone`); a connection that breaks after a block
  still announces the reboot (613); the four bytes of the checksum are taken off the
  last block even if it has fewer (578); after a failed copy an older third one stays behind (event `failed`).
* RTSP: an invalid command sets the state back, so that further SETUPs count
  `nb_streams_setup` past `nb_streams` (`rtsp_api.c:1663`, 1757); a start token of a
  PLAY, PAUSE, PLAY stays behind and starts the sending task once more (1724).  If RTP has
  waited for the network during the delay of 2 s, the task may then be between the end of one
  service (1930) and the start of the next (1869) as the server looks at `is_rtp_start`: the server
  closes the socket, although 1794 says "wait rtp_service_unicast done", the next client sets up
  and plays at once, and its RTP goes to the closed socket or to whatever has its number now
  (`SendsInSession` fails without `restarted`, as TLC shows); tokens of
  `rtp_input_sema` pile up while two streams take turns
  (2056); `rtsp_context_free` uses the context after it is freed.

### Bounds, and why they are enough

* **Pages and cells** (`N`, `E`; really 3 and 1024).  N = 3 is the smallest ring in
  which a collection copies from one page to a second while a third is erased, and it is
  the SDK's own number.  E = 6 gives two records to a page: a page can be half live, and
  rollover, collection and recovery all happen in a record's first or last cell.  `live`
  takes N = 4 and E = 4 (one record to a page), so that a collection needs several rounds.
* **Addresses** (`Addr`).  `space` and `rough` use as many as `ftl_check_logical_addr`
  lets through for that geometry — the worst case for space.  `store` uses two, one of
  which has two words to save: records are only copied, never combined, so this shows all
  that a stale record can do.  `Value` is otherwise one word; `Symmetry` permutes the
  addresses where all of them save the same word and no liveness is checked.
* **Sequence numbers** (`SeqMod`, really 256) wrap at 4 or 5, just above N, so that every
  run goes through the wrap.
* **Collection thresholds** (`GcPages`, `GcCells`): values below and above the
  threshold at which a collection starts.
* **Faults** (`TornCrash`, `ClearCrash`, `Cuts`, `EraseFaults`): each run names those it
  allows.  A cut at place k of `Cuts` leaves the first k cells of the sector programmed.
* **Tasks** (`Task`, `MaxLeaks`): three tasks, one of which may leak `ftl_sem` once.
* **`parts`**: FtlTable with five addresses (two pairs that share a byte, and one that ends in
  the byte after the table, as the last of the SDK's 1021 does) and places whose entries set and
  clear every nibble.  FtlCommon with pages of 2 bytes, blocks of 2 pages,
  12 bytes of flash, two tasks and two calls: requests start and end inside pages, cover
  several, and cross blocks.  Two DHCP clients for two rows
  and three addresses, in the fourth and the fifth word of the bit map, so that a row is
  taken over, leases find no row, and marks are lost.
  Two timers and two handles: a freed handle is the other timer's next one.  Two
  versions of two blocks, one too large for its partition and one of a single block (NOR),
  and one data block that fails (NAND).  Two streams, one start token and two input tokens ahead
  (`MaxStarts`, `MaxTokens`); the theorems have no such bounds.  `Alike` permutes the
  clients of the DHCP server and the versions of one length, which no property or
  action tells apart.
* **Blocks** (`D`, `R`, `T`, `P`; really about 970, 50, 4 and 64): two data blocks,
  one of them bad from the factory, two reserve blocks, of which one fails too, so that the
  reserve runs out, two table blocks, of which one fails, and two pages, of which one is written
  while the other must be kept.  `FTL_MAX_RETRY` is 2 instead of 5.  Calls of
  `nand` write one word (`Words`), those of `nand_remap` also the blank one; `P = 1` in
  `nand_remap`, which needs nothing else.  The theorems are for any geometry and words.

### Fairness

`live` assumes weak fairness of `Step`, the steps of a call or boot under way: it runs on
a task that FreeRTOS schedules, and flash operations return.  Requests and power losses
are never assumed to happen; `ReturnsToCaller` only asks that power losses end.

`lock` assumes for each task weak fairness of what it does without waiting for another
task or that a timeout ends (`Lock`, `Timeout`, `Unlock`, `Copied`), weak fairness of taking
`ftl_sem` (`Write`, `Collect`: a task that waits takes it if it goes on being free), and strong
fairness of leaving the loops of a save and a collection (`Written` with the last word,
`Collected`): a save has finitely many words, and that a collection ends is what `live` shows in
the module that has its data.  Nothing is assumed of who gets `ftl_sem` when it is given back:
FreeRTOS wakes the waiting task of the highest priority and hands it nothing, so one that collects
again and again can pass over a save for ever, which then keeps `ftl_mutex_lock`.  `MutexComesBack` therefore
asks that collections from outside, which do not take `ftl_mutex_lock`, be asked for only finitely often;
without that condition TLC finds the save that is passed over.

The components of `parts` are checked for safety only.  Rtsp makes one assumption about time, `Delayed`:
in the 2 s before the server looks at `is_rtp_start` the sending task does all that it does without
waiting for the network.  If a send was under way in that time (`stalled`), nothing is assumed: the
server may meet the task anywhere, a start token left or not.

## 4. What is proved

For all values of the constants that satisfy the named assumptions (`FtlAssumption`,
`LogAssumption`, `LockAssumption`, `TableAssumption`, `NandAssumption`, `CommonAssumption`,
`DeviceLockAssumption`, `DhcpsAssumption`, `TimerAssumption`, `OtaNorAssumption`,
`OtaNandAssumption`, `RtspAssumption`; TLC evaluates each of them in the runs):

* `FtlProofs!TypeCorrect` — `Spec => []TypeOK`.  The types say more than sets: the cursor
  stays in the page, `g_free_page_count` in its `uint8_t`, every entry of the table in 12
  bits.  The invariant is inductive with the facts on each `pc` about the locals that are
  live there.
* `FtlProofs!AlignedCorrect` — if power never goes inside a record
  (`WholeRecords`), the cursor is on a record boundary in every state.  Finding 1 shows
  that the assumption is needed.
* `FtlProofs!FreePageAlways`, `NeverOutOfSpaceCorrect` — any number of pages, page size
  and addresses, power lost anywhere (inside a record, a clear or a sector), marks that
  fail.  The invariant `SpaceInv` has six parts.  `InRequest`: which request runs at which
  `pc`.  `Serving`: outside a collection and a boot a page is free and the count is right.
  `ErasesFree`: a page is formatted or swept only while it is free, and a format is of the
  page after the current one.  `CollectsOldest`: a collection is of the oldest page until that
  is erased.  `CopiesFit`: what is left to scan of it fits in the rest of the current page and the
  free ones, which is why no copy begins a second collection and none meets a full log.
  `Recovers`: the same of the recovery in `ftl_init`.  What `g_free_page_count` counts is
  said by lemmas on the ring (`FreeCountCounts`, `RingStep`), and how a page that
  becomes valid or invalid changes it.
* `FtlProofs!BlankCellsAlways`, `DeadPageAlways` — `WritesBlankCells` and
  `CollectedPageIsDead` for any size of the log and any addresses, if power does not go inside a
  record, erased sectors take their mark, and a collection that is asked for leaves the
  current page alone (`Orderly`: thresholds up to N - 2, as in the run `space`).  The
  invariant `LogInv` is added to the one of the ring.  Of the flash: a page marked erased is blank
  (`ErasedIsClean`), and the current one is blank from the cursor on (`CursorClear`).  Of the table:
  it is empty while the first page is made (`EmptyTable`) and otherwise points at records of its
  addresses in valid pages (`MapPoints`).  Of a scan: the keys it has passed are those of records
  found elsewhere (`Scanned`), so at its end none of the page is in the table.  The last hazard is a
  collection that goes round to the page it copies into: `RoundFills` says that a round in
  which no record was dropped has filled the current page when it gets there, and
  `CurrentLast` that a page being erased is never the current one.
* `FtlLogProofs!NoOrphanAlways` — `NoOrphanPage` for any number of pages and any `SeqMod` above it, if
  moreover no clear is cut short (`Undisturbed`; a clear erases the pages from 0 on and may leave a
  log with a gap).  `ChainInv`: each valid page but the current one is continued by the next page,
  with the next sequence number, and while no call has the log in hand some page is such an end.
  A format adds a page at the end of the chain (`AddLast`), a collection takes the oldest one off
  (`DropOldest`), power lost while the sector of the current page is programmed cuts that page off
  (`DropLast`).
  The search of `ftl_init` finds the end (`SearchFindsLast`): sequence numbers that wrap and
  a ring that wraps are two moduli, and the search counts with both.
* `FtlLogProofs!ReadsAlwaysAgree` — `ReadsAgreeWithLog`, under `Undisturbed`.  The new invariant is
  `LatestInv`: of every key in the log, the table has a record of the same address that is not older,
  counted in pages back from the current one and in cells down from the end of a page.
  Erased records were scanned (`Scanned`), so it outlives a collection; at the
  end of a boot it is what the loops of `ftl_mapping_table_init` establish (`MapInitLatest`).  With
  `ChainInv` the log that FtlLog defines is the table, address by address (`TableIsLog`).
* `FtlLogProofs!NeverWipesAlways` — `NeverWipes`, under `Undisturbed`.  `RoomInv`: when all pages are
  valid, which only a collection that was cut off leaves behind, a record of the oldest page that is not
  found elsewhere has its key so low in the page that what is to copy fits in the current one
  (`Fits`); a loss of power inside the sector takes records back, so this is said for
  each earlier free cell as well (`Superseded`).  `RecoverCopy` copies from the end of the page down,
  and keeps it true.
* `FtlLogProofs!StoreImplemented` — the refinement, `Spec => StoreSpec`, if besides no sector is programmed
  twice for a word (`Durable`: no `Cuts`; with them the records of the page are lost).
  `ValueInv`: each data word in front of a key was saved.  `WriteInv`: a save writes what
  it was asked to, a copy what the table leads to.  With these and the invariants above, `LogValue` is
  the words the table points at while a call has the log in hand, and a loss of power leaves the flash
  and so `LogValue` alone (`LogFacts`, in both states of a step, and `SameLog`).  `StoreSteps` goes through the actions: `WriteKey` of a save
  is `Commit` and every other step of a call keeps the store and what is pending (`Hidden`), a clear
  scrambles and then empties it, `Mount` or the end of a recovery is `PowerUp`, `Crash` is `PowerLoss`.
* `FtlLogProofs!LoadAlwaysCurrent` — `LoadIsCurrent` of FtlReader, under `Undisturbed` and with requests to
  save and to sweep only, as in the run `load`; `race` shows why not beside a collection.
  `ReaderInv`: while a load is under way no save is, and it goes by the table as it
  is; a sweep erases pages the table does not point into (`MapKept`).
* `FtlLockProofs!TypeCorrect`, `OneWriterCorrect`, `SemBalancedCorrect` — any number of tasks, any
  failures; the inductive invariant counts how often each task's calls have taken
  `ftl_sem` (`Taken`), at most three times, and once more for each leak.
* `PartsProofs!TableCorrect` — `WritesOneEntry` for any page size, number of
  addresses and places; the two parities of an address are the two cases.
* `PartsProofs!ClearLeaves` — `ClearLeavesOneNibble` for any number of words, odd or even: the
  last entry of an odd number, and no other, reaches the byte that `MAPPING_TABLE_SIZE` rounds
  away (`Inside`), and has its four high bits there (`HighBits`).
* `FtlNandProofs!TypeCorrect`, `NoSharedReserveCorrect`, `WritesGoodBlocksCorrect` — any
  geometry, any factory-bad and failing blocks, whether or not marks can be written.  The
  inductive invariant adds `CallOK`: the call under way works on its own block or on a
  block in its place, and the recovery is entered for a bad block only.  Without it, `Retry`
  could give a good block a replacement.  The lemmas on `FindRemap` and `Remapped` say that the search
  returns a good reserve block that no other bad block has.
* `FtlNandProofs!BadBlocksAlwaysSurvive`, `AlwaysReadsBack` — `BadBlocksSurvive` under `FewFail`
  (bad blocks take their mark; one table block never fails, and at most two do) and `ReadsBack` under
  `WholePages` (bad blocks take their mark; a page is written whole, since a recovered
  partial write goes to the wrong offset).  Both need `TablesInv`, on what RAM, copies and marks
  say of each other: a block that the RAM calls bad has its mark (`BadMarked`, `ReserveMarked`), a
  copy is in a block it calls good and knows of no mark that later blocks lack (`CopyGood`), what
  `bbm_update_table` has passed holds the table (`Written`), and of two copies that
  may be loaded the later one knows no more (`CopiesAge`), so no boot goes back behind a
  replacement that was in use.  For the first, `SurviveInv`: the update has written as many copies as it has
  passed good blocks (`Counted`), every copy is thus the first or second block that it calls good
  (`SecondAtMost`), and of two marked blocks that RAM calls good one lies behind a block without a mark
  (`NotTwo`); so one of the two copies is where a boot looks first (`Fresh`).  For the second, `DataInv`: what is known
  of a block is in its place, good or on a good reserve block (`Kept`), and during a call in the
  pages written or in the copy (`InPlace`, `InHand`); after a power loss a block whose entry was saved
  has the same place in the table that is loaded, and `NoSharedReserve` keeps the places apart.
* `PartsProofs!OneHolderAlways` — any number of tasks and devices, any number of first
  calls.  For a device the invariant says that a mutex exists exactly if its bit is set
  (`MutexCreated`) and that who is inside holds the mutex the device has now
  (`HolderIsIn`).  For `ftl_lock` it holds unless two first calls overlapped (`raced`);
  `FirstCall` says where the one that creates the mutex stands.
* `PartsProofs!WriteIsWholeAlways`, `ReadIsExactAlways` — any page, block and flash size,
  any requests.  Each piece that `Pieces` cuts lies in the request, in a page and in a unit of
  erasure, and begins where the one before it ends (`PieceFits`, `Fits`; its lemmas
  follow the arithmetic of `ftl_common_api.c`).  The invariant `WorkInv`: a call is at one of
  its stages (`InStages`), one task works (`WorkOnce`), the sector buffer holds the unit it
  read (`BufferOwned`), and up to the next piece the flash or the buffer is as requested
  (`WrittenSoFar`, `ReadSoFar`).
* `PartsProofs!NoSharedAddressAlways`, `RecordedAlwaysMarked`, `RenewAlwaysKeepsAddress` —
  any pool, any number of rows and clients, any answers lost; `NoSharedAddress` as long as each
  lease found a row and only a DISCOVER got an offer, which the property says (`dropped`, `strayed`).
  The invariant adds that the rows in use are the first ones (`RowsFirst`), that every lease a client
  believes in is in the table (`LeaseRecorded`) and what is on offer nobody's
  (`OfferIsFree`).
* `PartsProofs!NoDeadHandleAlways`, `QuietIsQuietAlways`, `OneEntryAlways` — any number of
  timers and handles.  A timer owns its handle until it has sent the command that frees it;
  owners have live handles and different ones (`OwnersAlive`, `OwnersApart`), a pending delete is of
  nobody's handle (`DyingIsNobodys`), entries of the list own theirs (`ListedOwn`), a quiet timer is
  not armed and no start of it is pending (`QuietIsSilent`).
* `OtaNorProofs!NoTornImageAlways`, `SomeImageAlwaysBoots`, `SuccessAlwaysBootable` — any versions and
  lengths, any size of a partition, power lost anywhere, until a switch and an update have
  met.  The invariant ties the lock to who works (`Locked`), the block counter to what is in
  the flash (`Position`, `Updating`), a right label to a whole image (`MarkedIsWhole`) and a
  switch to the image it leaves valid (`Switching`).
* `PartsProofs!NoTornImageAlways`, `SomeImageAlwaysBoots`, `SuccessAlwaysBootable` — the same for
  `PartsSpec`, on NOR by `NorIsNor` and on NAND for any number of versions, blocks and copies of the
  table, power lost anywhere and blocks of data failing, the first two properties until one of the
  `events`.  The invariant `NandSafe` follows the loop that writes the table (`CopiesWritten`), which
  an update runs through twice.  Until one of the `events`, a readable copy is left while the other
  is written (`OneStands`), every readable copy is good (`GoodCopies`), and while the data is
  written both copies have only the image that runs (`OldOnly`); at all times what the update has received is
  in the blocks its table names and, when it ends, in the copy the boot loader reads (`Received`,
  `Announced`).  `SuccessAlwaysBootable` and the types of the part need `MaxFails < Copies`: if every
  copy goes bad, the loop ends with none written and the update reports success all the same (TLC
  shows it with `MaxFails = Copies = 2`; the run has 1 and 2).
* `RtspProofs!SendsInSessionAlways`, `NoLostWakeupAlways` — any number of streams and
  requests.  `Watched`: what `is_rtp_start` says of the sending task, and that it sends nothing
  while the server is without a client.  `ServesOne`, until a PLAY is repeated: the task has one start
  at most, and the server waits for no other client before it is at rest, even if the delay
  was `stalled`.  `Places`: an object is in one place.  `Returned`: an object the media task may ask
  for has a token although tokens may be taken for another stream.  `Waiting`: an object that the
  scan has passed has a token for the next one.
* `PartsProofs!SendsInSessionAlways`, `NoLostWakeupAlways` — the same for `PartsSpec`, by
  `RtspIsRtsp`: the instance of Rtsp in MCParts and the one of RtspProofs take the same steps.
  `PartsInv` has the invariant of the part that moves.
* `RtspProofs!TypeCorrect` — `Spec => []TypeOK`: no queue has an object twice and
  `rtp_output_sema` is at most the number of streams, since each of its tokens, posted or taken,
  is for an object of `output_queue` (`Tokens`).  `PartsProofs!TypesCorrect` joins the types of all
  parts, with `MaxFails < Copies` for the one on NAND, where a switch would otherwise take up the
  table of no copy.

The hypotheses of the theorems about Ftl are conditions on its constants, and the runs satisfy
them: `Orderly` and `Undisturbed` hold in `space` and `load`, `Durable` in `store`, and `rough` has none
of them.  They name faults after which the properties fail: half a record (finding 1), a clear cut
short, a mark that fails and ends a collection half done, a collection asked for that has no page but
the current one, a sector lost while it is programmed again.  `LogAssumption` says that FtlLog's mark
for no word is not itself a word.

Only model-checked: liveness (`ReturnsToCaller`, `MutexComesBack`), since it rests on fairness and
ENABLED, which are out of the prover's reach.  Every other property of a run that passes is a theorem.

## 5. Abstractions

* Collections are requested with a page threshold below N only; a request with a higher one on
  an empty log walks an empty ring, which no caller in the SDK does.
* `FTL_IOCTL_CLEAR_ALL` and the sweep take no lock; the model serialises them with the
  other calls, as an application must.  `ftl_init` runs once per power cycle.
* A save of several words is a sequence of saves of one word.
* Ftl's table clears completely and its entries are numbers; FtlTable justifies that but for the
  last of an odd number of addresses, whose entry a clear leaves with its four high bits.
* NOR writes succeed unless power goes; only the mark after an erase may fail its read-back.
* In FtlNand reads do not fail, a failed erase changes nothing, a failed program spoils its
  page only, and an interrupted program of the table leaves a page without a valid first
  entry.  An erase takes a block's mark with it.  The erase and the mark of a bad block succeed in the
  run (`TagFails`); the first three theorems hold either way.  The table has room for all bad blocks.
* FtlCommon has two outcomes of a piece, done and failed; OtaNor and OtaNand count blocks of
  an image, and have one version to a block instead of its bytes and a label whose first byte is
  apart from the others (eight bytes programmed at once).  The records of an image in the
  partition table are one.  The boot loader takes the first readable copy, as
  `fwfs.c:262-283` does.  On NAND no switch starts during an update.
* Dhcps has the last byte of an address only; packets are handled whole.
* A timer's function in TimerService does not block and does not delete its own timer.
* Rtsp leaves the text of requests and responses, their reassembly and the packets of
  RTP out; a request may end a session or be answered as the code does.

## 6. Not modelled, and what could follow

* **Outside the sources**: the Wi-Fi driver, the multimedia framework, the websocket and
  HTTP protocols and the boot loader are delivered as libraries; a model of their bindings
  would be mostly external.  The bulk of the tree is third-party code, tables and samples.
* **Left out of what is modelled**: the DNS responder and the custom pools of `dhcps.c`, and
  its deinitialisation; the download over HTTP of `ota_8735b.c` (it shares the static variables of
  the local update, so two updates at once would mix them); `deinit_timer_wrapper`;
  `device_mutex_free`, `rtsp_stop` and `rtsp2_destroy`, which nothing calls while the tasks run; failing
  allocations; the parsing of the flash geometry and tables larger than a page.
* **Next modules**: the HCI framing with its ring (`hci_h4.c`, `cycle_queue.c`), the
  first-fit heap (`tcm_heap.c`), the block cursor of `fwfs.c`, the DHCP client loop of
  `lwip_netconf.c`, `system_data`.
* **Next theorems**: how much of the store survives the faults that `Durable` leaves out: half a
  record, a clear cut short, a sector lost while it is programmed again.
* **Abstract specifications worth stating**: a reliable block device that FtlNand
  implements (with `want` as its refinement mapping), and on it the sector device that Ftl
  assumes.
