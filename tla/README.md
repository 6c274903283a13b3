# mcdb in TLA+

mcdb is a constant database: a program builds a file once, replaces it as a
whole when the data changes, and any number of threads and processes look keys
up in a memory map of it.  This directory holds TLA+ models of the library, of
the tool `mcdbctl` and of the name service built on it, the TLC runs that check
them on small instances, and TLAPS proofs of what matters most about each part, for
every value of the constants.

Paths below are relative to the repository (`src/`).  `PROJECT.json` maps every
definition to the lines it models.

## 1. The system

| component | sources | state | operations |
|---|---|---|---|
| map chain | `mcdb.c`, `mcdb.h` | `struct mcdb_mmap`: `ptr`, `next`, `refcnt` with two flag bits, `mtime`, `allocated` | create, refresh check, threadsafe reopen, thread registration, free, destroy |
| writer | `mcdb_make.c`, `.h` | `struct mcdb_make`: write window, per-slot lists of hashes, counts | start, addbegin, addbuf_key, addbuf_data, addend, addrevert, finish, destroy |
| reader | `mcdb.c`, `.h` | `struct mcdb` (search), `struct mcdb_iter` | findtagstart, findtagnext, iter_init, iter, numrecs, validate_slots |
| file replacement | `mcdb_makefn.c` | names, a temporary file, the directory | start, finish (sync, close, rename), cleanup |
| textual format | `mcdb_makefmt.c` | a read buffer (or a mapped file) and the record being parsed | read preamble, key, data; feed the writer |
| command line tool | `mcdbctl.c` | iovecs not written yet, the place of an iterator | dump, stats, get, make, uniq |
| name service | `nss/nss_mcdb.c` | one shared map per database, one session per thread and database | open, refresh, setent, getent, endent, get by key |
| name service entries | `nss/nss_mcdb_{acct,netdb,authn}.c`, `.._make.c` | tables of netgroups and of group members while a database is built | parse `/etc` files, encode, decode, get*ent, get*by* |
| name service builder | `nss/nss_mcdbctl.c`, `nss/nss_mcdb_make.c` | the times of text files and databases, a mapping of `nsswitch.conf` | rebuild what is out of date |
| conversions | `uint32.c` | none | hash, decimal and hexadecimal conversions |
| `plasma` (submodule, not in the tree) | - | spin lock, atomics | acquire, release |

How they interact.  The writer leaves a file; `mcdb_makefn` renames it over the
old one.  Readers notice the new modification time in
`mcdb_mmap_refresh_check`, map the new file into a new `struct mcdb_mmap`
behind the old one, and move over one by one; the last thread to leave an old
map frees it.  All of that is shared memory between threads, under one spin
lock, with two steps outside of it (the unlocked read of `map->next` in
`mcdb_thread_refresh_self` and the unlocked `map->next = next` in
`mcdb_mmap_reopen_threadsafe`).  Writer and reader share the file format and
nothing else; the width of the hash table entries (8 or 16 bytes) is not stored
in the file and derived by both.

`nss_mcdbctl` compares the modification times of the files of `/etc` and of
`nsswitch.conf` with those of the databases and rebuilds the older ones: it maps
the text, parses it line by line, hands each entry to an encoder that stores it
under one key per way of looking it up, and installs the file with
`mcdb_makefn`.  The switch module, loaded into every process, enumerates and
searches these files and decodes records into buffers of its callers.
`mcdbctl make` feeds the writer from text, `mcdbctl dump` writes such text.

What is hard to get right, and what correctness means:

* map chain: threads leave, move and reopen in any order while the file is
  replaced.  No thread may lose the map it is registered on, counts must equal
  the threads, every map must be reachable from one that will be released, only
  one thread may make the successor of a map, and a registered thread must end
  up on the latest content.
* writer: a record is reserved in `addbegin` and written by later calls; the
  window, the file size and the lists of hashes change under way, and system
  calls fail between.  Every byte must go inside window and file, no hash entry
  may be lost, and memory must be freed once.
* reader on the writer's files: collisions, wrap-around, repeated keys, both
  entry widths, padding.  What is found must be what was added.
* name service: one pointer per database is shared by all threads and kept
  between calls, sessions of single threads hold maps that others supersede, and
  a lookup inside a session borrows the session's reference.  No session or call
  may lose its map, every reference has an owner, lookups see replaced files,
  sessions do not change under the caller.

* file replacement: a call can fail and the system can crash between any two of
  write, `fchmod`, `fdatasync`, `close` and `rename`.  The name must show the old
  or the complete new database at any time, also after the crash, and a failure
  must not leave temporary files.
* builder: text files change while they are parsed, times are whole seconds, and
  several builders may run at once.  A database that looks newer than its text
  must be made from that text, and every database must catch up in the end.
* textual format: reads and writes are cut anywhere.  What is parsed must not
  depend on it, and a dump must make the same database again.
* name service entries: parsers that write into the text they walk over, two
  size checks in two programs that must agree, buffers that are too small,
  netgroups that include each other.  The name service must answer as a scan of
  the file would.

The hazards, line by line, are in `PROJECT.json` under `hazards`.

## 2. Modules

| module | models |
|---|---|
| `McdbMmap` | `struct mcdb_mmap` and the two routines that change the chain |
| `McdbThreads` | the threads that run them as the comment above `mcdb_mmap_create` documents: one maintenance thread, querying threads |
| `McdbMmapProofs` | lemmas on the chain of maps, for the proofs about `McdbThreads` and `NssMcdb` |
| `McdbThreadsProofs` | theorems about `McdbThreads` |
| `McdbFormat` | the layout of a file |
| `McdbWindow` | `mcdb_mmap_upsize`: window and file size of the writer |
| `McdbHplist` | `mcdb_hplist_alloc` and the lists of hashes |
| `McdbMake` | the writer, made of the two modules above |
| `McdbMakeProofs` | theorems about it |
| `McdbFind` | the reader |
| `McdbRoundTrip` | writer and reader of one file |
| `McdbRoundTripProofs` | theorems about them |
| `NssMcdb` | `nss_mcdb.c` on top of `McdbMmap`: shared pointer, sessions, lookups |
| `NssMcdbOverlap` | the steps of it that exist only when calls of several threads overlap |
| `NssMcdbProofs`, `NssMcdbFreshProofs` | theorems about `NssMcdb` |
| `McdbStore` | abstract: what installing a database under a name promises |
| `McdbMakefn` | `mcdb_makefn.c` on a file system that crashes; implements `McdbStore` |
| `NssMcdbctl` | `nss_mcdbctl` and `nss_mcdb_make_dbfile` on top of `McdbMakefn` |
| `NssMcdbctlProofs` | theorems about it, with the refinement of `McdbStore` |
| `McdbMakefmt` | the reader of the textual format |
| `McdbCtl` | `mcdbctl`: dump, make (through `McdbMakefmt`), uniq, get; the format as a grammar |
| `McdbCtlProofs` | theorems about both |
| `NssText` | the parsers of the files of `/etc` |
| `NssRecord` | serialising, storing and decoding entries |
| `NssGroupmem` | the groups of a user, for `getgrouplist()` and `initgroups()` |
| `NssNetgroup` | netgroups: parsing, resolving, queries |
| `NssEntries` | a database from its text to the answers of `get*ent()` and `get*by*()` |
| `NssFlatFile` | what the files say, read as their formats are documented; the properties |
| `MCMcdbThreads`, `MCMcdbMake`, `MCMcdbRoundTrip`, `MCNssMcdb`, `MCNssMcdbctl`, `MCMcdbCtl`, `MCNssEntries` | small instances |

### The map chain

Structs are numbered in the order in which they are created, and the fields of
`struct mcdb_mmap` are functions of that number.  The word `refcnt` is split
into its count and the two bits `reopening` (0x80000000) and `newer`
(0x40000000).  `mem` says whether the struct is on the heap.  What happens
between `plasma_spin_lock_acquire` and `_release` is one step; what happens
outside is a step of its own:

* `FindStartSuperseded` then `MoveSelf` are `mcdb_thread_refresh_self`, called
  at the start of every query: read `map->next`, then lock and register on the
  tail of the chain.
* `RefreshNeeded`, then `ReopenFindsNext`, `ReopenBusy` or `ReopenBegin`
  (first lock), `ReopenMaps` or `ReopenFails` (open, fstat, mmap), 
  `ReopenPublishes` (no lock) and `ReopenMoves` (second lock) are
  `mcdb_mmap_refresh_threadsafe` and `mcdb_mmap_reopen_threadsafe`.
* `RegisterIncr`, `RegisterDecr` and `Release` are
  `mcdb_mmap_thread_registration`: `Release` unlinks a map whose word became
  zero and the unused maps after it; `FreeUnlinked` frees them one at a time
  after the lock is gone.
* `FileUpdate` is external: a new file is renamed over the old one.  With
  `SameSecond` it may keep `st_mtime`.

A thread calls nothing else before it has freed what it unlinked (`Goes`
requires `todo[t] = {}`), because that loop ends
`mcdb_mmap_thread_registration`.

### Writer and reader

Positions and lengths are in bytes, as in the code; contents are not modelled: a
key is a short sequence of characters, data is its length, a record is known by
its position.  `hash_fn` is any function that mixes one character at a time
(`Mix`), the width of `uint32_t` is `W`, and 256 slots are `2^SLOT_BITS`.

`McdbWindow` has the arithmetic of `mcdb_mmap_upsize` and its three ways of
failing.  `McdbHplist` has the arrays of list nodes: an array has one node per
slot, the slot that is full takes its node as the new head, and the others keep
theirs waiting on `pend`; `mcdb_make_destroy` frees the arrays through slot 0.
Fields nobody has set hold `WILD`, a pointer to anywhere.  `McdbMake` follows the
calls; `mcdb_make_finish` is padding (`FinishPad`), one table per step
(`FinishSlot`) and commit (`FinishCommit`), with every system call able to fail.
The caller keeps to the contract of the comments: the announced lengths, and
nothing but `mcdb_make_destroy` after an error.

`McdbFind` searches as `mcdb_findtagnext` does: from `kpos`, over at most
`hslots - loop` entries, until an empty one or a match of hash, length and
key.  `Passed` is the number of entries a call goes over, so that a call is one
step.  `IterRecord`, `IterPadding` and `IterEnd` are `mcdb_iter`.

### The name service

`NssMcdb` is one database of `nss_mcdb.c`.  Its pointers are `Shared`
(`_nss_mcdb_mmap[dbtype]`), `Sess(t)` (the thread-local `_nss_mcdb_st[dbtype].map`)
and `Local(t)` (`m.map` in `nss_mcdb_get_generic`).  `Get`, `GetInSession`,
`OpenSession`, `Getent`, `Getentstart` and `Endent` are the entry points;
`SharedClosed` to `Register` are `_nss_mcdb_db_getshared`, with
`mcdb_mmap_reopen_threadsafe` on the shared pointer step by step; the `Query`
actions are `mcdb_thread_refresh_self` at the start of a search.  `Register`
assigns to the caller's pointer what `mcdb_mmap_thread_registration` returns, which
is the map it found and not the one it counted.  Decoding is left out: while a
thread is `using`, it reads its map.

`Serial` says whether calls of different threads exclude each other.  `Nested`
says which lookups are made inside sessions: none, those while the session's map
is the newest, or any.

### File replacement and the builder

A file is a value: its data (a complete database or `Partial`), modification time,
permissions and whether `fdatasync` was called on it.  `dir` is what the names
show, `disk` what they would show after a crash.  The file system writes
directories and attributes to the disk late and in order (`WriteBackMeta`), and
data for certain only on `fdatasync`: `Crash` puts `disk` back and lets the data of
files that were not synced be lost.  `FinishChmod`, `FinishSync`, `FinishClose` and
`FinishRename` are the four calls of `mcdb_makefn_finish`; `fd` keeps the code's
values -1 (nothing to remove) and -2 (closed, not yet renamed).

`McdbStore` knows `shown` and `kept`, what names show now and after a crash, and
installs, persists and crashes.  The refinement maps `shown` to the data in `dir`
and `kept` to what is certain of `disk`; `Partial` is no value of either, so that the
refinement fails as soon as a name shows, or could show after a crash, an
incomplete database.

`NssMcdbctl` is the loop of `main`: `StatInput`, `SkipUpToDate` or `StartMake`, then
`nss_mcdb_make_dbfile` (`OpenInput`, `ReadNsswitch`, `Parse`, then `RestatSame`,
`RestatChanged` or `RestatFails`, which are the `stat` at its end), then `Install` and
`CleanupBuilt`.  A database is known by the versions of the text and of
`nsswitch.conf` it was made from.  Several makers run at once; administrators
replace and remove files; time passes in seconds.

The text files are replaced as the comment in `nss_mcdb_make_dbfile` asks: a new file
is written and renamed over the old one.  `rename` leaves the time of writing, so
`ReplaceText` gives the text a time anywhere between 0 and now.  The history
variable `unseen` has, for each name, the second in which its text was last renamed,
or in which a database was finished whose second `stat` failed although the text had
changed: a database that is no younger than that may have been made from an older
text and still look newer (`Overlooked`).

### The textual format and mcdbctl

`McdbMakefmt` keeps the buffer, the position in it and the loops of
`mcdb_bufread_*`: each `read` is a step and returns any number of bytes that fits,
the end of the file or an error.  A mapped file is a buffer that has everything.
The constants `BufSz`, `MoveMin`, `PreMax`, `NumMax` are 65536, 128, 23 and 214748363 in
the code.  `McdbCtl` has the batches of `mcdbctl_dump` with the counts the code
keeps (`iovcnt`, `iovlen`), `writev_loop` with any partial write, and `uniq`.  Records
of one key are found in the order of the slot's list nodes, newest node first
(`Before`).  `Meaning(t, limit)` is the format as a grammar on whole texts: the records that `t`
means if no preamble is longer than `limit`, or nothing.  `mcdb_bufread_number` is the
first position at which the loop of the code does not go on (`GoesOn`), and the number
that the digits up to it amount to.

### Entries of the name service

`NssText` walks over characters as the code does, with the position and, where the
code has overwritten the delimiter by NUL, the fact that it did (`cut`).  `strtol` and
`inet_pton` are external.  `NssRecord` computes the same sums as the code: header
sizes, NUL-terminated strings, eight bytes for each pointer and seven for
alignment; a buffer has a size and an address modulo eight.  The numbers of a shadow
entry are cut to 32 bits when they are stored, and all but the last, `sp_flag`, get
their sign back when they are decoded; `IntMax`, `UintMax` and `UlongMax` stand for
`INT_MAX`, `UINT_MAX` and `ULONG_MAX`, in the ratios that two's complement gives
(`WidthAssumption`).  In `NssGroupmem` a
node of `GidlistSz` gids is full as in the code (4).  In `NssNetgroup` the table of
ids has `NgRows` rows of `NgCols` places (64 and 64).  `NssEntries` writes a text
fragment by fragment, makes the database, and calls `set*ent()` and `get*ent()`
with buffers of several sizes.

## 3. Runs

Passing:

| run | shows |
|---|---|
| `ThreadsSafe` | `RegisteredStaysMapped`, `RefcntExact`, `NoLeak`, `OneReopener`, `DestroyReleasesAll`, `MovesForward`, and the invariant `IInv` used by the proofs |
| `ThreadsLive` | under fairness, registered threads reach the latest content (`EventuallyFresh`) and old maps are freed (`EventuallyReclaimed`) |
| `RoundTrip` | on every file of up to three records: searches are exact (`FindExact`), `m->loop` says whether the last one succeeded (`LoopMeansFound`), iteration is exact and in order (`IterExact`), both sides agree on the entry width (`StrideAgrees`), `mcdb_numrecs` and `mcdb_validate_slots` agree with it (`FileValid`) |
| `MakeAdds` | writes stay inside window and file (`WritesInside`), lists hold what was added (`ListsExact`), arrays are freed once (`FreedOnce`), with one system call failing anywhere |
| `MakeLimits` | `count << 1` cannot overflow once `mcdb_make_finish` accepted the number of records (`TablesHalfEmpty`) |
| `Nss` | calls of three threads, one at a time: maps in use stay mapped (`UsedStaysMapped`), references have owners (`RefsAccounted`), lookups see the file as it was at the call or later (`GetIsFresh`), sessions stay on their map (`SessionConsistent`), and one map is left when nobody uses the database (`OneMapAtRest`) |
| `Build` | `nss_mcdbctl` with faults and crashes implements `McdbStore` (`Implements`); a database newer than its text is made from it, unless the text was renamed late or the second `stat` failed (`SkipMeansCurrent`); a run leaves no temporary file behind (`NoLitter`); databases catch up, with the same exceptions (`EventuallyCurrent`) |
| `NssEntries` | files are parsed as they are documented (`ParseExact`); what was stored is decoded whole, into any buffer of the documented size, but for an empty `sp_flag` (`DecodeExact`); `get*ent()` returns entries in order and once (`EnumExact`); lookups answer as a scan of the file (`LookupsAgree`) |
| `Text` | texts are read as what they mean, however reads cut them (`FmtExact`); what dump wrote, make turns into the same database (`DumpWhole`); uniq keeps one record per key, the right one (`UniqExact`) |

Violations, each a disagreement between the code and what the repository says of
it (quoted in `PROJECT.json`):

| run | what happens |
|---|---|
| `NssOverlap` | between the publication of a new map and the move of the shared pointer, another call registers: it is counted on the new map and goes on with the old one |
| `MakeOverflow` | nodes that wait on a slot are taken without the check of the number of records; filled slot after slot, the sum of the counts wraps and `mcdb_make_finish` accepts it |
| `GroupList` | the fifth group of a user goes into a copy of the user's node that is linked nowhere; `getgrouplist()` never knows of it |

What `Nss` shows therefore holds for programs whose threads call the name service
one at a time (`Serial`) and that make lookups in a session only while its map is
the newest (`Nested = "current"`).

### Met on the way

Behaviours that are not runs of their own.  Of the library and the name service's maps:

* A failed reopen leaves bit 0x80000000 of `refcnt` set (`mcdb.c:659-670`): the file
  is never reopened again and the map never released.  With `MaxFail = 1` in
  `ThreadsLive.cfg` TLC finds `EventuallyFresh` violated.
* When the first `mcdb_mmap_upsize` fails, `mcdb_make_start` calls `mcdb_make_destroy`,
  which follows pointers of list nodes that were never set (`mcdb_make.c:461-464`).
  With `StartFailing = TRUE` in `MakeAdds.cfg` TLC finds `FreedOnce` violated.
* `mcdb_make_addrevert` after `mcdb_make_addend` takes back the position and leaves the
  hash entry, against the comment at `mcdb_make.c:407`.  With `RevertPrior = TRUE` in
  `RoundTrip.cfg` TLC finds `FileValid` and `FindExact` violated.
* A lookup inside a session whose map was superseded moves on to the new map and
  gives back the session's reference (`nss_mcdb.c:346`); the session reads unmapped
  memory.  With `Nested = "ever"` in `Nss.cfg` TLC finds `RefsAccounted` and
  `UsedStaysMapped` violated.
* A thread that copies the maintenance thread's pointer and registers later, as the
  usage comment above `mcdb_mmap_create` allows, may find the map superseded and
  freed in between.  `Join` is one step in the model: the program must protect it.

* An update within the same second as the one mapped is never noticed
  (`mcdb_mmap_refresh_check` compares whole seconds).
* When `stat` fails, `mcdb_mmap_refresh_check` says that nothing has changed
  (`mcdb.c:444-449`) and the caller goes on with the old map.  `SharedStatFails` is this
  step of the name service, and counts as a failure for `GetIsFresh`.  In `McdbThreads`
  a `stat` that fails is a refresh that is not made; fairness assumes that not every
  one fails.
* The records of one key come out in the order of adding only while the slot's
  records fit one list node, because tables are filled from the newest node on.
  `FindExact` therefore says nothing of order.
* `mcdb_mmap_reopen_threadsafe` copies `allocated` with the rest of the struct, so
  structs it allocated are not freed when the first one was the caller's.
  `ThreadsSafe` has `Allocated = FALSE`; with `TRUE` TLC finds
  `DestroyReleasesAll` violated.
* `q += (u<<3)` in `mcdb_make_finish` shifts 32 bits: from 2^29 entries of one
  slot's table on (2^28 when entries have 16 bytes), entries are written over
  each other.  With `Records <- MCOneRecord`, `Queries <- MCOneQuery` and
  `MaxRecs = 17`, `HPLIST = 8` in `RoundTrip.cfg` (`W = 8`: the shift overflows from 2^5 on)
  TLC finds `FindExact` violated.

Of the tools:

* The records of one key are found in search order, which is not the order of
  adding once a slot has more than `MCDB_HPLIST` records; `mcdbctl get` with a number
  and `mcdbctl uniq` first and last follow it.  `UniqExact` says so.
* `mcdbctl_dump` leaves the digits of the lengths out of `iovlen`.  When `writev` stops
  exactly `iovlen` bytes into the batch, `writev_loop` returns true with the rest
  unwritten, and the output lacks it without an error.  The ghost `early` marks
  these behaviours; without it TLC finds `DumpWhole` violated.
* Preambles of more than 23 characters (leading zeros) are accepted or refused
  depending on how much of them is in the buffer.  `FmtExact` therefore names two
  limits: what is accepted means what was made of it, and what is refused means
  nothing if preambles have at most `PreMax` characters.  One text of `Text` has a
  longer one, of which the reads decide.
* An empty input file is a read error when mapped and a format error from a pipe.

Of the name service:

* `nsswitch.conf` is mapped once per run and kept: a run that rebuilds a later
  database after `nsswitch.conf` was replaced stores the old entry under a newer
  time.  TLC finds `SkipMeansNsswitchCurrent` (in `NssMcdbctl`) violated.
* `main` skips a database that is newer than its text (`nss_mcdbctl.c:222`), and takes
  that to mean that it was made from the text.  There are two ways in which it is not,
  and stays so until the text is replaced again:
  * the text was written, then a build of the old text was finished, then the new text
    was renamed to its place (`nss_mcdb_make.c:171` asks for these two steps);
  * the text was replaced during the parse, and the `stat` that looks for that failed
    (`nss_mcdb_make.c:233-234`, "proceed in event stat() fails since file parse
    succeeded").

  `SkipMeansUpToDate` is `SkipMeansCurrent` without these exceptions.  In its place in
  `Build.cfg` TLC finds it violated by a late rename; with texts that take their name
  in the second in which they were written (`written \in now .. now` in
  `ReplaceText`) by a failing `stat`; and with `MaxFaults = 0` as well, not at all.
* A shadow line with an empty flag is parsed as `~0`, which is `ULONG_MAX`
  (`nss_mcdb_authn_make.c:204`), stored as a `uint32_t` (line 75), and decoded without
  the cast to `int32_t` that the other fields have "to preserve -1"
  (`nss_mcdb_authn.c:106-114`): where `long` has 64 bits, `getspnam()` and `getspent()`
  return 4294967295 instead of `ULONG_MAX`.  `Returned` (in `NssFlatFile`) says so; when
  it leaves the flag as it was, TLC finds `DecodeExact`, `EnumExact` and
  `LookupsAgree` violated by the line `a:x:1::::::`.
* A `#` that follows a word without a blank is refused or misread (`2#2` as two
  words).  `ParseExact` leaves these texts out.
* A services line whose port has no digits (`/tcp`) is accepted as port 0.
* A group with an empty member (`a,,b`) is stored, and the decoder's scan over its
  members splits them wrongly; `DecodeExact` and `LookupsAgree` leave it out
  (`WellFormed`).
* A group file in which no group has members makes `group_flush` read through a
  null pointer, as its table is only made for the first member (`"crash"` in
  `NssGroupmem`).
* `get*ent()` moves past a record before it decodes it: after `ERANGE` the entry is
  skipped, where callers expect it again with a larger buffer.  `EnumExact` asks
  for completeness only without `ERANGE`; `getnetgrent()` does return the entry.
* `grouplist_decode`, when the list fits only because the caller's gid is in it, reads
  the last gids of the list and not the first again.
* `netgroup_datastr_uniq_id` reports an id as known when its table cannot grow; a
  triple is then left out.  Failing `malloc` is not modelled there.

### Bounds, and why they are enough

* Threads: one maintenance and two querying threads.  The chain operations
  involve a thread that releases, one that holds an older and one that holds a
  newer map; three threads give all of these at once.  Four maps and four
  versions (`MaxMaps`, `MaxVersion`) let a release pop more than one map in the
  middle of a chain.  The proofs have no such bounds.  Querying threads are
  interchangeable in `ThreadsSafe` (symmetry); the liveness runs use none.
* Files: `W = 8` and a header of 32 bytes make 2^8 the size at which entries
  widen, and three records with data of 61 bytes cross it, in all orders; with
  data of 58 bytes only the hash tables do, where the file size alone would give
  the wrong width.
  Two slots; three keys of which two have the same hash and a home in the last
  place of tables of 2, 4 and 6 entries, so that searches collide and wrap.
* Window: pages of 32, windows of 64 and blocks of 128 bytes; record lengths
  below a window, above it, and above the limit; the data comes in pieces of
  at most `ChunkSz` bytes.  `MMAP_SZ` is a multiple of the page size and
  `BLOCK_SZ` at least as large, as in the code.
* Lists: nodes of one entry (`HPLIST = 1`) and four slots: each second record of
  a slot changes its head, and nodes wait on all other slots.
* `MakeLimits` has `W = 5`: 16 records exceed `INT_MAX`.
* `MaxFail` bounds failing system calls; one is enough for every error path,
  since only `mcdb_make_destroy` follows.

* Name service: three threads, so that one has a session, one refreshes and one
  looks up; three maps for three versions, so that the bound on maps is never what
  stops a reopen; one failing `stat`, open or reopen.  Threads are interchangeable
  (symmetry).  The two violations need two threads.

* `MakeOverflow`: two slots, lists of seven, `W = 5`.  The constraint `MCSlotBySlot`
  keeps to the order slot 0, then slot 1; the states it leaves out are those of
  other orders of adding.
* `Build`: one database and two makers, two replaced files, two seconds, one fault
  (a failing call or a crash).  Texts are written at any second up to the one in
  which they are renamed.  What `main` keeps for the next database of `fdb[]` is
  forgotten after the last one (`Kept`).  Two makers give every interleaving of one
  that reads an old text with one that reads a new one; two edits let a text change
  both before and during a build, or be removed and come back.
* `Text`: a buffer of nine bytes is smaller than the records, so that preamble, key,
  arrow, data and newline all lie across its end; numbers above 19 are too
  large.  Databases have up to three records made of the bytes that the format
  itself uses, one of them of two-digit length; `HpList = 2` gives more than one
  node.  Batches end by their number of iovecs and by their bytes.  The texts
  are a good one, cut everywhere and with every byte changed, and some with leading
  zeros, numbers too large and bytes behind the end.
* `NssEntries`: five fragments per file, which make up to two entries or the broken
  forms of one; two aliases or members at most, so that the third is one too
  many; buffers of the documented size at all alignments, and smaller and
  larger ones.  The limits on an entry's size (`BufMax`) are such that both
  entries that fit and entries that do not are written.  The netgroup table has
  one row of one place, so that it grows at once.  `INT_MAX` is 15, `UINT_MAX` 31 and
  `ULONG_MAX` 1023, so that the three widths differ.  `GroupList` has the code's four
  gids per node.

Deadlock is checked for `Nss`, whose threads call again and again.  It is not
checked elsewhere: the programs modelled end (`destroyed`, `done`, `gone`),
and versions, records and queries are bounded.

### Fairness

`LiveSpec` assumes weak fairness of three things.  `InLibrary(t)`: a thread in a
routine of the library goes on; the spin lock is held for a few instructions
and nothing in the routines waits for another thread.
`FindStartSuperseded(t)`: a registered thread queries again, and every query
starts with `mcdb_thread_refresh_self`; a thread that never queries again keeps
its old map, in the model as in the code.  `RefreshNeeded(t)` for refreshers: the
usage comment has the maintenance thread refresh periodically.  No fairness is
assumed of joins, of leaving, of file updates or of `mcdb_mmap_destroy`.
`ThreadsLive` has no failing reopens: with them the property is false (see "Met on
the way").

`CtlFairSpec` assumes weak fairness of `StartRun(p)` and `Step(p)`: `nss_mcdbctl` is
run again and again, as from cron, and a run goes on; none of its calls waits for
another process.  Faults are bounded (`MaxFaults`), since a call that fails for ever
keeps the database old in the code too.  No fairness is assumed of edits, of the
clock, of writing back or of crashes: also when the clock stands still, times that
are equal make the next run rebuild.  `EventuallyCurrent` leaves out only a database
that is `Overlooked` and that `main` leaves alone, because it is newer than its text
and than `nsswitch.conf`; no later run can do anything about that one.

## 4. Proofs

Each theorem holds for every value of the constants that the assumptions of the
modules allow, and the bounds among them (maps, versions, records, failures) may
be any numbers.  Hypotheses beyond those assumptions are in the table.

| theorem | states | hypothesis |
|---|---|---|
| `McdbThreadsProofs`: `TypeCorrect`, `Mapped`, `Exact`, `Leakless`, `SingleReopener` | `TypeOK`, `RegisteredStaysMapped`, `RefcntExact`, `NoLeak`, `OneReopener` | |
| `McdbThreadsProofs`: `OnlyForward` | the action property `MovesForward` | |
| `McdbThreadsProofs`: `DestroyLeavesNothing` | `DestroyReleasesAll` | `Allocated = FALSE` |
| `NssMcdbProofs`: `NssTypeCorrect`, `ReferencesAccountedFor`, `UsedIsMapped`, `RestingMapsOne`, `SessionsConsistent` | `NssTypeOK`, `RefsAccounted`, `UsedStaysMapped`, `OneMapAtRest`, the action property `SessionConsistent` | `Serial = TRUE`, `Nested # "ever"` |
| `NssMcdbFreshProofs`: `GetsAreFresh` | `GetIsFresh` | the same, and `SameSecond = FALSE` |
| `NssMcdbctlProofs`: `SkippingIsSafe`, `LeavesNoLitter` | `SkipMeansCurrent`, `NoLitter` | |
| `NssMcdbctlProofs`: `CtlImplementsStore` | `Implements`, the refinement of `McdbStore` | |
| `McdbMakeProofs`: `WritesStayInside`, `MakeTypes` | `WritesInside`, `MakeTypeOK` | |
| `McdbMakeProofs`: `FreesOnce` | `FreedOnce` | `StartFailing = FALSE` |
| `McdbMakeProofs`: `ListsAreExact` | `ListsExact` | `RevertPrior = FALSE` |
| `McdbMakeProofs`: `TablesFit` | `TablesHalfEmpty` | `RevertPrior = FALSE`, `MaxRecs =< UINT_MAX` |
| `McdbRoundTripProofs`: `IterationExact`, `WidthsAgree`, `LoopTellsFound` | `IterExact`, `StrideAgrees`, `LoopMeansFound` | |
| `McdbRoundTripProofs`: `SlotsValidate`, `SearchStaysInside`, `TypesKept` | `ValidateSlots` of every finished file, `FindTypeOK`, `TypeOK` | |
| `McdbRoundTripProofs`: `FilesValid` | `FileValid` | `RevertPrior = FALSE`, `MaxRecs =< UINT_MAX` |
| `McdbRoundTripProofs`: `SearchInShortTable` | `FindExact` of each search in a `ShortTable` | the same |
| `McdbRoundTripProofs`: `SearchExact` | `FindExact` | `RevertPrior = FALSE`, `2 * MaxRecs =< 2 ^ (W - 4)` |
| `McdbCtlProofs`: `MakeReadsText`, `DumpComesBack`, `UniqOnePerKey` | `FmtExact`, `DumpWhole`, `UniqExact` | |

The hypotheses are those of the runs, and each is needed: "Met on the way" and
the run `NssOverlap` say what TLC finds without it.  `Nested` may be `"none"` or
`"current"`.  `MaxRecs =< UINT_MAX` says that fewer than 2^32 records are added, which
is what `MakeOverflow` shows to be needed.  A `ShortTable` has no more entries than the
32-bit shift of `mcdb_make_finish` reaches, 2^29 of 8 bytes or 2^28 of 16; beyond that
entries are lost ("Met on the way").  `SearchInShortTable` says that a search in such a
table is exact, however long the tables of other slots are; `SearchExact` asks for at
most 2^27 records, so that no table can be longer.  Only `FreesOnce` needs
`StartFailing = FALSE`: the other proofs about the writer hold as well when the first
`mcdb_mmap_upsize` fails and wild pointers are freed.  The proofs with no hypothesis
in the table, and `FreesOnce`, hold also with `RevertPrior = TRUE`: a hash entry left
behind changes nothing of where bytes go, of what the records are and of which node
is on which list.

Assumptions on the constants that a reader may wonder about: `PowerAssumption`
(`McdbFormat`) says of powers of two what the provers do not know: that `SLOTS` is
positive, `2^W` a multiple of 16, `INT_MAX` a natural number and `UINT_MAX` twice
that and one, and how `2^W`, `2^(W - 3)` and `2^(W - 4)` are related; it follows from
`FormatAssumption`.  `MakeHashAssumption` (`McdbMake`) and
`FindHashAssumption` (`McdbFind`) say that `hash_fn` gives a `uint32_t` on the
characters of the keys added and looked up.  `FmtAssumption` (`McdbMakefmt`) says how
the sizes of the buffer are related in the code (65536, 128, 23): a preamble fits the
buffer and what is moved to the front, and so do the two bytes of the arrow;
`ByteAssumption` that the characters of the format are among the bytes.
`SizesAssumption` (`McdbCtl`) says of the databases dumped that lengths are numbers of
the format and fit a preamble, as `mcdb_make_addbegin` sees to for lengths up to
`INT_MAX - 8`; texts, keys and data are otherwise any sequences of bytes.  TLC evaluates
all assumptions on each run.

None of the properties is inductive.  Every proof rests on an invariant that TLC
checked on the instances of the runs before it was proved, and that the module of
the component defines, in named parts:

* **`IInv`** (`McdbThreads`).  That a registered thread's map is mapped follows only if
  counts are exact; that counts decide correctly what to free needs the shape of
  the chain (releasing map x frees x and what is unused after it, so x must be the
  oldest); and that the oldest is the one to release needs the flag bits.  The
  structs on the chain are an interval `lo .. hi` of numbers, linked in order
  (`ChainShape`); only `lo` is unmarked, and it is in use; threads point into the
  interval, those with the reopening flag at its end until they publish
  (`ThreadsOnChain`); and a struct not published yet is number `hi + 1`
  (`Unpublished`).  Or else `mcdb_mmap_destroy` was called and everybody is gone
  (`AllGone`).  What is reachable along `next` from a map of the interval is the rest
  of the interval (`ReachLinked`), so `Tail` is `hi`, and `Release` of `lo` moves `lo` to
  the first map in use (`DropRefChain`).
* **`OrderInv`** adds that later structs map later contents, which rests on the thread
  that reopens being on a content that is no longer the file's; `OnlyForward` follows
  because a move is along the chain.  **`FlagInv`** and **`HeapInv`** are for
  `mcdb_mmap_destroy`: a superseded map with the reopening flag has a thread about
  to clear it, so when only the maintenance thread is left and it is on the last
  map, nothing keeps an older one.
* **`NssInv`** (`NssMcdb`).  The chain again (`ChainOf`, with the lemmas of
  `McdbMmapProofs`), but what holds maps is pointers: the shared one, one per session
  and one per call (`RefsAccounted`, `CallInv`).  The shared pointer is on the last
  map except between `map->next = next` and the move, and no other call runs then
  (`OneCall`).  `SessionsConsistent` needs `CallInv`: only a search that opens the
  session, or one whose map was superseded, moves a session's pointer.
* **`FreshInv`** adds times: `mtime` tells contents apart, and as long as no open has
  failed a set reopening flag belongs to a call in progress; so a call that does not
  reopen finds the newest map, and `FreshCall` says it at each place of the call.
* **`CtlInv`** (`NssMcdbctl`).  `PlacesInv` and `DescriptorInv` tie the place in the
  builder, the step of `mcdb_makefn_finish` and `fd` together, which gives `NoLitter`;
  `ContentInv` says what the temporary file has been made of, and that it is synced
  before it is renamed; `InstalledInv` says of everything a name shows now or would
  show after a crash that it is complete and, if its time is later than the second in
  which the text was renamed (`unseen`), made from that text (`MadeFrom`).  A text
  cannot be renamed without `unseen` reaching the clock (`TextInv`, `SeesLess`), which
  is why a database made before has no later time; and when the second `stat` fails to
  see a change, `unseen` is raised to the time of the database.  That a text's own time
  is at most `unseen` turns this into `SkipMeansCurrent`.  The refinement
  has one lemma per action: only `FinishRename`, `WriteBackMeta` and `Crash` are
  steps of the store, everything else stutters.
* **`WindowInv`** (`McdbMake`).  What `mcdb_make_addbegin` has reserved and the later
  calls have not used yet still lies inside the window, and the window inside the
  file (`WindowAt`); a record that is given up began inside the window.  The
  arithmetic of rounding is in `RoundsDown`, `RoundsUp` and `NewWindow`.
* **`RoundTripInv`** (`McdbRoundTrip`) has five parts: `WindowInv`; **`RecordsInv`**, that
  records adjoin from the header on and that the bytes of the file below `pos` are
  exactly the records added, also after a record was reverted and written over;
  **`LayoutInv`**, that the tables adjoin from a multiple of 16 on, which decides the
  entry width; **`SearchInv`** and **`IterInv`**, where a search and an iteration are.
  `IterationExact` needs no assumption on the padding: a record header before `Eod`
  is a record's, because all records end before the first table.  `WidthsAgree` uses
  that a multiple of 16 is not `2^W - 1`.  `HashFits` proves, with least
  counterexamples in place of an induction theorem, that the recursion of `Hash` has
  a solution and that it fits.
* **`KeyInv`** and **`CountInv`** (`McdbMake`) are for the sums over the slots.  `hp.h` is a
  hash, so `SlotOf` gives a slot; the counts add up to the number of records
  (`AddUpTo`, partial sums as a witness), and the sizes in the header are those of
  the tables.  `SomeSum` and `OnlySum` show that a sum kept in a `uint32_t` has the value
  it should if that fits, so the comparison of `Total` with `INT_MAX` bounds the
  number of records, each count (`CountAtMost`) and each table (`TableFits`).
* **`ListInv`** (`McdbMake`) is for the lists.  An array is pushed to the front of the
  nodes waiting behind a head, or becomes the head, so the nodes of a slot are not in
  the order of their numbers.  But they have *some* order (`InOrder`): each node before the head is the `next` of the one
  after it and each node from the head on has the one after it as `pend`; the nodes
  behind the head are empty.  Each step keeps it with another order or another head
  (`PendJoins`, `NewHead`, `NewWaits`).  It is kept only because no more than one list is
  full when an array is allocated, namely that of the last record (`OneFull`): a full
  head with a node waiting would be given another node and the one that waits would be
  lost.  `WalkIs` shows, again with least counterexamples, that a walk along pointers
  that descend by some rank exists, so that `next` from the head gives the nodes up to
  it, `pend` the others (`ListIs`, `WaitIs`), and both together each array once
  (`ReleasedIs`).
* **`EntriesInv`** (`McdbMake`) says of the entries, wherever their nodes are, what
  `ListsExact` says of the lists: each slot has one for each record whose hash has
  that slot (`Keeps`).  A new entry is not one of the others because its record begins
  where all records end (`EntryRecorded`, from `RecordsInv`); filling, linking and
  allocating nodes changes no entry.  `ListHolds` then brings in the walk: nodes off the
  list are empty, so the list has all entries, and put together node by node
  (`FlattenIs`) it has each of them once.
* **`ListedInv`** and **`TablesInv`** (`McdbMake`) are for the hash tables.  What is in a
  list is position, hash and length of a record (`EntryOf`); what is in the file
  for a slot is an open table with one entry for each of its records (`TableFor`), at
  its place and nowhere else (`Stored`).  A search needs more than that: no place is
  empty between the home of an entry and where it is (`Probed`).  A table is a fold;
  `TableSteps` shows that it has steps and `TableFills` follows them with a least
  counterexample.  `InsertsFirst` finds the place for one more entry: since a table has
  twice as many places as entries, there is a first empty one from the home on, and the
  32-bit shift reaches it.  `FillsOneMore` keeps `Probed`, because the entry went to that
  place and no other.  `TablesSlot` puts the table into the file behind the others,
  where 32 bits are enough for a position if entries have 8 bytes (`DposIs`).
* **`FindInv`** (`McdbRoundTrip`).  The places from the home of the hash on are all places
  of the table (`PlacesFrom`), and `kpos` goes along them (`KposIs`).  Until a search is
  over it has met no empty place, and it has returned those of the records wanted
  whose entries it has met, each once (`SearchAt`).  When it meets an empty place or
  has seen all of them, none is left (`SearchOver`): by `Probed` the entry of a record
  that is wanted comes before the first empty place.  An entry matches just if its
  record has the key (`MatchesIs`), tag and key being hashed and compared as one
  (`HashJoins`, `SameKey`).

* **`CtlInv`** (`McdbCtl`) has the parts `FmtInv`, `DumpInv` and `UniqInv`, one for each
  command, and `UniqExact`.
  * `FmtInv`: what is in the buffer and in the input is the rest of the text (`Stream`),
    also after `mcdb_bufread_fd` has moved it; a preamble is parsed only when it is
    there as a whole, because `mcdb_bufread_preamble_fill` has seen a colon, or
    `PreMax` bytes (`PreambleInv`); key, arrow and data read so far are those behind
    the colon of the record (`RecordInv`); and, which says the rest, the records read
    followed by what the remaining text means are what the whole text means
    (`MeaningInv`).  The last is an equation for the text without a limit, and a mere
    implication for the limit `PreMax`: beyond it the buffer decides.  `PreambleRecords`
    shows that at most one record begins at a place, since the comma is the first
    character that is no digit, and `BodyOf` what it is.  `Meanings` is a
    recursive function that descends to later positions: `MeaningsAre` shows with a
    least counterexample that there is such a function.
  * `DumpInv`: the bytes written and those waiting in iovecs are the text of the
    records the iterator has passed, and of a key that has been put into the batch
    without its data (`Told`); unless `writev_loop` has returned early.
  * `UniqInv`: the records added are those that stand for the keys seen (`StandsFor`).
    The list nodes give an order in which records are found (`Before`, `OrderExists`), so
    that the first of them stands for each key once (`OneStands`).
  * `DumpComesBack` needs more than the invariant: `AsciiIs`, that decimal digits written
    by `uint32_to_ascii_base10` are read back as the number, and `DumpMeans`, that
    the text of a database means that database, record by record from its end.  The
    rest is `MakeReadsText`.

Stays with TLC:

* Liveness: `EventuallyFresh`, `EventuallyReclaimed`, `EventuallyCurrent`.
* The name service entries: `ParseExact`, `DecodeExact`, `EnumExact`, `LookupsAgree`.  The
  modules are recursive operators over texts, and what they compute for every text
  would need induction over data.

## 5. Not modelled, and why

* `mcdb_make` with `fd == -1` (a mode without a file), the size limits of 32-bit
  builds and the `posix_fallocate` replacement for other C libraries.
* `mcdb_mmap_refresh` for a single thread: it reopens in place.
* `mcdb_read`: a bounds check and a copy.
* Memory ordering inside the lock and of the unlocked publication: `plasma` is
  taken to do what its barriers say.
* Language bindings (`contrib/`): glue to interpreters whose object lifetimes and
  exceptions lie outside of the repository.  What they rely on, `m->loop` and
  iteration, is checked of the library.
* The adapters for AIX and Solaris: they marshal arguments around the calls that
  are modelled.
* The ethers and aliases databases (`nss_mcdb_misc*.c`), which `nss_mcdbctl` has under
  `#if 0`, and the fields that other systems have in `struct passwd`.
* `mcdbctl stats` (a histogram of probe lengths) and the parsing of arguments.
* How a line of `nsswitch.conf` is found and normalised; the file is known by its
  version.
* The hexadecimal conversions of `uint32.c`.
* In `McdbMakefn`: file systems that reorder changes of directories, and temporary
  files that a crash leaves behind.
* Of `nss_mcdb.c`: the exit handler of `_FORTIFY_SOURCE` builds, mutexes that
  fail, and the three databases whose modification time is not checked
  (`_nss_mcdb_stayopen`).
* `nointr.c` and `mcdb_error.c`: retry loops and messages.

## 6. Plan

The library, the tools and the name service's state machines are modelled, and
every safety property the runs check of them is proved.  What is left is the name
service's entries:

1. `NssText`: the parsers as functions of a position instead of recursive operators,
   as `McdbMakefmt` has them, and `ParseExact` by the meaning of the rest of the line.
2. `NssRecord`: that an entry encoded and decoded is the same, and fits the buffer of
   the documented size (`DecodeExact`).
3. `NssEntries`: `EnumExact` and `LookupsAgree`, from the theorems about iteration and
   searches in `McdbRoundTripProofs`.
