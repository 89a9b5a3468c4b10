---------------------------- MODULE DiskManager -----------------------------
(***************************************************************************)
(* The disk manager over a database file                                   *)
(* (src/src/storage/disk/disk_manager.cpp).                                *)
(*                                                                         *)
(* Every operation holds db_io_latch_ from start to end and is one step.   *)
(* Offsets and file sizes are counted in pages (BUSTUB_PAGE_SIZE bytes).   *)
(* The statistics (num_writes_, num_deletes_) are left out.  The log file, *)
(* which shares nothing with the pages, is at the end.                     *)
(***************************************************************************)
EXTENDS Integers, FiniteSets, Sequences, Maps

CONSTANTS Pages,
          Values,            \* page contents the callers write
          Zero,              \* a page of null bytes
          Unspecified,       \* a caller's buffer that was not filled
          DEFAULT_DB_IO_SIZE,\* initial capacity of the file
          IntPages,          \* pages in 2^31 bytes: where an int file size wraps
          Faults             \* which system calls may fail

Data == Values \cup {Zero}

ASSUME DiskAssumption ==
    /\ IsFiniteSet(Pages)
    /\ DEFAULT_DB_IO_SIZE \in Nat \ {0} /\ IntPages \in Nat \ {0}
    /\ Faults \subseteq {"resize", "write"}
    /\ Unspecified \notin Data

VARIABLES pages,          \* page -> its slot in the file
          free_slots,
          page_capacity,
          file,           \* the file: a slot's contents, from slot 0 on
          failed,         \* which calls have failed since the file was opened
          ret             \* how the last call returned

vars == <<pages, free_slots, page_capacity, file, failed, ret>>

\* std::filesystem::resize_file
Resized(f, n) == [i \in 0 .. n - 1 |-> IF i \in DOMAIN f THEN f[i] ELSE Zero]

FileSize == Cardinality(DOMAIN file)

\* db_io_ has its badbit set, which nothing clears
bad == "write" \in failed

Void == [call |-> "none"]
Gave(d) == [call |-> "read", data |-> d]

Init ==
    /\ pages = EmptyMap
    /\ free_slots = <<>>
    /\ page_capacity = DEFAULT_DB_IO_SIZE
    /\ file = Resized(EmptyMap, page_capacity + 1)
    /\ failed = {}
    /\ ret = Void

\* GetFileSize returns st_size as an int.  (It returns -1 when stat fails,
\* which a caller cannot tell from the size of a large file.)
GetFileSize == ((FileSize + IntPages) % (2 * IntPages)) - IntPages

-----------------------------------------------------------------------------
(* AllocatePage                                                            *)

NeedsResize == free_slots = <<>> /\ Cardinality(DOMAIN pages) + 1 >= page_capacity

\* Faulty variant: the slot stays on the free list.
AllocatePageNoPop ==
    IF free_slots # <<>>
    THEN [slot |-> free_slots[Len(free_slots)], capacity |-> page_capacity, file |-> file,
          free |-> free_slots]
    ELSE [slot |-> Cardinality(DOMAIN pages), free |-> <<>>,
          capacity |-> IF NeedsResize THEN 2 * page_capacity ELSE page_capacity,
          file |-> IF NeedsResize THEN Resized(file, 2 * page_capacity + 1) ELSE file]

\* The slot AllocatePage returns, with the free list, capacity and file it leaves.
AllocatePage ==
    IF free_slots # <<>>
    THEN [slot |-> free_slots[Len(free_slots)], capacity |-> page_capacity, file |-> file,
          free |-> SubSeq(free_slots, 1, Len(free_slots) - 1)]
    ELSE LET capacity == IF NeedsResize THEN 2 * page_capacity ELSE page_capacity
         IN  [slot |-> Cardinality(DOMAIN pages), capacity |-> capacity, free |-> <<>>,
              file |-> IF NeedsResize THEN Resized(file, capacity + 1) ELSE file]

\* Faulty variant: every access allocates.
SlotForFresh(p) == AllocatePage

\* The slot an access to page p uses: the page's own, or an allocated one.
SlotFor(p) ==
    IF p \in DOMAIN pages
    THEN [slot |-> pages[p], capacity |-> page_capacity, file |-> file, free |-> free_slots]
    ELSE AllocatePage

\* resize_file throws out of the call, after the capacity was doubled.
AllocationThrows(p) ==
    /\ "resize" \in Faults
    /\ p \notin DOMAIN pages /\ NeedsResize
    /\ page_capacity' = 2 * page_capacity
    /\ failed' = failed \cup {"resize"}
    /\ ret' = [call |-> "throw"]
    /\ UNCHANGED <<pages, free_slots, file>>

Allocated(a) == page_capacity' = a.capacity /\ free_slots' = a.free

-----------------------------------------------------------------------------
(* The operations                                                          *)

\* A write past the end of the file extends it.
WritePage(p, d) ==
    \/ AllocationThrows(p)
    \/ LET a == SlotFor(p)
       IN  /\ Allocated(a)
           /\ ret' = [call |-> "write"]
           /\ \/ /\ ~bad
                 /\ pages' = Put(pages, p, a.slot)
                 /\ file' = [Resized(a.file, IF a.slot < Cardinality(DOMAIN a.file)
                                             THEN Cardinality(DOMAIN a.file) ELSE a.slot + 1)
                               EXCEPT ![a.slot] = d]
                 /\ UNCHANGED failed
              \* the write fails, and the caller is not told
              \/ /\ bad \/ "write" \in Faults
                 /\ failed' = failed \cup {"write"}
                 /\ file' = a.file
                 /\ UNCHANGED pages

ReadPage(p) ==
    \/ AllocationThrows(p)
    \/ LET a == SlotFor(p)
       IN  /\ Allocated(a)
           /\ file' = a.file
           /\ UNCHANGED failed
           /\ LET file_size == GetFileSize'
              IN  \/ /\ file_size < 0 \/ a.slot > file_size
                     /\ ret' = Gave(Unspecified)
                     /\ UNCHANGED pages
                  \/ /\ file_size >= 0 /\ a.slot <= file_size
                     /\ pages' = Put(pages, p, a.slot)
                     /\ ret' = Gave(IF bad THEN Unspecified
                                    ELSE IF a.slot \in DOMAIN file' THEN file'[a.slot] ELSE Zero)

DeletePage(p) ==
    /\ IF p \in DOMAIN pages
       THEN /\ free_slots' = Append(free_slots, pages[p])
            /\ pages' = Erase(pages, p)
       ELSE UNCHANGED <<pages, free_slots>>
    /\ ret' = Void
    /\ UNCHANGED <<page_capacity, file, failed>>

\* ShutDown, and a constructor on the same file
Reopen ==
    /\ pages' = EmptyMap
    /\ free_slots' = <<>>
    /\ page_capacity' = DEFAULT_DB_IO_SIZE
    /\ file' = Resized(file, DEFAULT_DB_IO_SIZE + 1)
    /\ failed' = {}
    /\ ret' = Void

Next ==
    \/ \E p \in Pages, d \in Values : WritePage(p, d)
    \/ \E p \in Pages : ReadPage(p) \/ DeletePage(p)
    \/ Reopen

Spec == Init /\ [][Next]_vars

-----------------------------------------------------------------------------
(* Properties                                                              *)

SlotCount == Cardinality(DOMAIN pages) + Len(free_slots)

TypeOK ==
    /\ IsMap(pages, Pages, Nat)
    /\ free_slots \in Seq(Nat) /\ SlotCount <= Cardinality(Pages)
    /\ page_capacity \in Nat
    /\ file \in [0 .. FileSize - 1 -> Data]
    /\ failed \subseteq Faults

\* No two pages share a slot, as long as no write failed: writing one page
\* never changes another.
NoSharedSlot == ~bad => \A p, q \in DOMAIN pages : pages[p] = pages[q] => p = q

\* The slots 0 .. n - 1 that were ever handed out are split between the pages
\* and the free list, each slot once, as long as no write failed.  AllocatePage
\* depends on it: with no free slot it takes pages_.size() to be a new slot.
SlotsPartitioned ==
    ~bad =>
       /\ NoSharedSlot
       /\ \A i, j \in DOMAIN free_slots : free_slots[i] = free_slots[j] => i = j
       /\ \A p \in DOMAIN pages, i \in DOMAIN free_slots : pages[p] # free_slots[i]
       /\ \A p \in DOMAIN pages : pages[p] < SlotCount
       /\ \A i \in DOMAIN free_slots : free_slots[i] < SlotCount

\* The file is grown before a page needs the room: every page lies inside it,
\* so no read runs past its end, as long as resize_file does not fail.
PagesInFile ==
    "resize" \notin failed =>
       /\ FileSize = page_capacity + 1
       /\ \A p \in DOMAIN pages : pages[p] \in DOMAIN file

\* The page map, the free list and the size of the file fit together after any
\* sequence of writes, reads, deletions and reopenings.
SlotsConsistent == TypeOK /\ SlotsPartitioned /\ PagesInFile

\* What a read of page p would give.
Contents(p) == IF p \notin DOMAIN pages THEN Unspecified
               ELSE IF pages[p] \in DOMAIN file THEN file[pages[p]] ELSE Zero

DiskStore == INSTANCE DiskStore WITH store <- [p \in Pages |-> Contents(p)], broken <- bad

\* Callers see a store of pages: allocation, reuse of slots and growth of the
\* file never show, and a page reads back as it was last written, as long as
\* no write has failed.
ImplementsDiskStore == DiskStore!Spec

-----------------------------------------------------------------------------
(* The log (WriteLog and ReadLog).  It is opened for appending; a write    *)
(* that fails leaves the stream bad until the file is opened again, and    *)
(* its caller is not told.                                                 *)

CONSTANTS Buffers,      \* the addresses of the log manager's buffers
          Bytes, Null,  \* what a log holds; a null byte
          MaxLog,       \* bound on the bytes handed to WriteLog
          NoBuffer

VARIABLES log,          \* the bytes of the file
          buffer_used, flush_log, log_bad,
          handed,       \* the bytes callers have handed over since the log was opened good
          log_ret

log_vars == <<log, buffer_used, flush_log, log_bad, handed, log_ret>>

LogVoid == [call |-> "none"]

LogInit ==
    /\ log = <<>> /\ handed = <<>>
    /\ buffer_used = NoBuffer
    /\ flush_log = FALSE /\ log_bad = FALSE
    /\ log_ret = LogVoid

\* The assertion enforces that the caller swaps its two buffers, an empty one
\* included.  A failed write returns with flush_log_ still set.
WriteLog(buffer, data) ==
    /\ buffer # buffer_used /\ Len(handed) + Len(data) <= MaxLog
    /\ buffer_used' = buffer
    /\ handed' = handed \o data
    /\ log_ret' = LogVoid
    /\ IF data = <<>> THEN UNCHANGED <<log, flush_log, log_bad>>
       ELSE \/ /\ ~log_bad
               /\ log' = log \o data
               /\ flush_log' = FALSE
               /\ UNCHANGED log_bad
            \/ /\ log_bad' = TRUE /\ flush_log' = TRUE
               /\ UNCHANGED log

\* Past the end of the log the caller's buffer is cleared.
ReadLog(size, offset) ==
    LET end == offset + size
        read == SubSeq(log, offset + 1, IF end < Len(log) THEN end ELSE Len(log))
    IN /\ log_ret' = IF offset >= Len(log) \/ log_bad THEN [call |-> "read", ok |-> FALSE]
                     ELSE [call |-> "read", ok |-> TRUE, offset |-> offset,
                           data |-> read \o [i \in 1 .. size - Len(read) |-> Null]]
       /\ UNCHANGED <<log, buffer_used, flush_log, log_bad, handed>>

\* A new disk manager on the same file
ReopenLog ==
    /\ buffer_used' = NoBuffer
    /\ flush_log' = FALSE /\ log_bad' = FALSE
    /\ handed' = log
    /\ log_ret' = LogVoid
    /\ UNCHANGED log

LogNext ==
    \/ \E b \in Buffers, n \in 0 .. 2 : \E data \in [1 .. n -> Bytes] : WriteLog(b, data)
    \/ \E size \in 1 .. 3, offset \in 0 .. MaxLog : ReadLog(size, offset)
    \/ ReopenLog

\* While flush_log_ is clear, every byte that was handed over is in the file,
\* once and in order; the log only ever grows; and a read that succeeds gives
\* the bytes from its offset on, followed by nulls only where the log ends.
LogKeepsWrites ==
    /\ [](~flush_log => log = handed)
    /\ [][Len(log) <= Len(log') /\ SubSeq(log', 1, Len(log)) = log]_log_vars
    /\ [](log_ret.call = "read" /\ log_ret.ok =>
            /\ ~log_bad
            /\ \A i \in DOMAIN log_ret.data :
                 log_ret.data[i] = IF log_ret.offset + i \in DOMAIN log
                                   THEN handed[log_ret.offset + i] ELSE Null)

=============================================================================
