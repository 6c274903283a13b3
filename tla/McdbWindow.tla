----------------------------- MODULE McdbWindow -----------------------------
(***************************************************************************)
(* The window through which mcdb_make writes (mcdb_make.c): the file is    *)
(* allocated in large steps, and the part of it that is being written is   *)
(* mapped.  mcdb_mmap_upsize moves the window on when the next write would *)
(* leave it.                                                               *)
(***************************************************************************)
EXTENDS McdbFormat

CONSTANTS PageSz,       \* page size: mmap offsets are multiples of it
          MMAP_SZ,      \* MCDB_MMAP_SZ
          BLOCK_SZ      \* MCDB_BLOCK_SZ

ASSUME WindowAssumption ==
    /\ PageSz \in Nat \ {0} /\ MMAP_SZ \in Nat \ {0} /\ BLOCK_SZ \in Nat \ {0}
    /\ MMAP_SZ % PageSz = 0 /\ BLOCK_SZ >= MMAP_SZ

VARIABLES pos,      \* m->pos: where the next byte goes
          offset,   \* m->offset: where the window starts in the file
          msz,      \* m->msz: its length
          mapped,   \* m->map # MAP_FAILED
          fsz,      \* m->fsz: file size wanted
          osz       \* m->osz: file size allocated

windowVars == <<offset, msz, mapped, fsz, osz>>

\* The members of struct mcdb_make that describe the window are sizes.
WindowTypeOK ==
    /\ pos \in Nat /\ offset \in Nat /\ msz \in Nat /\ fsz \in Nat /\ osz \in Nat
    /\ mapped \in BOOLEAN

\* m->offset + m->msz < end
Outside(end) == offset + msz < end

\* Mutant: the size is taken from pos instead of from its page.
NewMszFromPos(end) ==
    IF MMAP_SZ > end - pos THEN MMAP_SZ ELSE RoundUp(end - pos, PageSz)

\* The new window: from the page of pos, MMAP_SZ long unless more is asked.
NewOffset == RoundDown(pos, PageSz)
NewMsz(end) ==
    IF MMAP_SZ > end - NewOffset THEN MMAP_SZ
    ELSE RoundUp(end - NewOffset, PageSz)

\* The file has to grow; small files grow in smaller steps.
Grows(end)  == fsz < NewOffset + NewMsz(end)
NewFsz(end) == RoundUp(NewOffset + NewMsz(end),
                       IF offset # 0 THEN BLOCK_SZ ELSE MMAP_SZ)

\* mcdb_mmap_upsize(m, end) returns true
Upsize(end) ==
    /\ fsz' = IF Grows(end) THEN NewFsz(end) ELSE fsz
    /\ osz' = IF Grows(end) THEN NewFsz(end) ELSE osz
    /\ offset' = NewOffset
    /\ msz' = NewMsz(end)
    /\ mapped' = TRUE

\* It returns false: posix_fallocate fails (fsz is already raised), msync or
\* munmap fails (the old window stays), or mmap fails (no window is left).
FallocateFails(end) ==
    /\ Grows(end)
    /\ fsz' = NewFsz(end)
    /\ UNCHANGED <<osz, offset, msz, mapped>>

MunmapFails(end) ==
    /\ mapped
    /\ fsz' = IF Grows(end) THEN NewFsz(end) ELSE fsz
    /\ osz' = IF Grows(end) THEN NewFsz(end) ELSE osz
    /\ UNCHANGED <<offset, msz, mapped>>

MmapFails(end) ==
    /\ fsz' = IF Grows(end) THEN NewFsz(end) ELSE fsz
    /\ osz' = IF Grows(end) THEN NewFsz(end) ELSE osz
    /\ mapped' = FALSE
    /\ UNCHANGED <<offset, msz>>

UpsizeFails(end) == FallocateFails(end) \/ MunmapFails(end) \/ MmapFails(end)

\* if (m->offset+m->msz < end && !mcdb_mmap_upsize(m, end, ...)): the two ways
\* to go on, and the way to fail
Reserve(end) ==
    \/ Outside(end) /\ Upsize(end)
    \/ ~Outside(end) /\ UNCHANGED windowVars

ReserveFails(end) == Outside(end) /\ UpsizeFails(end)
=============================================================================
