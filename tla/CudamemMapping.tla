--------------------------- MODULE CudamemMapping ---------------------------
(***************************************************************************)
(* The registry of GPU buffers allocated elsewhere, cudamem_mapping.h, on  *)
(* the dma-buf import of dmabuf.h.  hipmem_mapping.h is the same code      *)
(* renamed, with chunks of one page.                                       *)
(*                                                                         *)
(* The device's address space is cut into chunks.  A chunk is imported     *)
(* when the first registration that touches it comes, counted in rc, and   *)
(* detached when the last one goes.  The loops over chunks run one chunk   *)
(* per action; calls do not overlap.                                       *)
(***************************************************************************)
EXTENDS Integers, Sequences, FiniteSets, SequencesExt

CONSTANTS
    Gran,           \* config->alloc_granularity
    NChunks,        \* lut_capacity
    Ranges,         \* [vaddr, size] callers register
    Fds,            \* file descriptors the process may have open for dma-bufs
    MaxRegistrations \* bound: registrations at a time

ASSUME MappingAssumption ==
    /\ Gran \in Nat \ {0} /\ NChunks \in Nat \ {0}
    /\ Ranges \subseteq [vaddr : Nat \ {0}, size : Nat \ {0}]
    /\ Fds \subseteq Nat \ {0} /\ IsFiniteSet(Fds)
    /\ MaxRegistrations \in Nat

VARIABLES
    up,         \* the registry is initialised
    rc,         \* lut_meta[chunk].rc
    attach,     \* lut_meta[chunk].attach: the descriptor of its dma-buf
    phys,       \* lut_phys[chunk]
    list,       \* registry->list
    fds,        \* external: dma-buf descriptors that are open
    op,         \* the call under way, or "idle"
    reg,        \* the registration it works on
    cur, end    \* the chunk its loop is at, and the one behind the last

lutVars == <<rc, attach, phys>>
vars == <<up, lutVars, list, fds, op, reg, cur, end>>

Chunks == 0 .. NChunks - 1
None == 0
NoReg == [vaddr |-> 0, size |-> 0]

First(r) == r.vaddr \div Gran
Count(r) == ((r.vaddr % Gran) + r.size + Gran - 1) \div Gran
Behind(r) == First(r) + Count(r)

Init ==
    /\ up = FALSE
    /\ rc = [c \in Chunks |-> 0]
    /\ attach = [c \in Chunks |-> None]
    /\ phys = [c \in Chunks |-> 0]
    /\ list = <<>>
    /\ fds = {}
    /\ op = "idle"
    /\ reg = NoReg
    /\ cur = 0 /\ end = 0

\* A failing mmap leaves the registry down.  The tables are fresh, zeroed
\* memory; term has unmapped those of an earlier life.
RegistryInit ==
    /\ ~up /\ op = "idle"
    /\ up' = TRUE
    /\ rc' = [c \in Chunks |-> 0]
    /\ attach' = [c \in Chunks |-> None]
    /\ phys' = [c \in Chunks |-> 0]
    /\ list' = <<>>
    /\ UNCHANGED <<fds, op, reg, cur, end>>

-----------------------------------------------------------------------------
(***************************************************************************)
(* Importing a chunk.  The address the driver maps it to is new with every *)
(* attachment, aligned to the chunk and never 0.                           *)
(***************************************************************************)
Iova(fd, c) == (fd * NChunks + c + 1) * Gran

LowestFree == CHOOSE f \in Fds \ fds : \A g \in Fds \ fds : f <= g

\* dmabuf_detach: if /dev/udmabuf cannot be opened the descriptor stays open.
Detached(fd) == {fds \ {fd}, fds}

ChunkPopulate(c) ==
    /\ fds # Fds
    /\ fds' = fds \cup {LowestFree}
    /\ attach' = [attach EXCEPT ![c] = LowestFree]
    /\ phys' = [phys EXCEPT ![c] = Iova(LowestFree, c)]

\* No memory, no handle, no attachment: the descriptor is closed again.  A
\* table that is short or not contiguous is detached, which may fail itself.
ChunkPopulateFails ==
    /\ \/ UNCHANGED fds
       \/ fds # Fds /\ \E left \in {fds, fds \cup {LowestFree}} : fds' = left
    /\ UNCHANGED <<attach, phys>>

-----------------------------------------------------------------------------
(***************************************************************************)
(* cudamem_mapping_add.                                                    *)
(***************************************************************************)
\* Mutant of AddStart: the capacity check counts the first chunk only.
AddStartUnchecked(r) ==
    /\ up /\ op = "idle"
    /\ Len(list) < MaxRegistrations
    /\ First(r) < NChunks
    /\ op' = "add"
    /\ reg' = r
    /\ cur' = First(r) /\ end' = Behind(r)
    /\ UNCHANGED <<up, lutVars, list, fds>>

AddStart(r) ==
    /\ up /\ op = "idle"
    /\ Len(list) < MaxRegistrations
    /\ Behind(r) <= NChunks
    /\ op' = "add"
    /\ reg' = r
    /\ cur' = First(r) /\ end' = Behind(r)
    /\ UNCHANGED <<up, lutVars, list, fds>>

AddShared ==
    /\ op = "add" /\ cur < end
    /\ rc[cur] > 0
    /\ rc' = [rc EXCEPT ![cur] = @ + 1]
    /\ cur' = cur + 1
    /\ UNCHANGED <<up, attach, phys, list, fds, op, reg, end>>

AddPopulated ==
    /\ op = "add" /\ cur < end
    /\ rc[cur] = 0
    /\ ChunkPopulate(cur)
    /\ rc' = [rc EXCEPT ![cur] = 1]
    /\ cur' = cur + 1
    /\ UNCHANGED <<up, list, op, reg, end>>

\* Mutant of AddFailed: the unwinding covers the whole range.
AddFailedUnwindsAll ==
    /\ op = "add" /\ cur < end
    /\ rc[cur] = 0
    /\ ChunkPopulateFails
    /\ op' = "unwind"
    /\ cur' = First(reg)
    /\ UNCHANGED <<up, rc, list, reg, end>>

AddFailed ==
    /\ op = "add" /\ cur < end
    /\ rc[cur] = 0
    /\ ChunkPopulateFails
    /\ op' = "unwind"
    /\ cur' = First(reg) /\ end' = cur
    /\ UNCHANGED <<up, rc, list, reg>>

AddDone ==
    /\ op = "add" /\ cur = end
    /\ list' = <<reg>> \o list
    /\ op' = "idle"
    /\ UNCHANGED <<up, lutVars, fds, reg, cur, end>>

-----------------------------------------------------------------------------
(***************************************************************************)
(* cudamem_mapping_chunk_deref, the loop that unwinds a failed add and     *)
(* ends remove and clear.                                                  *)
(***************************************************************************)
Dereferencing == op \in {"unwind", "remove", "clear", "term"} /\ cur < end

\* A chunk that nobody counts would be skipped.
DerefShared ==
    /\ Dereferencing
    /\ rc[cur] # 1
    /\ rc' = [rc EXCEPT ![cur] = IF @ = 0 THEN 0 ELSE @ - 1]
    /\ cur' = cur + 1
    /\ UNCHANGED <<up, attach, phys, list, fds, op, reg, end>>

\* Mutant of DerefLast: the translation outlives the attachment.
DerefLastKeepsPhys ==
    /\ Dereferencing
    /\ rc[cur] = 1
    /\ rc' = [rc EXCEPT ![cur] = 0]
    /\ \E left \in Detached(attach[cur]) : fds' = left
    /\ attach' = [attach EXCEPT ![cur] = None]
    /\ cur' = cur + 1
    /\ UNCHANGED <<up, phys, list, op, reg, end>>

DerefLast ==
    /\ Dereferencing
    /\ rc[cur] = 1
    /\ rc' = [rc EXCEPT ![cur] = 0]
    /\ \E left \in Detached(attach[cur]) : fds' = left
    /\ attach' = [attach EXCEPT ![cur] = None]
    /\ phys' = [phys EXCEPT ![cur] = 0]
    /\ cur' = cur + 1
    /\ UNCHANGED <<up, list, op, reg, end>>

UnwindDone ==
    /\ op = "unwind" /\ cur = end
    /\ op' = "idle"
    /\ UNCHANGED <<up, lutVars, list, fds, reg, cur, end>>

-----------------------------------------------------------------------------
(***************************************************************************)
(* remove, clear and term.                                                 *)
(***************************************************************************)
\* The first registration in the list with the given address.
Match(va) == CHOOSE i \in DOMAIN list :
                /\ list[i].vaddr = va
                /\ \A j \in 1 .. i - 1 : list[j].vaddr # va

Work(call, r) ==
    /\ op' = call
    /\ reg' = r
    /\ cur' = First(r) /\ end' = Behind(r)

RemoveStart(va) ==
    /\ up /\ op = "idle"
    /\ \E i \in DOMAIN list : list[i].vaddr = va
    /\ Work("remove", list[Match(va)])
    /\ UNCHANGED <<up, lutVars, list, fds>>

RemoveDone ==
    /\ op = "remove" /\ cur = end
    /\ list' = RemoveAt(list, Match(reg.vaddr))
    /\ op' = "idle"
    /\ UNCHANGED <<up, lutVars, fds, reg, cur, end>>

\* clear is also the first half of term.
ClearStart(call) ==
    /\ up /\ op = "idle" /\ list # <<>>
    /\ Work(call, Head(list))
    /\ UNCHANGED <<up, lutVars, list, fds>>

\* Mutant of ClearNext: the walk takes every second registration.
ClearNextSkips ==
    /\ op \in {"clear", "term"} /\ cur = end
    /\ list' = IF Len(list) > 1 THEN Tail(Tail(list)) ELSE <<>>
    /\ IF list' = <<>>
       THEN /\ op' = "idle"
            /\ up' = (op = "clear")
            /\ UNCHANGED <<reg, cur, end>>
       ELSE Work(op, Head(list')) /\ UNCHANGED up
    /\ UNCHANGED <<lutVars, fds>>

ClearNext ==
    /\ op \in {"clear", "term"} /\ cur = end
    /\ list' = Tail(list)
    /\ IF list' = <<>>
       THEN /\ op' = "idle"
            /\ up' = (op = "clear")
            /\ UNCHANGED <<reg, cur, end>>
       ELSE Work(op, Head(list')) /\ UNCHANGED up
    /\ UNCHANGED <<lutVars, fds>>

TermEmpty ==
    /\ up /\ op = "idle" /\ list = <<>>
    /\ up' = FALSE
    /\ UNCHANGED <<lutVars, list, fds, op, reg, cur, end>>

-----------------------------------------------------------------------------
Deref == DerefShared \/ DerefLast

Step ==
    \/ AddShared \/ AddPopulated \/ AddFailed \/ AddDone
    \/ Deref
    \/ UnwindDone \/ RemoveDone \/ ClearNext

Next ==
    \/ RegistryInit
    \/ \E r \in Ranges : AddStart(r)
    \/ \E r \in Ranges : RemoveStart(r.vaddr)
    \/ ClearStart("clear") \/ ClearStart("term") \/ TermEmpty
    \/ Step

Spec == Init /\ [][Next]_vars
-----------------------------------------------------------------------------
TypeOK ==
    /\ up \in BOOLEAN
    /\ rc \in [Chunks -> 0 .. MaxRegistrations + 1]
    /\ attach \in [Chunks -> Fds \cup {None}]
    /\ phys \in [Chunks -> Nat]
    /\ list \in Seq(Ranges)
    /\ fds \subseteq Fds
    /\ op \in {"idle", "add", "unwind", "remove", "clear", "term"}
    /\ reg \in Ranges \cup {NoReg}
    /\ cur \in 0 .. NChunks /\ end \in 0 .. NChunks

\* The chunks a registration touches, by its bytes.
Covers(r, c) == c * Gran < r.vaddr + r.size /\ r.vaddr < (c + 1) * Gran

\* What the loop under way has already added to, still has to take from, or
\* has already taken from the count of a chunk.
UnderWay(c) ==
    CASE op = "add" /\ First(reg) <= c /\ c < cur -> 1
      [] op = "unwind" /\ cur <= c /\ c < end -> 1
      [] op \in {"remove", "clear", "term"} /\ First(reg) <= c /\ c < cur -> -1
      [] OTHER -> 0

\* The count of a chunk is the number of registrations that touch it, through
\* overlapping ranges, ranges that start or end inside a chunk, failed adds
\* and removals in any order.
RefcountsExact ==
    up => \A c \in Chunks :
        rc[c] = Cardinality({i \in DOMAIN list : Covers(list[i], c)}) + UnderWay(c)

\* A chunk is attached, and translated to where its attachment lies, exactly
\* while it is counted; no two chunks share an attachment.
AttachedWhileReferenced ==
    \A c \in Chunks :
        /\ rc[c] > 0 <=> attach[c] # None
        /\ phys[c] = IF attach[c] = None THEN 0 ELSE Iova(attach[c], c)
        /\ attach[c] # None =>
              attach[c] \in fds /\ \A d \in Chunks \ {c} : attach[d] # attach[c]

\* While some registration of a chunk stays, the chunk keeps its address:
\* commands under way into a registered buffer never lose their target to a
\* failed add or to the removal of a neighbour.
RegisteredStaysMapped ==
    [][\A c \in Chunks :
          (\E r \in ToSet(list) \cap ToSet(list') :
              Covers(r, c) /\ ~(op \in {"remove", "clear", "term"} /\ r = reg))
              => phys'[c] = phys[c]]_vars
=============================================================================
