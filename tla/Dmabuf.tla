------------------------------- MODULE Dmabuf -------------------------------
(***************************************************************************)
(* dmabuf.h: the table of addresses made from the runs of memory the       *)
(* driver reports for an attached dma-buf.                                 *)
(***************************************************************************)
EXTENDS Integers, Sequences, SequencesExt

\* A run [addr, len] may span several pages; a rest shorter than a page has
\* no entry.
RunEntries(run, pagesize) ==
    [k \in 1 .. run.len \div pagesize |-> run.addr + (k - 1) * pagesize]

LutEntries(runs, pagesize) ==
    FlattenSeq([j \in DOMAIN runs |-> RunEntries(runs[j], pagesize)])

\* dmabuf_get_lut: -EINVAL for entries too many or too few.
LutFits(runs, nphys, pagesize) == Len(LutEntries(runs, pagesize)) = nphys
=============================================================================
