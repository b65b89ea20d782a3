------------------------------- MODULE NvmeQid -------------------------------
(***************************************************************************)
(* The bitmap of queue identifiers, nvme_qid.h: the set of identifiers     *)
(* whose bit is 1.                                                         *)
(***************************************************************************)
EXTENDS Naturals, FiniteSetsExt

CONSTANTS
    QidMax,         \* NVME_QID_MAX
    BitsPerWord     \* BITS_PER_WORD

\* The division rounds down: identifiers behind the last whole word that are
\* below QidMax have no bit.
BitmapWords == QidMax \div BitsPerWord

Tracked == 0 .. BitmapWords * BitsPerWord - 1

NoQid == QidMax

\* -EINVAL from QidMax on, otherwise the bit is set or cleared.
QidAlloc(bitmap, qid) == IF qid < QidMax THEN bitmap \cup {qid} ELSE bitmap

QidFree(bitmap, qid) == IF qid < QidMax THEN bitmap \ {qid} ELSE bitmap

\* The admin queue has identifier 0.
BitmapInit == QidAlloc({}, 0)

FindFree(bitmap) == IF Tracked \subseteq bitmap THEN NoQid ELSE Min(Tracked \ bitmap)
=============================================================================
