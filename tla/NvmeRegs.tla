------------------------------ MODULE NvmeRegs ------------------------------
(***************************************************************************)
(* Register access of nvme_mmio.h on bitfield.h.  A register, and the      *)
(* value of a field, is the set of its bits that are 1.                    *)
(***************************************************************************)
EXTENDS Naturals, FiniteSets

Mask(offset, width) == offset .. offset + width - 1

Get(val, offset, width) == {b \in 0 .. width - 1 : offset + b \in val}

BitfieldSet(val, offset, width, field) ==
    (val \ Mask(offset, width)) \cup {offset + b : b \in field \cap (0 .. width - 1)}

\* nvme_reg_cap_get_*: offset and width of each field.
CapFields == [
    mqes |-> <<0, 16>>, cqr |-> <<16, 1>>, ams |-> <<17, 2>>, to |-> <<24, 8>>,
    dstrd |-> <<32, 4>>, nssrs |-> <<36, 1>>, css |-> <<37, 8>>, bps |-> <<45, 1>>,
    cps |-> <<46, 2>>, mpsmin |-> <<48, 4>>, mpsmax |-> <<52, 4>>,
    pmrs |-> <<56, 1>>, cmbs |-> <<57, 1>>, nsss |-> <<58, 1>>,
    crms |-> <<59, 2>>, nsses |-> <<61, 1>>]

CapGet(cap, f) == Get(cap, CapFields[f][1], CapFields[f][2])

\* nvme_reg_cc_set_*
CcFields == [
    en |-> <<0, 1>>, css |-> <<4, 3>>, mps |-> <<7, 4>>, ams |-> <<11, 3>>,
    shn |-> <<14, 2>>, iosqes |-> <<16, 4>>, iocqes |-> <<20, 4>>, crime |-> <<24, 1>>]

CcSet(cc, f, val) == BitfieldSet(cc, CcFields[f][1], CcFields[f][2], val)

\* nvme_reg_cc_get_*, which the program prints with: css reads a bit of mps
\* with it, and iosqes and cqr do not read the bits a setter writes.
CcGetFields == [
    en |-> <<0, 1>>, css |-> <<4, 4>>, mps |-> <<7, 4>>, ams |-> <<11, 3>>,
    cqr |-> <<16, 1>>, shn |-> <<14, 2>>, iocqes |-> <<20, 4>>, iosqes |-> <<24, 4>>]

CcGet(cc, f) == Get(cc, CcGetFields[f][1], CcGetFields[f][2])

CcDisable(cc) == cc \ {0}

\* The fields of a register do not overlap.
ASSUME FieldsDisjoint ==
    \A layout \in {CapFields, CcFields} : \A f, g \in DOMAIN layout :
        f # g => Mask(layout[f][1], layout[f][2]) \cap Mask(layout[g][1], layout[g][2]) = {}

\* The value both forms of open enable the controller with: I/O command sets
\* as CAP.CSS bit 6 says, queue entries of 2^6 and 2^4 bytes, the rest 0.
ConfigurationFor(cap) ==
    LET css    == CcSet({}, "css", IF 6 \in CapGet(cap, "css") THEN {1, 2} ELSE {})
        zeroed == CcSet(CcSet(CcSet(css, "shn", {}), "mps", {}), "ams", {})
        sizes  == CcSet(CcSet(zeroed, "iosqes", {1, 2}), "iocqes", {2})
    IN  CcSet(sizes, "en", {0})

\* It selects entries of the sizes of struct nvme_command and nvme_completion,
\* pages of 4 KiB, round robin, no shutdown, and all command sets exactly if
\* the controller supports them; the getters agree, but for that of iosqes.
ASSUME ConfigurationDecodes ==
    \A cap \in {{}, {43}} :
        LET cc == ConfigurationFor(cap)
        IN  /\ CcGet(cc, "en") = {0}
            /\ CcGet(cc, "css") = IF cap = {} THEN {} ELSE {1, 2}
            /\ \A f \in {"mps", "ams", "shn", "iosqes"} : CcGet(cc, f) = {}
            /\ CcGet(cc, "iocqes") = {2} /\ Get(cc, 16, 4) = {1, 2}
=============================================================================
