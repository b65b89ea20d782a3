------------------------ MODULE NvmeControllerProofs ------------------------
(***************************************************************************)
(* Theorems about the life of a controller, for every set of frames,       *)
(* hugepages, identifiers and capabilities, however it is bound: what it   *)
(* holds on every path first, then its queues and their memory.            *)
(***************************************************************************)
EXTENDS NvmeControllerCuda, FiniteSetTheorems, NaturalsInduction, WellFoundedInduction, TLAPS

\* A tuple that only shortens lists of unchanged variables.
USE DEF lifeVars

OpenSteps == RegisterSteps \cup IF via = "vfio" THEN VfioSteps ELSE {"func"}

InCall(name, steps) == call.name = name /\ call.step \in steps

CallInv ==
    /\ call.name = "none" => call = NoCall
    /\ call.name = "open" => ctrl = "down" /\ call.step \in OpenSteps
    /\ call.name = "create" => ctrl = "open" /\ call.step \in CreateSteps
    /\ call.name = "delete" => ctrl = "open" /\ call.step \in DeleteSteps
    /\ call.name = "close" => via = "vfio" /\ call.step \in CloseSteps
    /\ via = "vfio" => ctrl # "failed"

DoubtsInv ==
    /\ call.name = "create" => doubts < MaxDoubts
    /\ InCall("delete", {"delete_sq", "wait_delete_sq"}) => doubts < MaxDoubts
    /\ InCall("delete", {"delete_cq", "wait_delete_cq"}) => doubts <= MaxDoubts

HeldInv ==
    /\ via = "sysfs" => held \subseteq {"bar"} /\ dma = {}
    /\ Idle /\ ctrl = "down" => held = {} /\ dma = {}
    /\ via = "vfio" /\ InCall("open", RegisterSteps \cup {"bus_master", "region"}) =>
          "device" \in held
    /\ InCall("open", RegisterSteps \ {"bar"}) => "bar" \in held
    /\ InCall("close", {"ctx_device", "ctx_unmap", "ctx_fds"}) => "bar" \notin held
    /\ InCall("close", {"ctx_unmap", "ctx_fds"}) => "device" \notin held

StoppedInv ==
    /\ via = "vfio" /\ "device" \notin held => ~rdy /\ ~Enabled
    /\ InCall("open", {"wait_stopped", "aq", "aq_setup", "enable"}) => ~Enabled
    /\ InCall("open", {"aq", "aq_setup", "enable"}) => ~rdy

NoBuffers == \A f \in Frames : owner[f][1] \notin {"buf", "aq"}

BuffersInv ==
    /\ \A f \in Frames : owner[f][1] \in {"buf", "aq"} => f \in HostFrames /\ owner[f][2] = 0
    /\ At("open", "aq_setup") => OwnedBy("aq", 0) # {}
    /\ Idle /\ ctrl = "down" => NoBuffers
    /\ InCall("close", {"ctx_bar", "ctx_device", "ctx_unmap", "ctx_fds"}) => NoBuffers

\* The process has forgotten nothing before it opens again without closing.
LifeInv == again \/ forgot = {}

ControlInv ==
    /\ TypeOK /\ CallInv /\ DoubtsInv
    /\ HeldInv /\ StoppedInv /\ BuffersInv

-----------------------------------------------------------------------------
(***************************************************************************)
(* Identifiers, frames and registers.                                      *)
(***************************************************************************)
LEMMA MinOfNats ==
    ASSUME NEW S \in SUBSET Nat, S # {}
    PROVE  Min(S) \in S
<1>1. PICK x \in S : \A y \in S : <<y, x>> \notin {p \in Nat \X Nat : p[1] < p[2]}
  <2>1. IsWellFoundedOn({p \in Nat \X Nat : p[1] < p[2]}, Nat)
    BY NatLessThanWellFounded DEF OpToRel
  <2>. QED
    BY <2>1, WFMin
<1>2. \A y \in S : x \in Nat /\ y \in Nat /\ ~(y < x)
  BY <1>1
<1>3. \A y \in S : x <= y
  BY <1>2
<1>. QED
  BY <1>3 DEF Min

\* The bitmap has at least one word and no bit for an identifier that the
\* code would refuse, so that what find_free returns can be allocated.
LEMMA QidFacts ==
    /\ 0 \in Qids /\ Qids \subseteq Nat
    /\ Tracked \subseteq Qids
    /\ BitmapInit = {0} /\ 0 \in Tracked
    /\ \A q \in Qids : q < QidMax /\ q # NoQid
<1>1. QidMax \in Nat \ {0} /\ BitsPerWord \in 1 .. QidMax /\ Qids = 0 .. QidMax - 1
  BY ControllerAssumption
<1>2. /\ QidMax \div BitsPerWord \in Nat
      /\ QidMax % BitsPerWord \in 0 .. BitsPerWord - 1
      /\ QidMax = BitsPerWord * (QidMax \div BitsPerWord) + (QidMax % BitsPerWord)
  BY <1>1
<1>. DEFINE bits == BitmapWords * BitsPerWord
<1>3. bits \in Nat /\ bits <= QidMax /\ bits # 0
  <2>1. BitmapWords \in Nat /\ BitsPerWord \in Nat
    BY <1>1, <1>2 DEF BitmapWords
  <2>2. bits = BitsPerWord * (QidMax \div BitsPerWord)
    BY <2>1, <1>1, <1>2 DEF BitmapWords
  <2>3. bits \in Nat
    BY <2>1
  <2>. HIDE DEF bits
  <2>4. QidMax = bits + (QidMax % BitsPerWord)
    BY <2>2, <1>2
  <2>. QED
    BY <2>3, <2>4, <1>1, <1>2
<1>4. Tracked = 0 .. bits - 1
  BY DEF Tracked
<1>. HIDE DEF bits
<1>5. Tracked \subseteq Qids /\ 0 \in Tracked
  BY <1>1, <1>3, <1>4
<1>6. BitmapInit = {0}
  BY <1>1 DEF BitmapInit, QidAlloc
<1>. QED
  BY <1>1, <1>5, <1>6 DEF NoQid

LEMMA FindFreeFacts ==
    ASSUME NEW bitmap \in SUBSET Tracked, FindFree(bitmap) # NoQid
    PROVE  /\ FindFree(bitmap) \in Tracked \ bitmap
           /\ FindFree(bitmap) \in Qids
           /\ QidAlloc(bitmap, FindFree(bitmap)) = bitmap \cup {FindFree(bitmap)}
<1>1. ~(Tracked \subseteq bitmap) /\ FindFree(bitmap) = Min(Tracked \ bitmap)
  BY DEF FindFree
<1>2. Tracked \ bitmap \in SUBSET Nat /\ Tracked \ bitmap # {}
  BY <1>1, QidFacts
<1>3. FindFree(bitmap) \in Tracked \ bitmap
  BY <1>1, <1>2, MinOfNats
<1>. QED
  BY <1>3, QidFacts DEF QidAlloc

\* Taking a frame from a heap changes the use of one free frame of it.
LEMMA TakeFacts ==
    ASSUME NEW heap \in SUBSET Frames, NEW use, NEW q, Take(heap, use, q)
    PROVE  \E f \in heap : /\ owner[f] = Unused
                           /\ owner' = [owner EXCEPT ![f] = <<use, q>>]
<1>. DEFINE free == {f \in heap : owner[f] = Unused}
<1>1. free # {} /\ owner' = [owner EXCEPT ![Min(free)] = <<use, q>>]
  BY DEF Take
<1>2. free \in SUBSET Nat
  BY AdminAssumption
<1>3. Min(free) \in free
  BY <1>1, <1>2, MinOfNats
<1>. QED
  BY <1>1, <1>3

LEMMA FrameOfFacts ==
    ASSUME NEW use, NEW q, OwnedBy(use, q) # {}
    PROVE  FrameOf(use, q) \in OwnedBy(use, q)
BY DEF FrameOf

\* The configuration that open writes fits the register and enables.
LEMMA ConfigurationFacts ==
    ASSUME NEW c
    PROVE  ConfigurationFor(c) \subseteq 0 .. 31 /\ 0 \in ConfigurationFor(c)
<1>1. ASSUME NEW val \in SUBSET (0 .. 31), NEW o \in Nat, NEW w \in Nat, o + w <= 32, NEW field
      PROVE  BitfieldSet(val, o, w, field) \in SUBSET (0 .. 31)
  <2>1. val \ Mask(o, w) \subseteq 0 .. 31
    OBVIOUS
  <2>2. \A b \in field \cap (0 .. w - 1) : o + b \in 0 .. 31
    BY <1>1
  <2>. QED
    BY <2>1, <2>2 DEF BitfieldSet
<1>2. ASSUME NEW val \in SUBSET (0 .. 31), NEW field
      PROVE  /\ CcSet(val, "css", field) \in SUBSET (0 .. 31)
             /\ CcSet(val, "shn", field) \in SUBSET (0 .. 31)
             /\ CcSet(val, "mps", field) \in SUBSET (0 .. 31)
             /\ CcSet(val, "ams", field) \in SUBSET (0 .. 31)
             /\ CcSet(val, "iosqes", field) \in SUBSET (0 .. 31)
             /\ CcSet(val, "iocqes", field) \in SUBSET (0 .. 31)
             /\ CcSet(val, "en", field) \in SUBSET (0 .. 31)
  BY <1>1 DEF CcSet, CcFields
<1>. DEFINE css    == CcSet({}, "css", IF 6 \in CapGet(c, "css") THEN {1, 2} ELSE {})
            zeroed == CcSet(CcSet(CcSet(css, "shn", {}), "mps", {}), "ams", {})
            sizes  == CcSet(CcSet(zeroed, "iosqes", {1, 2}), "iocqes", {2})
<1>3. ConfigurationFor(c) = CcSet(sizes, "en", {0})
  BY DEF ConfigurationFor
<1>4. sizes \in SUBSET (0 .. 31)
  <2>1. css \in SUBSET (0 .. 31)
    BY <1>2
  <2>. HIDE DEF css
  <2>2. zeroed \in SUBSET (0 .. 31)
    BY <1>2, <2>1
  <2>. HIDE DEF zeroed
  <2>. QED
    BY <1>2, <2>2
<1>. HIDE DEF sizes
<1>5. 0 \in CcSet(sizes, "en", {0})
  BY DEF CcSet, CcFields, BitfieldSet
<1>. QED
  BY <1>2, <1>3, <1>4, <1>5

LEMMA GotoCall ==
    ASSUME call \in Calls, NEW s \in Steps, Goto(s)
    PROVE  /\ call' \in Calls
           /\ call'.name = call.name /\ call'.step = s
           /\ call'.q = call.q /\ call'.kind = call.kind
<1>1. call' = [name |-> call.name, step |-> s, q |-> call.q, kind |-> call.kind]
  BY DEF Goto, Calls
<1>2. /\ call.name \in {"none", "open", "create", "delete", "close"}
      /\ call.q \in Qids /\ call.kind \in {"host", "gpu"}
  BY DEF Calls
<1>. QED
  BY <1>1, <1>2 DEF Calls

LEMMA CalledFacts ==
    ASSUME NEW n \in {"none", "open", "close"}, NEW s \in Steps
    PROVE  /\ Called(n, s) \in Calls
           /\ Called(n, s).name = n /\ Called(n, s).step = s /\ Called(n, s).q = 0
BY QidFacts DEF Called, Calls

LEMMA NoCallFacts ==
    NoCall \in Calls /\ NoCall.name = "none" /\ NoCall.step = "" /\ NoCall.q = 0
BY CalledFacts DEF NoCall, Steps

-----------------------------------------------------------------------------
(***************************************************************************)
(* What the calls have in common.                                          *)
(***************************************************************************)
\* Opening and closing move through their steps.
LEMMA CallMoves ==
    ASSUME TypeOK, CallInv, call.name \in {"open", "close"}, NEW s \in Steps, Goto(s),
           s \in IF call.name = "open" THEN OpenSteps ELSE CloseSteps,
           UNCHANGED <<ctrl, via, doubts>>
    PROVE  /\ call' \in Calls /\ call'.name = call.name /\ call'.step = s
           /\ CallInv' /\ DoubtsInv' /\ ~Idle'
<1>1. /\ call' \in Calls
      /\ call'.name = call.name /\ call'.step = s
  BY GotoCall DEF TypeOK
<1>2. CallInv'
  BY <1>1 DEF CallInv, OpenSteps
<1>3. DoubtsInv'
  BY <1>1 DEF DoubtsInv, InCall
<1>. QED
  BY <1>1, <1>2, <1>3, NoCallFacts DEF Idle

\* Creating and deleting leave alone what ctrl = "open" promises.
LEMMA ServingKeeps ==
    ASSUME ControlInv, ctrl = "open", UNCHANGED <<cc, rdy, openVars, dma>>,
           call'.name \in {"none", "create", "delete"}
    PROVE  HeldInv' /\ StoppedInv'
<1>1. UNCHANGED <<ctrl, via, held>>
  BY DEF openVars
<1>2. HeldInv'
  BY <1>1 DEF ControlInv, HeldInv, InCall
<1>3. StoppedInv'
  BY <1>1 DEF ControlInv, StoppedInv, InCall, Enabled
<1>. QED
  BY <1>2, <1>3

LEMMA ServingKeepsBuffers ==
    ASSUME ControlInv, ctrl = "open", UNCHANGED openVars,
           call'.name \in {"none", "create", "delete"},
           \A f \in Frames : owner'[f] = owner[f] \/ owner'[f][1] \notin {"buf", "aq"}
    PROVE  BuffersInv'
BY DEF ControlInv, BuffersInv, openVars, InCall, At

\* Failing to open closes what is bound to VFIO and keeps what is not.
LEMMA FailKeeps ==
    ASSUME ControlInv, call.name = "open", Fail,
           UNCHANGED <<deviceVars, owner, qpVars, held, lateStop, lifeVars, dma, gpu>>
    PROVE  ControlInv'
<1>1. ctrl = "down" /\ via \in {"sysfs", "vfio"}
  BY DEF ControlInv, CallInv, TypeOK
<1>2. /\ "stop" \in Steps /\ Called("close", "stop") \in Calls
      /\ Called("close", "stop").name = "close" /\ Called("close", "stop").step = "stop"
      /\ Called("close", "stop") # NoCall
  BY CalledFacts, NoCallFacts DEF Steps, CloseSteps
<1>3. CASE via = "vfio"
  <2>1. call' = Called("close", "stop") /\ ctrl' = "down"
    BY <1>1, <1>3 DEF Fail
  <2>2. TypeOK'
    BY <1>2, <2>1 DEF ControlInv, TypeOK, deviceVars, qpVars
  <2>3. CallInv' /\ DoubtsInv'
    BY <1>2, <1>3, <2>1 DEF CallInv, DoubtsInv, InCall, CloseSteps
  <2>4. HeldInv' /\ StoppedInv' /\ BuffersInv'
    BY <1>2, <1>3, <2>1 DEF ControlInv, HeldInv, StoppedInv, BuffersInv, NoBuffers, OwnedBy,
       InCall, At, Idle, Enabled, deviceVars
  <2>. QED
    BY <2>2, <2>3, <2>4 DEF ControlInv
<1>4. CASE via = "sysfs"
  <2>1. call' = NoCall /\ ctrl' = "failed"
    BY <1>4 DEF Fail
  <2>2. TypeOK'
    BY <2>1, NoCallFacts DEF ControlInv, TypeOK, deviceVars, qpVars
  <2>3. CallInv' /\ DoubtsInv'
    BY <1>4, <2>1, NoCallFacts DEF CallInv, DoubtsInv, InCall
  <2>4. HeldInv' /\ StoppedInv' /\ BuffersInv'
    BY <1>4, <2>1, NoCallFacts DEF ControlInv, HeldInv, StoppedInv, BuffersInv, NoBuffers,
       OwnedBy, InCall, At, Idle, Enabled, deviceVars
  <2>. QED
    BY <2>2, <2>3, <2>4 DEF ControlInv
<1>. QED
  BY <1>1, <1>3, <1>4

LEMMA FunctionResetFacts ==
    ASSUME FunctionReset, TypeOK
    PROVE  /\ cap' \in Caps /\ cc' \subseteq 0 .. 31 /\ rdy' \in BOOLEAN
           /\ asq' \in HostFrames \cup {NoFrame}
           /\ cqs' \in [Qids -> Frames \cup {NoFrame}]
           /\ sqs' \in [Qids -> Frames \cup {NoFrame}]
           /\ pend' \in Seq(Commands) /\ cpls' \in Seq({"ok", "cq_invalid", "failed"})
           /\ ~rdy' /\ ~Enabled'
<1>1. NoQueues \in [Qids -> Frames \cup {NoFrame}] /\ <<>> \in Seq(Commands)
  BY DEF NoQueues
<1>. QED
  BY <1>1 DEF FunctionReset, TypeOK, Enabled

-----------------------------------------------------------------------------
(***************************************************************************)
(* ControlInv: the initial states.                                         *)
(***************************************************************************)
LEMMA InitControl ==
    ASSUME Init
    PROVE  ControlInv
<1>. USE DEF Init, ControllerInit, AdminInit
<1>1. /\ cqs \in [Qids -> Frames \cup {NoFrame}] /\ sqs \in [Qids -> Frames \cup {NoFrame}]
      /\ pend \in Seq(Commands) /\ cpls \in Seq({"ok", "cq_invalid", "failed"})
  BY DEF NoQueues
<1>2. /\ owner \in [Frames -> {"free", "buf", "aq", "queue", "lost"} \X Qids]
      /\ qps \in [Qids -> {"none", "host", "gpu", "lost", "spent"}]
  BY QidFacts DEF Unused
<1>3. call \in Calls /\ doubts = 0
  BY NoCallFacts
<1>8. 0 \in 0 .. MaxDoubts + 1
  BY ControllerAssumption
<1>4. TypeOK
  BY <1>1, <1>2, <1>3, <1>8 DEF TypeOK
<1>5. CallInv /\ DoubtsInv
  BY NoCallFacts DEF CallInv, DoubtsInv, InCall
<1>6. HeldInv /\ StoppedInv
  BY NoCallFacts DEF HeldInv, StoppedInv, InCall, Enabled
<1>7. BuffersInv
  <2>1. \A f \in Frames : owner[f][1] = "free"
    BY DEF Unused
  <2>. QED
    BY <2>1, NoCallFacts DEF BuffersInv, NoBuffers, InCall, At
<1>. QED
  BY <1>4, <1>5, <1>6, <1>7 DEF ControlInv

-----------------------------------------------------------------------------
(***************************************************************************)
(* ControlInv: opening.                                                    *)
(***************************************************************************)
\* What open leaves of the uses of frames, with a buffer and without.
LEMMA OpenStartFrames ==
    ASSUME ControlInv, NEW v \in {"sysfs", "vfio"}, NEW first, OpenStart(v, first)
    PROVE  /\ owner' \in [Frames -> {"free", "buf", "aq", "queue", "lost"} \X Qids]
           /\ \A f \in Frames : owner'[f] # <<"buf", 0>> => owner'[f][1] \in {"free", "lost"}
           /\ \A f \in Frames : owner'[f] = <<"buf", 0>> => f \in HostFrames
           /\ \/ qids' = {0} /\ call' = Called("open", first)
              \/ qids' = {} /\ call' = NoCall /\ owner' = Forgotten
<1>. DEFINE free == {f \in HostFrames : owner[f] = Unused}
<1>1. \/ /\ free # {} /\ owner' = [Forgotten EXCEPT ![Min(free)] = <<"buf", 0>>]
         /\ qids' = {0} /\ call' = Called("open", first)
      \/ owner' = Forgotten /\ qids' = {} /\ call' = NoCall
  BY QidFacts DEF OpenStart, Return
<1>2. free \in SUBSET Nat /\ free \subseteq Frames
  BY AdminAssumption, ControllerAssumption
<1>3. free # {} => Min(free) \in free
  BY <1>2, MinOfNats
<1>4. /\ Forgotten \in [Frames -> {"free", "buf", "aq", "queue", "lost"} \X Qids]
      /\ \A f \in Frames : Forgotten[f] \in {<<"free", 0>>, <<"lost", 0>>}
  BY QidFacts DEF Unused, Forgotten
<1>5. CASE owner' = Forgotten /\ qids' = {} /\ call' = NoCall
  BY <1>4, <1>5
<1>6. CASE /\ free # {} /\ owner' = [Forgotten EXCEPT ![Min(free)] = <<"buf", 0>>]
           /\ qids' = {0} /\ call' = Called("open", first)
  <2>1. PICK m \in Frames : m \in HostFrames /\ owner' = [Forgotten EXCEPT ![m] = <<"buf", 0>>]
    BY <1>2, <1>3, <1>6 DEF free
  <2>. HIDE DEF free
  <2>. QED
    BY <1>4, <1>6, <2>1, QidFacts
<1>. QED
  BY <1>1, <1>5, <1>6

\* Where the process has opened nothing, or closed it all, it has nothing.
LEMMA HasType ==
    ASSUME ControlInv
    PROVE  /\ Has \subseteq Acquired \cup {"bar", "buf", "aq"}
           /\ Idle /\ ctrl = "down" => Has = {}
<1>1. Has \subseteq held \cup {"buf", "aq"} /\ held \subseteq Acquired \cup {"bar"}
  BY DEF Has, ControlInv, TypeOK
<1>2. ASSUME Idle, ctrl = "down"
      PROVE  Has = {}
  <2>1. held = {} /\ NoBuffers
    BY <1>2 DEF ControlInv, HeldInv, BuffersInv
  <2>2. \A use \in {"buf", "aq"} : OwnedBy(use, 0) = {}
    BY <2>1 DEF OwnedBy, NoBuffers
  <2>. QED
    BY <2>1, <2>2 DEF Has
<1>. QED
  BY <1>1, <1>2

LEMMA OpenStartControl ==
    ASSUME ControlInv, CudaOpenStart
    PROVE  ControlInv' /\ (LifeInv => LifeInv')
<1>1. PICK v \in {"sysfs", "vfio"}, first \in {"func", "group_id"} :
         OpenStart(v, first) /\ first = IF v = "vfio" THEN "group_id" ELSE "func"
  BY DEF CudaOpenStart, ControllerOpenStart
<1>2. /\ call = NoCall /\ via = v /\ ctrl \in {"down", "failed"}
      /\ ctrl' = "down" /\ via' = v
      /\ held' = {} /\ lateStop' = FALSE /\ qps' = [q \in Qids |-> "none"]
      /\ doubts' = 0 /\ refused' = {}
      /\ forgot' = forgot \cup Has /\ again' = (again \/ ctrl = "failed")
      /\ dma' = dma /\ gpu' = ItemsOf(NoQid, {p[2] : p \in gpu})
      /\ UNCHANGED deviceVars
  BY <1>1 DEF OpenStart, Idle, CudaOpenStart, ControllerOpenStart
<1>3. /\ owner' \in [Frames -> {"free", "buf", "aq", "queue", "lost"} \X Qids]
      /\ \A f \in Frames : owner'[f] # <<"buf", 0>> => owner'[f][1] \in {"free", "lost"}
      /\ \A f \in Frames : owner'[f] = <<"buf", 0>> => f \in HostFrames
      /\ \/ qids' = {0} /\ call' = Called("open", first)
         \/ qids' = {} /\ call' = NoCall /\ owner' = Forgotten
  BY <1>1, OpenStartFrames
<1>4. /\ Called("open", first) \in Calls
      /\ Called("open", first).name = "open" /\ Called("open", first).step = first
      /\ first \in IF v = "vfio" THEN VfioSteps ELSE {"func"}
      /\ first \notin RegisterSteps \cup {"bus_master", "region"}
  <2>1. "group_id" \in VfioSteps /\ first \in Steps
    BY DEF Steps, VfioSteps, VfioNext
  <2>2. first \notin RegisterSteps \cup {"bus_master", "region"}
    BY DEF RegisterSteps
  <2>. QED
    BY <1>1, <2>1, <2>2, CalledFacts
<1>5. v = "vfio" => held = {} /\ ctrl = "down"
  BY <1>2 DEF ControlInv, HeldInv, CallInv, Idle
<1>6. TypeOK'
  <2>1. /\ qids' \subseteq Tracked /\ qids' \subseteq Qids
        /\ qps' \in [Qids -> {"none", "host", "gpu", "lost", "spent"}]
        /\ refused' \subseteq Qids
    BY <1>2, <1>3, QidFacts
  <2>2. doubts' \in 0 .. MaxDoubts + 1
    <3>1. MaxDoubts \in Nat
      BY ControllerAssumption
    <3>. QED
      BY <3>1, <1>2
  <2>3. gpu' \subseteq (Qids \cup {NoQid}) \X Items
    BY <1>2 DEF ItemsOf, ControlInv, TypeOK
  <2>4. forgot' \subseteq Acquired \cup {"bar", "buf", "aq"} /\ again' \in BOOLEAN
    BY <1>2, HasType DEF ControlInv, TypeOK
  <2>5. call' \in Calls
    BY <1>3, <1>4, NoCallFacts
  <2>6. dma' \subseteq Hugepages /\ held' \subseteq Acquired \cup {"bar"} /\ lateStop' \in BOOLEAN
    BY <1>2 DEF ControlInv, TypeOK
  <2>. QED
    BY <1>2, <1>3, <2>1, <2>2, <2>3, <2>4, <2>5, <2>6 DEF ControlInv, TypeOK, deviceVars
<1>7. CallInv' /\ DoubtsInv'
  BY <1>2, <1>3, <1>4, NoCallFacts DEF CallInv, DoubtsInv, InCall, OpenSteps
<1>8. HeldInv'
  <2>1. via = "sysfs" => dma = {}
    BY DEF ControlInv, HeldInv
  <2>2. ctrl = "down" => dma = {}
    BY <1>2 DEF ControlInv, HeldInv, Idle
  <2>3. dma' = {}
    BY <1>2, <1>5, <2>1, <2>2
  <2>. QED
    BY <1>2, <1>3, <1>4, <2>3, NoCallFacts DEF HeldInv, InCall, Idle
<1>9. StoppedInv'
  BY <1>2, <1>3, <1>4, <1>5, NoCallFacts DEF ControlInv, StoppedInv, InCall, RegisterSteps, Enabled,
     deviceVars
<1>10. BuffersInv'
  <2>1. owner' = Forgotten => NoBuffers'
    BY DEF NoBuffers, Forgotten, Unused
  <2>2. \A f \in Frames : owner'[f][1] \in {"buf", "aq"} => f \in HostFrames /\ owner'[f][2] = 0
    BY <1>3
  <2>. QED
    BY <1>3, <1>4, <2>1, <2>2, NoCallFacts DEF BuffersInv, InCall, At, Idle, RegisterSteps
<1>11. ASSUME LifeInv
       PROVE  LifeInv'
  BY <1>2, <1>11, HasType DEF LifeInv, Idle
<1>. QED
  BY <1>6, <1>7, <1>8, <1>9, <1>10, <1>11 DEF ControlInv

\* A step of opening that acquires something, or nothing.
LEMMA OpenMoves ==
    ASSUME ControlInv, call.name = "open", NEW s \in OpenSteps, Goto(s), s # "aq_setup",
           s \in {"wait_stopped", "aq", "enable"} => ~Enabled',
           s \in {"aq", "enable"} => ~rdy',
           via = "vfio" /\ "device" \notin held' => ~rdy' /\ ~Enabled',
           via = "vfio" /\ s \in RegisterSteps \cup {"bus_master", "region"} =>
              "device" \in held',
           s \in RegisterSteps \ {"bar"} => "bar" \in held',
           via = "sysfs" => held' \subseteq {"bar"} /\ dma' = {},
           UNCHANGED <<owner, qpVars, ctrl, lateStop, lifeVars>>
    PROVE  /\ CallInv' /\ DoubtsInv' /\ HeldInv' /\ StoppedInv' /\ BuffersInv'
           /\ call' \in Calls
<1>1. s \in Steps
  BY DEF OpenSteps, Steps
<1>2. /\ call' \in Calls /\ call'.name = "open" /\ call'.step = s
      /\ CallInv' /\ DoubtsInv' /\ ~Idle'
  BY <1>1, CallMoves DEF ControlInv, qpVars
<1>3. HeldInv'
  BY <1>2 DEF HeldInv, InCall
<1>4. StoppedInv'
  BY <1>2 DEF StoppedInv, InCall
<1>5. BuffersInv'
  BY <1>2 DEF ControlInv, BuffersInv, InCall, At
<1>. QED
  BY <1>2, <1>3, <1>4, <1>5

\* What the step names of opening have to do with each other.
LEMMA VfioNextFacts ==
    ASSUME NEW s \in DOMAIN VfioNext
    PROVE  /\ VfioNext[s] \in VfioSteps \cup {"bar"}
           /\ s \notin RegisterSteps
           /\ VfioNext[s] \notin RegisterSteps \ {"bar"}
           /\ VfioNext[s] \in RegisterSteps \cup {"bus_master", "region"} =>
                 s \in {"bus_master", "region"}
BY DEF VfioNext, VfioSteps, RegisterSteps

LEMMA OpenFuncControl ==
    ASSUME ControlInv, OpenFunc, UNCHANGED <<dma, gpu>>
    PROVE  ControlInv'
<1>1. /\ call.name = "open" /\ call.step = "func"
      /\ UNCHANGED <<deviceVars, owner, qpVars, held, lateStop, lifeVars, dma, gpu>>
  BY DEF OpenFunc, At
<1>2. via = "sysfs"
  BY <1>1 DEF ControlInv, CallInv, OpenSteps, VfioSteps, VfioNext, RegisterSteps, TypeOK
<1>3. CASE Goto("bar") /\ UNCHANGED ctrl
  <2>1. "bar" \in OpenSteps
    BY DEF OpenSteps, RegisterSteps
  <2>2. /\ CallInv' /\ DoubtsInv' /\ HeldInv' /\ StoppedInv' /\ BuffersInv'
        /\ call' \in Calls
    BY <1>1, <1>2, <1>3, <2>1, OpenMoves DEF ControlInv, HeldInv
  <2>3. TypeOK'
    BY <1>1, <1>3, <2>2 DEF ControlInv, TypeOK, deviceVars, qpVars
  <2>. QED
    BY <2>2, <2>3 DEF ControlInv
<1>4. CASE Fail
  BY <1>1, <1>4, FailKeeps
<1>. QED
  BY <1>3, <1>4 DEF OpenFunc

LEMMA OpenBarControl ==
    ASSUME ControlInv, OpenBar, UNCHANGED <<dma, gpu>>
    PROVE  ControlInv'
<1>1. /\ call.name = "open" /\ call.step = "bar"
      /\ UNCHANGED <<deviceVars, owner, qpVars, lateStop, lifeVars, dma, gpu>>
  BY DEF OpenBar, At
<1>2. CASE held' = held \cup {"bar"} /\ Goto("disable") /\ UNCHANGED ctrl
  <2>1. "disable" \in OpenSteps /\ call.step \in RegisterSteps
    BY <1>1 DEF OpenSteps, RegisterSteps
  <2>2. via = "vfio" => "device" \in held
    BY <1>1, <2>1 DEF ControlInv, HeldInv, InCall
  <2>3. via = "sysfs" => held \subseteq {"bar"} /\ dma = {}
    BY DEF ControlInv, HeldInv
  <2>4. /\ CallInv' /\ DoubtsInv' /\ HeldInv' /\ StoppedInv' /\ BuffersInv'
        /\ call' \in Calls
    BY <1>1, <1>2, <2>1, <2>2, <2>3, OpenMoves
  <2>5. TypeOK'
    BY <1>1, <1>2, <2>4 DEF ControlInv, TypeOK, deviceVars, qpVars
  <2>. QED
    BY <2>4, <2>5 DEF ControlInv
<1>3. CASE Fail /\ UNCHANGED held
  BY <1>1, <1>3, FailKeeps
<1>. QED
  BY <1>2, <1>3 DEF OpenBar

\* The facts that every step behind the mapping of the registers keeps.
LEMMA RegisterStepFacts ==
    ASSUME ControlInv, call.name = "open", call.step \in RegisterSteps \ {"bar"}
    PROVE  /\ via = "vfio" => "device" \in held
           /\ "bar" \in held
           /\ via = "sysfs" => held \subseteq {"bar"} /\ dma = {}
BY DEF ControlInv, HeldInv, InCall

LEMMA OpenDisableControl ==
    ASSUME ControlInv, OpenDisable, UNCHANGED <<dma, gpu>>
    PROVE  ControlInv'
<1>1. /\ call.name = "open" /\ call.step = "disable"
      /\ cc' = CcDisable(cc) /\ Goto("wait_stopped")
      /\ UNCHANGED <<cap, rdy, asq, ioqVars, pend, cpls, owner, qpVars, openVars, dma, gpu>>
  BY DEF OpenDisable, At, CcWrite
<1>2. "wait_stopped" \in OpenSteps /\ call.step \in RegisterSteps \ {"bar"}
  BY <1>1 DEF OpenSteps, RegisterSteps
<1>3. ~Enabled' /\ cc' \subseteq 0 .. 31
  BY <1>1 DEF Enabled, CcDisable, ControlInv, TypeOK
<1>4. /\ CallInv' /\ DoubtsInv' /\ HeldInv' /\ StoppedInv' /\ BuffersInv'
      /\ call' \in Calls
  BY <1>1, <1>2, <1>3, RegisterStepFacts, OpenMoves DEF openVars
<1>5. TypeOK'
  BY <1>1, <1>3, <1>4 DEF ControlInv, TypeOK, ioqVars, qpVars, openVars
<1>. QED
  BY <1>4, <1>5 DEF ControlInv

LEMMA OpenStoppedControl ==
    ASSUME ControlInv, OpenStopped, UNCHANGED <<dma, gpu>>
    PROVE  ControlInv'
<1>1. /\ call.name = "open" /\ call.step = "wait_stopped"
      /\ UNCHANGED <<deviceVars, owner, qpVars, held, lateStop, lifeVars, dma, gpu>>
  BY DEF OpenStopped, At
<1>2. CASE ~rdy /\ Goto("aq") /\ UNCHANGED ctrl
  <2>1. "aq" \in OpenSteps /\ call.step \in RegisterSteps \ {"bar"}
    BY <1>1 DEF OpenSteps, RegisterSteps
  <2>2. ~Enabled /\ ~Enabled' /\ ~rdy'
    BY <1>1, <1>2 DEF ControlInv, StoppedInv, InCall, Enabled, deviceVars
  <2>3. /\ CallInv' /\ DoubtsInv' /\ HeldInv' /\ StoppedInv' /\ BuffersInv'
        /\ call' \in Calls
    BY <1>1, <1>2, <2>1, <2>2, RegisterStepFacts, OpenMoves
  <2>4. TypeOK'
    BY <1>1, <1>2, <2>3 DEF ControlInv, TypeOK, deviceVars, qpVars
  <2>. QED
    BY <2>3, <2>4 DEF ControlInv
<1>3. CASE Fail
  BY <1>1, <1>3, FailKeeps
<1>. QED
  BY <1>2, <1>3 DEF OpenStopped

LEMMA OpenAqControl ==
    ASSUME ControlInv, OpenAq, UNCHANGED <<dma, gpu>>
    PROVE  ControlInv'
<1>1. /\ call.name = "open" /\ call.step = "aq"
      /\ UNCHANGED <<cap, cc, rdy, asq, ioqVars, pend, qpVars, held, lateStop, lifeVars, dma, gpu>>
  BY DEF OpenAq, At
<1>2. CASE /\ Take(HostFrames, "aq", 0)
           /\ cpls' = <<>>
           /\ Goto("aq_setup") /\ UNCHANGED ctrl
  <2>1. PICK f \in HostFrames : owner[f] = Unused /\ owner' = [owner EXCEPT ![f] = <<"aq", 0>>]
    BY <1>2, TakeFacts, ControllerAssumption
  <2>2. "aq_setup" \in OpenSteps /\ "aq_setup" \in Steps /\ call.step \in RegisterSteps \ {"bar"}
        /\ "aq_setup" \in RegisterSteps
    BY <1>1 DEF OpenSteps, RegisterSteps, Steps
  <2>3. /\ call' \in Calls /\ call'.name = "open" /\ call'.step = "aq_setup"
        /\ CallInv' /\ DoubtsInv' /\ ~Idle'
    BY <1>1, <1>2, <2>2, CallMoves DEF ControlInv, qpVars
  <2>4. HeldInv'
    BY <1>1, <2>2, <2>3, RegisterStepFacts DEF HeldInv, InCall
  <2>5. StoppedInv'
    BY <1>1, <2>3 DEF ControlInv, StoppedInv, InCall, Enabled
  <2>6. f \in Frames /\ owner \in [Frames -> {"free", "buf", "aq", "queue", "lost"} \X Qids]
    BY <2>1, ControllerAssumption DEF ControlInv, TypeOK
  <2>7. owner'[f] = <<"aq", 0>> /\ \A g \in Frames \ {f} : owner'[g] = owner[g]
    BY <2>1, <2>6
  <2>8. BuffersInv'
    BY <2>1, <2>3, <2>6, <2>7 DEF ControlInv, BuffersInv, InCall, OwnedBy
  <2>9. owner' \in [Frames -> {"free", "buf", "aq", "queue", "lost"} \X Qids]
    BY <2>1, <2>6, QidFacts
  <2>10. TypeOK'
    BY <1>1, <1>2, <2>3, <2>9 DEF ControlInv, TypeOK, ioqVars, qpVars
  <2>. QED
    BY <2>3, <2>4, <2>5, <2>8, <2>10 DEF ControlInv
<1>3. CASE Fail /\ UNCHANGED <<owner, cpls>>
  BY <1>1, <1>3, FailKeeps DEF deviceVars, ioqVars
<1>. QED
  BY <1>2, <1>3 DEF OpenAq

LEMMA OpenAqSetupControl ==
    ASSUME ControlInv, OpenAqSetup, UNCHANGED <<dma, gpu>>
    PROVE  ControlInv'
<1>1. /\ call.name = "open" /\ call.step = "aq_setup"
      /\ asq' = FrameOf("aq", 0) /\ Goto("enable")
      /\ UNCHANGED <<cap, cc, rdy, ioqVars, pend, cpls, owner, qpVars, openVars, dma, gpu>>
  BY DEF OpenAqSetup, AqSetup, At
<1>2. asq' \in HostFrames
  BY <1>1, FrameOfFacts DEF ControlInv, BuffersInv, At, OwnedBy
<1>3. "enable" \in OpenSteps /\ call.step \in RegisterSteps \ {"bar"}
  BY <1>1 DEF OpenSteps, RegisterSteps
<1>4. ~Enabled' /\ ~rdy'
  BY <1>1 DEF ControlInv, StoppedInv, InCall, Enabled
<1>5. /\ CallInv' /\ DoubtsInv' /\ HeldInv' /\ StoppedInv' /\ BuffersInv'
      /\ call' \in Calls
  BY <1>1, <1>3, <1>4, RegisterStepFacts, OpenMoves DEF openVars
<1>6. TypeOK'
  BY <1>1, <1>2, <1>5 DEF ControlInv, TypeOK, ioqVars, qpVars, openVars
<1>. QED
  BY <1>5, <1>6 DEF ControlInv

LEMMA OpenEnableControl ==
    ASSUME ControlInv, OpenEnable, UNCHANGED <<dma, gpu>>
    PROVE  ControlInv'
<1>1. /\ call.name = "open" /\ call.step = "enable"
      /\ cc' = ConfigurationFor(cap) /\ Goto("wait_ready")
      /\ UNCHANGED <<cap, rdy, asq, ioqVars, pend, cpls, owner, qpVars, openVars, dma, gpu>>
  BY DEF OpenEnable, At, CcWrite
<1>2. "wait_ready" \in OpenSteps /\ call.step \in RegisterSteps \ {"bar"}
  BY <1>1 DEF OpenSteps, RegisterSteps
<1>3. /\ CallInv' /\ DoubtsInv' /\ HeldInv' /\ StoppedInv' /\ BuffersInv'
      /\ call' \in Calls
  BY <1>1, <1>2, RegisterStepFacts, OpenMoves DEF openVars
<1>4. cc' \subseteq 0 .. 31
  BY <1>1, ConfigurationFacts
<1>5. TypeOK'
  BY <1>1, <1>3, <1>4 DEF ControlInv, TypeOK, ioqVars, qpVars, openVars
<1>. QED
  BY <1>3, <1>5 DEF ControlInv

LEMMA OpenReadyControl ==
    ASSUME ControlInv, OpenReady, UNCHANGED <<dma, gpu>>
    PROVE  ControlInv'
<1>1. /\ call.name = "open" /\ call.step = "wait_ready"
      /\ UNCHANGED <<deviceVars, owner, qpVars, held, lateStop, lifeVars, dma, gpu>>
  BY DEF OpenReady, At
<1>2. CASE Return /\ ctrl' = "open"
  <2>1. call' = NoCall
    BY <1>2 DEF Return
  <2>2. TypeOK'
    BY <1>1, <1>2, <2>1, NoCallFacts DEF ControlInv, TypeOK, deviceVars, qpVars
  <2>3. CallInv' /\ DoubtsInv'
    BY <1>2, <2>1, NoCallFacts DEF CallInv, DoubtsInv, InCall
  <2>4. HeldInv' /\ StoppedInv'
    BY <1>1, <1>2, <2>1, NoCallFacts DEF ControlInv, HeldInv, StoppedInv, InCall, Enabled, deviceVars
  <2>5. BuffersInv'
    BY <1>1, <1>2, <2>1, NoCallFacts DEF ControlInv, BuffersInv, InCall, At
  <2>. QED
    BY <2>2, <2>3, <2>4, <2>5 DEF ControlInv
<1>3. CASE Fail
  BY <1>1, <1>3, FailKeeps
<1>. QED
  BY <1>2, <1>3 DEF OpenReady

LEMMA VfioAcquireControl ==
    ASSUME ControlInv, VfioAcquire, UNCHANGED gpu
    PROVE  ControlInv'
<1>1. /\ call.name = "open" /\ via = "vfio" /\ call.step \in DOMAIN VfioNext
      /\ UNCHANGED <<deviceVars, owner, qpVars, lateStop, lifeVars, dma, gpu>>
  BY DEF VfioAcquire
<1>2. CASE /\ held' = held \cup ({call.step} \cap Acquired)
           /\ Goto(VfioNext[call.step]) /\ UNCHANGED ctrl
  <2>. DEFINE s == VfioNext[call.step]
  <2>1. /\ s \in OpenSteps
        /\ s \notin RegisterSteps \ {"bar"}
        /\ s \in RegisterSteps \cup {"bus_master", "region"} => "device" \in held
    BY <1>1, VfioNextFacts DEF OpenSteps, RegisterSteps, ControlInv, HeldInv, InCall
  <2>2. s \notin {"wait_stopped", "aq", "enable", "aq_setup"}
    BY <2>1 DEF RegisterSteps
  <2>3. "device" \notin held => ~rdy /\ ~Enabled
    BY <1>1 DEF ControlInv, StoppedInv
  <2>4. "device" \notin held' => ~rdy' /\ ~Enabled'
    BY <1>1, <1>2, <2>3 DEF Enabled, deviceVars
  <2>. HIDE DEF s
  <2>5. Goto(s)
    BY <1>2 DEF s
  <2>6. /\ CallInv' /\ DoubtsInv' /\ HeldInv' /\ StoppedInv' /\ BuffersInv'
        /\ call' \in Calls
    BY <1>1, <1>2, <2>1, <2>2, <2>4, <2>5, OpenMoves
  <2>7. TypeOK'
    BY <1>1, <1>2, <2>6 DEF ControlInv, TypeOK, deviceVars, qpVars
  <2>. QED
    BY <2>6, <2>7 DEF ControlInv
<1>3. CASE Fail /\ UNCHANGED held
  BY <1>1, <1>3, FailKeeps
<1>. QED
  BY <1>2, <1>3 DEF VfioAcquire

LEMMA MapHeapControl ==
    ASSUME ControlInv, MapHeap, UNCHANGED gpu
    PROVE  ControlInv'
<1>1. /\ call.name = "open" /\ call.step = "map_heap"
      /\ UNCHANGED <<deviceVars, owner, qpVars, held, lateStop, lifeVars, gpu>>
  BY DEF MapHeap, At
<1>2. via = "vfio"
  BY <1>1 DEF ControlInv, CallInv, OpenSteps, RegisterSteps, TypeOK
<1>3. CASE /\ dma # Hugepages
           /\ dma' = dma \cup {Min(Hugepages \ dma)}
           /\ UNCHANGED <<call, ctrl>>
  <2>1. dma' \subseteq Hugepages
    <3>1. dma \subseteq Hugepages
      BY DEF ControlInv, TypeOK
    <3>2. Min(Hugepages \ dma) \in Hugepages \ dma
      BY <1>3, <3>1, HugepagesAssumption, MinOfNats
    <3>. QED
      BY <1>3, <3>1, <3>2
  <2>2. TypeOK'
    BY <1>1, <1>3, <2>1 DEF ControlInv, TypeOK, deviceVars, qpVars
  <2>3. CallInv' /\ DoubtsInv' /\ StoppedInv' /\ BuffersInv'
    BY <1>1, <1>3 DEF ControlInv, CallInv, DoubtsInv, StoppedInv, BuffersInv, NoBuffers, OwnedBy,
       InCall, At, Idle, Enabled, OpenSteps, deviceVars, qpVars
  <2>4. HeldInv'
    BY <1>1, <1>2, <1>3, NoCallFacts DEF ControlInv, HeldInv, InCall, Idle
  <2>. QED
    BY <2>2, <2>3, <2>4 DEF ControlInv
<1>4. CASE Goto("device") /\ UNCHANGED <<dma, ctrl>>
  <2>1. "device" \in OpenSteps /\ "device" \notin RegisterSteps \cup {"bus_master", "region"}
    BY <1>2 DEF OpenSteps, VfioSteps, RegisterSteps
  <2>2. "device" \notin held' => ~rdy' /\ ~Enabled'
    BY <1>1, <1>2 DEF ControlInv, StoppedInv, Enabled, deviceVars
  <2>3. /\ CallInv' /\ DoubtsInv' /\ HeldInv' /\ StoppedInv' /\ BuffersInv'
        /\ call' \in Calls
    BY <1>1, <1>2, <1>4, <2>1, <2>2, OpenMoves
  <2>4. TypeOK'
    BY <1>1, <1>4, <2>3 DEF ControlInv, TypeOK, deviceVars, qpVars
  <2>. QED
    BY <2>3, <2>4 DEF ControlInv
<1>5. CASE Fail /\ UNCHANGED dma
  BY <1>1, <1>5, FailKeeps
<1>. QED
  BY <1>3, <1>4, <1>5 DEF MapHeap

LEMMA GetDeviceFdControl ==
    ASSUME ControlInv, GetDeviceFd, UNCHANGED gpu
    PROVE  ControlInv'
<1>1. /\ call.name = "open" /\ call.step = "device"
      /\ UNCHANGED <<owner, qpVars, lateStop, lifeVars, dma, gpu>>
  BY DEF GetDeviceFd, At
<1>2. via = "vfio"
  BY <1>1 DEF ControlInv, CallInv, OpenSteps, RegisterSteps, TypeOK
<1>3. CASE /\ held' = held \cup {"device"} /\ FunctionReset /\ Goto("bus_master")
           /\ UNCHANGED ctrl
  <2>1. "bus_master" \in OpenSteps /\ "bus_master" \notin RegisterSteps
    BY <1>2 DEF OpenSteps, VfioSteps, VfioNext, RegisterSteps
  <2>2. /\ CallInv' /\ DoubtsInv' /\ HeldInv' /\ StoppedInv' /\ BuffersInv'
        /\ call' \in Calls
    BY <1>1, <1>2, <1>3, <2>1, OpenMoves
  <2>3. TypeOK'
    BY <1>1, <1>3, <2>2, FunctionResetFacts DEF ControlInv, TypeOK, Acquired, qpVars
  <2>. QED
    BY <2>2, <2>3 DEF ControlInv
<1>4. CASE Fail /\ UNCHANGED <<held, deviceVars>>
  BY <1>1, <1>4, FailKeeps
<1>. QED
  BY <1>3, <1>4 DEF GetDeviceFd

-----------------------------------------------------------------------------
(***************************************************************************)
(* ControlInv: creating and deleting.                                      *)
(***************************************************************************)
LEMMA BoundFacts ==
    ASSUME ControlInv
    PROVE  /\ MaxDoubts \in Nat /\ doubts \in Nat /\ doubts <= MaxDoubts + 1
           /\ doubts <= MaxDoubts => doubts + 1 \in 0 .. MaxDoubts + 1
<1>1. MaxDoubts \in Nat /\ doubts \in 0 .. MaxDoubts + 1
  BY ControllerAssumption DEF ControlInv, TypeOK
<1>. QED
  BY <1>1

\* A step of creating or deleting that goes on with the call.
LEMMA ServingGoto ==
    ASSUME ControlInv, NEW s \in Steps, Goto(s), UNCHANGED <<openVars, doubts>>,
           \/ call.name = "create" /\ s \in CreateSteps
           \/ /\ call.name = "delete" /\ s \in DeleteSteps
              /\ s \in {"delete_sq", "wait_delete_sq"} => doubts < MaxDoubts
              /\ s \in {"delete_cq", "wait_delete_cq"} => doubts <= MaxDoubts
    PROVE  call' \in Calls /\ call'.name \in {"create", "delete"} /\ CallInv' /\ DoubtsInv'
<1>1. /\ call' \in Calls /\ call'.name = call.name /\ call'.step = s
  BY GotoCall DEF ControlInv, TypeOK
<1>2. CallInv'
  BY <1>1 DEF ControlInv, CallInv, openVars
<1>3. DoubtsInv'
  BY <1>1 DEF ControlInv, DoubtsInv, InCall
<1>. QED
  BY <1>1, <1>2, <1>3

\* A call on an open controller that returns.
LEMMA ServingReturns ==
    ASSUME ControlInv, Return, UNCHANGED openVars
    PROVE  call' \in Calls /\ call'.name = "none" /\ CallInv' /\ DoubtsInv'
<1>1. call' = NoCall /\ call' \in Calls /\ call'.name = "none"
  BY NoCallFacts DEF Return
<1>2. CallInv' /\ DoubtsInv'
  BY <1>1 DEF ControlInv, CallInv, DoubtsInv, InCall, openVars
<1>. QED
  BY <1>1, <1>2

LEMMA CreateStartControl ==
    ASSUME ControlInv, NEW kind \in {"host", "gpu"}, CreateStart(kind),
           UNCHANGED <<dma, gpu>>
    PROVE  ControlInv'
<1>. DEFINE q == FindFree(qids)
<1>1. /\ ctrl = "open" /\ doubts < MaxDoubts
      /\ q # NoQid
      /\ qids' = QidAlloc(qids, q)
      /\ call' = [name |-> "create", step |-> "init", q |-> q, kind |-> kind]
      /\ UNCHANGED <<deviceVars, owner, openVars, qps, doubts, refused, dma, gpu>>
  BY DEF CreateStart, Steady
<1>2. qids \in SUBSET Tracked /\ qids \subseteq Qids
  BY DEF ControlInv, TypeOK
<1>3. q \in Tracked /\ q \in Qids /\ qids' = qids \cup {q}
  BY <1>1, <1>2, FindFreeFacts
<1>. HIDE DEF q
<1>4. call' \in Calls /\ call'.name = "create" /\ call'.step = "init"
  BY <1>1, <1>3 DEF Calls, Steps, CreateSteps, CudaNext
<1>5. TypeOK'
  BY <1>1, <1>2, <1>3, <1>4 DEF ControlInv, TypeOK, deviceVars, openVars
<1>6. CallInv' /\ DoubtsInv'
  BY <1>1, <1>4 DEF ControlInv, CallInv, DoubtsInv, InCall, CreateSteps, CudaNext, openVars
<1>7. HeldInv' /\ StoppedInv' /\ BuffersInv'
  BY <1>1, <1>4, ServingKeeps, ServingKeepsBuffers DEF deviceVars
<1>. QED
  BY <1>5, <1>6, <1>7 DEF ControlInv

\* What taking a frame for a queue changes.
LEMMA TakeForQueue ==
    ASSUME ControlInv, NEW heap \in {HostFrames, GpuFrames},
           call.q \in Qids, Take(heap, "queue", call.q)
    PROVE  /\ owner' \in [Frames -> {"free", "buf", "aq", "queue", "lost"} \X Qids]
           /\ \A f \in Frames : owner'[f] = owner[f] \/ owner'[f][1] \notin {"buf", "aq"}
<1>1. heap \in SUBSET Frames
  BY ControllerAssumption, GpuAssumption
<1>2. PICK f \in heap : owner[f] = Unused /\ owner' = [owner EXCEPT ![f] = <<"queue", call.q>>]
  BY <1>1, TakeFacts
<1>3. owner \in [Frames -> {"free", "buf", "aq", "queue", "lost"} \X Qids]
  BY DEF ControlInv, TypeOK
<1>. QED
  BY <1>1, <1>2, <1>3

\* What giving frames back changes.
LEMMA ReleaseFrames ==
    ASSUME ControlInv, NEW fs, Release(fs)
    PROVE  /\ owner' \in [Frames -> {"free", "buf", "aq", "queue", "lost"} \X Qids]
           /\ \A f \in Frames : owner'[f] = owner[f] \/ owner'[f][1] \notin {"buf", "aq"}
           /\ \A f \in Frames : f \in fs => owner'[f] = Unused
           /\ \A f \in Frames : f \notin fs => owner'[f] = owner[f]
BY QidFacts DEF ControlInv, TypeOK, Release, Unused

LEMMA CreateInitControl ==
    ASSUME ControlInv, CreateInit, UNCHANGED <<dma, gpu>>
    PROVE  ControlInv'
<1>1. /\ call.name = "create" /\ call.step = "init"
      /\ UNCHANGED <<deviceVars, openVars, qps, doubts, refused, dma, gpu>>
  BY DEF CreateInit, At
<1>2. ctrl = "open" /\ call.q \in Qids
  BY <1>1 DEF ControlInv, CallInv, TypeOK, Calls
<1>3. CASE Take(HostFrames, "queue", call.q) /\ Goto("create_cq") /\ UNCHANGED qids
  <2>1. /\ call' \in Calls /\ call'.name \in {"create", "delete"} /\ CallInv' /\ DoubtsInv'
    BY <1>1, <1>3, ServingGoto DEF Steps, CreateSteps
  <2>2. TypeOK'
    BY <1>1, <1>2, <1>3, <2>1, TakeForQueue DEF ControlInv, TypeOK, deviceVars, openVars
  <2>3. HeldInv' /\ StoppedInv' /\ BuffersInv'
    BY <1>1, <1>2, <1>3, <2>1, TakeForQueue, ServingKeeps, ServingKeepsBuffers DEF deviceVars
  <2>. QED
    BY <2>1, <2>2, <2>3 DEF ControlInv
<1>4. CASE qids' = QidFree(qids, call.q) /\ Return /\ UNCHANGED owner
  <2>1. /\ call' \in Calls /\ call'.name = "none" /\ CallInv' /\ DoubtsInv'
    BY <1>1, <1>4, ServingReturns
  <2>2. TypeOK'
    BY <1>1, <1>4, <2>1 DEF ControlInv, TypeOK, deviceVars, openVars, QidFree
  <2>3. HeldInv' /\ StoppedInv' /\ BuffersInv'
    BY <1>1, <1>2, <1>4, <2>1, ServingKeeps, ServingKeepsBuffers DEF deviceVars
  <2>. QED
    BY <2>1, <2>2, <2>3 DEF ControlInv
<1>. QED
  BY <1>3, <1>4 DEF CreateInit

\* What the steps of creating on the GPU take, give back and lead to.
LEMMA CudaStepFacts ==
    ASSUME NEW s \in DOMAIN CudaNext
    PROVE  /\ CudaTakes[s] \subseteq Items /\ CudaUndoes[s] \subseteq Items
           /\ CudaNext[s] \in CreateSteps
           /\ s \in CreateSteps
           /\ CudaNext[s] \in DOMAIN CudaNext => CudaUndoes[CudaNext[s]] = CudaUndoes[s] \cup CudaTakes[s]
           /\ CudaNext[s] \notin DOMAIN CudaNext => CudaUndoes[s] \cup CudaTakes[s] = Items
           /\ CudaNext[s] \in {"cq", "copy", "create_cq"} <=> s \in {"sq", "cq", "copy"}
           /\ CudaNext[s] # "init"
           /\ CudaNext[s] \in DOMAIN CudaNext \cup {"create_cq"}
           /\ s \in {"cq", "copy"} => CudaUndoes[s] \cap {"sq", "cq"} # {}
           /\ s \notin {"cq", "copy"} => CudaUndoes[s] \cap {"sq", "cq"} = {}
BY DEF CudaNext, CudaTakes, CudaUndoes, CreateSteps, Items

LEMMA CudaCreateTakeControl ==
    ASSUME ControlInv, CudaCreateTake
    PROVE  ControlInv'
<1>1. PICK s \in DOMAIN CudaNext :
         /\ call.name = "create" /\ call.step = s
         /\ gpu' = gpu \cup ItemsOf(call.q, CudaTakes[s])
         /\ Goto(CudaNext[s])
         /\ UNCHANGED <<deviceVars, openVars, qpVars, dma>>
         /\ Take(GpuFrames, "queue", call.q) \/ UNCHANGED owner
  BY DEF CudaCreateTake
<1>2. ctrl = "open" /\ call.q \in Qids
  BY <1>1 DEF ControlInv, CallInv, TypeOK, Calls
<1>3. PICK t \in CreateSteps : t = CudaNext[s]
  BY CudaStepFacts
<1>4. call' \in Calls /\ call'.name \in {"create", "delete"} /\ CallInv' /\ DoubtsInv'
  BY <1>1, <1>3, ServingGoto DEF Steps, qpVars
<1>5. gpu' \subseteq (Qids \cup {NoQid}) \X Items
  <2>1. CudaTakes[s] \subseteq Items
    BY CudaStepFacts
  <2>. QED
    BY <1>1, <1>2, <2>1 DEF ItemsOf, ControlInv, TypeOK
<1>6. /\ owner' \in [Frames -> {"free", "buf", "aq", "queue", "lost"} \X Qids]
      /\ \A f \in Frames : owner'[f] = owner[f] \/ owner'[f][1] \notin {"buf", "aq"}
  BY <1>1, <1>2, TakeForQueue DEF ControlInv, TypeOK
<1>7. TypeOK'
  BY <1>1, <1>4, <1>5, <1>6 DEF ControlInv, TypeOK, deviceVars, openVars, qpVars
<1>8. HeldInv' /\ StoppedInv' /\ BuffersInv'
  BY <1>1, <1>2, <1>4, <1>6, ServingKeeps, ServingKeepsBuffers DEF deviceVars
<1>. QED
  BY <1>4, <1>7, <1>8 DEF ControlInv

\* What giving back takes away.
LEMMA GiveBackFacts ==
    ASSUME ControlInv, NEW q, NEW items, GiveBack(q, items)
    PROVE  /\ gpu' \subseteq (Qids \cup {NoQid}) \X Items
           /\ owner' \in [Frames -> {"free", "buf", "aq", "queue", "lost"} \X Qids]
           /\ \A f \in Frames : owner'[f] = owner[f] \/ owner'[f][1] \notin {"buf", "aq"}
           /\ \A f \in Frames : owner[f] = <<"aq", 0>> => owner'[f] = owner[f]
<1>1. gpu' \subseteq (Qids \cup {NoQid}) \X Items
  BY DEF GiveBack, ControlInv, TypeOK
<1>2. Release(OwnedBy("queue", q)) \/ UNCHANGED owner
  BY DEF GiveBack
<1>3. CASE Release(OwnedBy("queue", q))
  <2>1. \A f \in Frames : owner[f] = <<"aq", 0>> => f \notin OwnedBy("queue", q)
    BY DEF OwnedBy
  <2>. QED
    BY <1>1, <1>3, <2>1, ReleaseFrames
<1>4. CASE UNCHANGED owner
  BY <1>1, <1>4 DEF ControlInv, TypeOK
<1>. QED
  BY <1>2, <1>3, <1>4

LEMMA CudaCreateFailControl ==
    ASSUME ControlInv, CudaCreateFail
    PROVE  ControlInv'
<1>1. /\ call.name = "create" /\ Return
      /\ qps' = [qps EXCEPT ![call.q] = "spent"]
      /\ GiveBack(call.q, CudaUndoes[call.step])
      /\ UNCHANGED <<deviceVars, openVars, qids, doubts, refused, dma>>
  BY DEF CudaCreateFail
<1>2. ctrl = "open" /\ call.q \in Qids
  BY <1>1 DEF ControlInv, CallInv, TypeOK, Calls
<1>3. /\ call' \in Calls /\ call'.name = "none" /\ CallInv' /\ DoubtsInv'
  BY <1>1, ServingReturns
<1>4. /\ gpu' \subseteq (Qids \cup {NoQid}) \X Items
      /\ owner' \in [Frames -> {"free", "buf", "aq", "queue", "lost"} \X Qids]
      /\ \A f \in Frames : owner'[f] = owner[f] \/ owner'[f][1] \notin {"buf", "aq"}
  BY <1>1, GiveBackFacts
<1>5. qps' \in [Qids -> {"none", "host", "gpu", "lost", "spent"}]
  BY <1>1 DEF ControlInv, TypeOK
<1>6. TypeOK'
  BY <1>1, <1>3, <1>4, <1>5 DEF ControlInv, TypeOK, deviceVars, openVars
<1>7. HeldInv' /\ StoppedInv' /\ BuffersInv'
  BY <1>1, <1>2, <1>3, <1>4, ServingKeeps, ServingKeepsBuffers DEF deviceVars
<1>. QED
  BY <1>3, <1>6, <1>7 DEF ControlInv

\* Only creating and deleting submit admin commands.
LEMMA AdminStepFacts ==
    ASSUME ControlInv, call.step \in DOMAIN AdminOps
    PROVE  /\ ctrl = "open"
           /\ AdminOps[call.step] \in Steps
           /\ \/ call.name = "create" /\ AdminOps[call.step] \in CreateSteps
              \/ /\ call.name = "delete" /\ AdminOps[call.step] \in DeleteSteps
                 /\ AdminOps[call.step] = "wait_delete_sq" => call.step = "delete_sq"
                 /\ AdminOps[call.step] = "wait_delete_cq" => call.step = "delete_cq"
<1>1. /\ call.step \in {"create_cq", "create_sq", "delete_sq", "delete_cq"}
      /\ call.step = "create_cq" => AdminOps[call.step] = "wait_create_cq"
      /\ call.step = "create_sq" => AdminOps[call.step] = "wait_create_sq"
      /\ call.step = "delete_sq" => AdminOps[call.step] = "wait_delete_sq"
      /\ call.step = "delete_cq" => AdminOps[call.step] = "wait_delete_cq"
  BY DEF AdminOps
<1>2. call.name \in {"create", "delete"} /\ ctrl = "open"
  BY <1>1, NoCallFacts DEF ControlInv, CallInv, TypeOK, Calls, OpenSteps, RegisterSteps, VfioSteps,
     VfioNext, CloseSteps
<1>3. /\ call.name = "create" => call.step \in CreateSteps
      /\ call.name = "delete" => call.step \in DeleteSteps
  BY DEF ControlInv, CallInv
<1>. QED
  BY <1>1, <1>2, <1>3 DEF CreateSteps, CudaNext, DeleteSteps, Steps

LEMMA CommandType ==
    ASSUME ControlInv, call.step \in DOMAIN AdminOps
    PROVE  Command(call.step) \in Commands
<1>1. call.q \in Qids
  BY DEF ControlInv, TypeOK, Calls
<1>2. OwnedBy("queue", call.q) # {} => FrameOf("queue", call.q) \in Frames
  BY FrameOfFacts DEF OwnedBy
<1>. QED
  BY <1>1, <1>2 DEF Command, Commands

LEMMA AdminSubmitControl ==
    ASSUME ControlInv, AdminSubmit, UNCHANGED <<dma, gpu>>
    PROVE  ControlInv'
<1>1. /\ call.step \in DOMAIN AdminOps
      /\ pend' = Append(pend, Command(call.step))
      /\ Goto(AdminOps[call.step])
      /\ UNCHANGED <<cap, cc, rdy, asq, ioqVars, cpls, owner, qpVars, openVars, dma, gpu>>
  BY DEF AdminSubmit, Submit
<1>2. /\ ctrl = "open" /\ AdminOps[call.step] \in Steps
      /\ \/ call.name = "create" /\ AdminOps[call.step] \in CreateSteps
         \/ /\ call.name = "delete" /\ AdminOps[call.step] \in DeleteSteps
            /\ AdminOps[call.step] = "wait_delete_sq" => call.step = "delete_sq"
            /\ AdminOps[call.step] = "wait_delete_cq" => call.step = "delete_cq"
      /\ AdminOps[call.step] \notin {"delete_sq", "delete_cq"}
  BY <1>1, AdminStepFacts DEF AdminOps
<1>. DEFINE s == AdminOps[call.step]
<1>3. /\ call.name = "delete" /\ s = "wait_delete_sq" => doubts < MaxDoubts
      /\ call.name = "delete" /\ s = "wait_delete_cq" => doubts <= MaxDoubts
  BY <1>2 DEF ControlInv, DoubtsInv, InCall
<1>. HIDE DEF s
<1>4. /\ call' \in Calls /\ call'.name \in {"create", "delete"} /\ CallInv' /\ DoubtsInv'
  BY <1>1, <1>2, <1>3, ServingGoto DEF s, qpVars
<1>5. TypeOK'
  BY <1>1, <1>4, CommandType DEF ControlInv, TypeOK, ioqVars, qpVars, openVars
<1>6. HeldInv' /\ StoppedInv' /\ BuffersInv'
  BY <1>1, <1>2, <1>4, ServingKeeps, ServingKeepsBuffers
<1>. QED
  BY <1>4, <1>5, <1>6 DEF ControlInv

\* Waiting for a completion, whether it came or not, changes nothing but the
\* admin completion queue.
LEMMA Waited ==
    ASSUME ControlInv, Reap(FALSE) \/ Reap(TRUE) \/ TimedOut
    PROVE  /\ cpls' \in Seq({"ok", "cq_invalid", "failed"})
           /\ UNCHANGED <<cap, cc, rdy, asq, ioqVars, pend>>
<1>1. cpls \in Seq({"ok", "cq_invalid", "failed"})
  BY DEF ControlInv, TypeOK
<1>2. cpls' = cpls \/ (cpls # <<>> /\ cpls' = Tail(cpls))
  BY DEF Reap, TimedOut, deviceVars
<1>3. cpls' \in Seq({"ok", "cq_invalid", "failed"})
  BY <1>1, <1>2
<1>4. UNCHANGED <<cap, cc, rdy, asq, ioqVars, pend>>
  BY DEF Reap, TimedOut, deviceVars, ioqVars
<1>. QED
  BY <1>3, <1>4

\* A call that waited and returns or goes on.
LEMMA WaitedControl ==
    ASSUME ControlInv, ctrl = "open", Reap(FALSE) \/ Reap(TRUE) \/ TimedOut,
           call' \in Calls, call'.name \in {"none", "create", "delete"}, CallInv', DoubtsInv',
           qps' \in [Qids -> {"none", "host", "gpu", "lost", "spent"}],
           doubts' \in 0 .. MaxDoubts + 1, refused' \subseteq Qids,
           UNCHANGED <<owner, openVars, qids, dma, gpu>>
    PROVE  ControlInv'
<1>1. TypeOK'
  BY Waited DEF ControlInv, TypeOK, openVars, ioqVars
<1>2. HeldInv' /\ StoppedInv' /\ BuffersInv'
  BY Waited, ServingKeeps, ServingKeepsBuffers
<1>. QED
  BY <1>1, <1>2 DEF ControlInv

\* Both completions of creating a queue pair.
LEMMA CreateDoneControl ==
    ASSUME ControlInv, CreateCqDone \/ CreateSqDone, UNCHANGED <<dma, gpu>>
    PROVE  ControlInv'
<1>1. /\ call.name = "create" /\ call.step \in {"wait_create_cq", "wait_create_sq"}
      /\ UNCHANGED <<owner, openVars, qids, refused, dma, gpu>>
  BY DEF CreateCqDone, CreateSqDone, At
<1>2. /\ ctrl = "open" /\ call.q \in Qids /\ call.kind \in {"host", "gpu"}
      /\ qps \in [Qids -> {"none", "host", "gpu", "lost", "spent"}]
      /\ doubts \in 0 .. MaxDoubts + 1 /\ doubts < MaxDoubts /\ refused' \subseteq Qids
  BY <1>1 DEF ControlInv, CallInv, DoubtsInv, TypeOK, Calls
<1>3. CASE Reap(FALSE) /\ Goto("create_sq") /\ UNCHANGED <<qps, doubts>>
  <2>1. /\ call' \in Calls /\ call'.name \in {"create", "delete"} /\ CallInv' /\ DoubtsInv'
    BY <1>1, <1>3, ServingGoto DEF Steps, CreateSteps
  <2>. QED
    BY <1>1, <1>2, <1>3, <2>1, WaitedControl
<1>4. CASE /\ Reap(FALSE)
           /\ qps' = [qps EXCEPT ![call.q] = call.kind] /\ Return
           /\ UNCHANGED doubts
  <2>1. /\ call' \in Calls /\ call'.name = "none" /\ CallInv' /\ DoubtsInv'
    BY <1>1, <1>4, ServingReturns
  <2>2. qps' \in [Qids -> {"none", "host", "gpu", "lost", "spent"}]
    BY <1>2, <1>4
  <2>. QED
    BY <1>1, <1>2, <1>4, <2>1, <2>2, WaitedControl
<1>5. CASE (Reap(TRUE) /\ Lose /\ UNCHANGED doubts) \/ (TimedOut /\ Lose /\ doubts' = doubts + 1)
  <2>1. /\ call' \in Calls /\ call'.name = "none" /\ CallInv' /\ DoubtsInv'
    BY <1>1, <1>5, ServingReturns DEF Lose
  <2>2. qps' \in [Qids -> {"none", "host", "gpu", "lost", "spent"}]
    BY <1>2, <1>5 DEF Lose
  <2>3. doubts' \in 0 .. MaxDoubts + 1
    <3>1. doubts <= MaxDoubts
      BY <1>2, BoundFacts
    <3>. QED
      BY <1>2, <1>5, <3>1, BoundFacts
  <2>. QED
    BY <1>1, <1>2, <1>5, <2>1, <2>2, <2>3, WaitedControl
<1>. QED
  BY <1>3, <1>4, <1>5 DEF CreateCqDone, CreateSqDone

\* A queue pair that is deleted, in host memory or on the GPU, or that could
\* not be read back from the GPU.
LEMMA DeleteStartControl ==
    ASSUME ControlInv, NEW q \in Qids,
           \/ DeleteHost(q) /\ UNCHANGED <<dma, gpu>>
           \/ CudaDelete(q)
           \/ CudaDeleteUnread(q)
    PROVE  ControlInv'
<1>1. /\ ctrl = "open" /\ doubts < MaxDoubts
      /\ UNCHANGED <<deviceVars, owner, openVars, qids, doubts, refused, dma>>
  BY DEF DeleteHost, CudaDelete, CudaDeleteUnread, DeleteStart, Steady, qpVars
<1>2. \E p \in Qids, k \in {"host", "gpu"} :
         call' = [name |-> "delete", step |-> "delete_sq", q |-> p, kind |-> k]
  BY QidFacts DEF DeleteHost, CudaDelete, CudaDeleteUnread, DeleteStart
<1>3. call' \in Calls /\ call'.name = "delete" /\ call'.step = "delete_sq"
  BY <1>2 DEF Calls, Steps, DeleteSteps
<1>4. /\ qps' \in [Qids -> {"none", "host", "gpu", "lost", "spent"}]
      /\ gpu' \subseteq (Qids \cup {NoQid}) \X Items
  BY DEF DeleteHost, CudaDelete, CudaDeleteUnread, qpVars, ControlInv, TypeOK
<1>5. TypeOK'
  BY <1>1, <1>3, <1>4 DEF ControlInv, TypeOK, deviceVars, openVars
<1>6. CallInv' /\ DoubtsInv'
  <2>1. doubts \in Nat /\ MaxDoubts \in Nat
    BY BoundFacts DEF ControlInv, TypeOK
  <2>. QED
    BY <1>1, <1>3, <2>1 DEF ControlInv, CallInv, DoubtsInv, InCall, DeleteSteps, openVars
<1>7. HeldInv' /\ StoppedInv' /\ BuffersInv'
  BY <1>1, <1>3, ServingKeeps, ServingKeepsBuffers DEF deviceVars
<1>. QED
  BY <1>5, <1>6, <1>7 DEF ControlInv

\* Both completions of deleting a queue pair.
LEMMA DeleteDoneControl ==
    ASSUME ControlInv, DeleteSqDone \/ DeleteCqDone, UNCHANGED <<dma, gpu>>
    PROVE  ControlInv'
<1>1. /\ call.name = "delete"
      /\ \/ call.step = "wait_delete_sq" /\ Goto("delete_cq")
         \/ call.step = "wait_delete_cq" /\ Goto("free")
      /\ Reap(FALSE) \/ Reap(TRUE) \/ TimedOut
      /\ doubts' = doubts \/ doubts' = doubts + 1
      /\ refused' \subseteq refused \cup {call.q}
      /\ UNCHANGED <<owner, openVars, qids, qps, dma, gpu>>
  BY DEF DeleteSqDone, DeleteCqDone, DeleteOutcome, At
<1>2. /\ ctrl = "open"
      /\ qps \in [Qids -> {"none", "host", "gpu", "lost", "spent"}]
      /\ doubts \in 0 .. MaxDoubts + 1 /\ refused' \subseteq Qids
      /\ call.step = "wait_delete_sq" => doubts < MaxDoubts
      /\ call.step = "wait_delete_cq" => doubts <= MaxDoubts
  BY <1>1 DEF ControlInv, CallInv, DoubtsInv, InCall, TypeOK, Calls
<1>3. doubts <= MaxDoubts
  BY <1>1, <1>2, BoundFacts
<1>4. /\ doubts' \in 0 .. MaxDoubts + 1
      /\ call.step = "wait_delete_sq" => doubts' <= MaxDoubts
  <2>1. doubts' \in 0 .. MaxDoubts + 1
    BY <1>1, <1>2, <1>3, BoundFacts
  <2>2. ASSUME call.step = "wait_delete_sq"
        PROVE  doubts' <= MaxDoubts
    <3>1. doubts' = doubts \/ doubts' = doubts + 1
      BY <1>1
    <3>2. doubts < MaxDoubts /\ doubts \in Nat /\ MaxDoubts \in Nat
      BY <1>2, <2>2, BoundFacts
    <3>. QED
      BY <3>1, <3>2
  <2>. QED
    BY <2>1, <2>2
<1>5. PICK s \in {"delete_cq", "free"} :
         Goto(s) /\ (s = "delete_cq" => call.step = "wait_delete_sq")
  BY <1>1
<1>6. /\ call' \in Calls /\ call'.name = "delete" /\ call'.step = s
  BY <1>1, <1>5, GotoCall DEF ControlInv, TypeOK, Steps, DeleteSteps
<1>7. CallInv' /\ DoubtsInv'
  BY <1>1, <1>4, <1>5, <1>6 DEF ControlInv, CallInv, DoubtsInv, InCall, DeleteSteps, openVars
<1>. QED
  BY <1>1, <1>2, <1>4, <1>6, <1>7, WaitedControl

LEMMA DeleteFreeControl ==
    ASSUME ControlInv, (DeleteFree /\ UNCHANGED <<dma, gpu>>) \/ CudaDeleteFree
    PROVE  ControlInv'
<1>1. /\ call.name = "delete" /\ Return
      /\ UNCHANGED <<deviceVars, openVars, doubts, refused, dma>>
  BY DEF DeleteFree, CudaDeleteFree, At
<1>2. ctrl = "open" /\ call.q \in Qids
  BY <1>1 DEF ControlInv, CallInv, TypeOK, Calls
<1>3. /\ qids' \subseteq qids
      /\ qps' \in [Qids -> {"none", "host", "gpu", "lost", "spent"}]
  BY <1>2 DEF DeleteFree, CudaDeleteFree, QidFree, ControlInv, TypeOK
<1>4. /\ call' \in Calls /\ call'.name = "none" /\ CallInv' /\ DoubtsInv'
  BY <1>1, ServingReturns
<1>5. /\ gpu' \subseteq (Qids \cup {NoQid}) \X Items
      /\ owner' \in [Frames -> {"free", "buf", "aq", "queue", "lost"} \X Qids]
      /\ \A f \in Frames : owner'[f] = owner[f] \/ owner'[f][1] \notin {"buf", "aq"}
  <2>1. CASE DeleteFree /\ UNCHANGED gpu
    <3>1. Release(OwnedBy("queue", call.q)) /\ gpu' = gpu
      BY <2>1 DEF DeleteFree
    <3>. QED
      BY <3>1, ReleaseFrames DEF ControlInv, TypeOK
  <2>2. CASE GiveBack(call.q, {"sq", "cq"})
    BY <2>2, GiveBackFacts
  <2>. QED
    BY <2>1, <2>2 DEF CudaDeleteFree
<1>6. TypeOK'
  BY <1>1, <1>3, <1>4, <1>5 DEF ControlInv, TypeOK, deviceVars, openVars
<1>7. HeldInv' /\ StoppedInv' /\ BuffersInv'
  BY <1>1, <1>2, <1>4, <1>5, ServingKeeps, ServingKeepsBuffers DEF deviceVars
<1>. QED
  BY <1>4, <1>6, <1>7 DEF ControlInv

-----------------------------------------------------------------------------
(***************************************************************************)
(* ControlInv: closing, the process's death, and the controller by itself. *)
(***************************************************************************)
LEMMA FreeAqAndBufFacts ==
    ASSUME ControlInv, FreeAqAndBuf
    PROVE  /\ owner' \in [Frames -> {"free", "buf", "aq", "queue", "lost"} \X Qids]
           /\ NoBuffers'
           /\ \A f \in Frames : owner'[f] = owner[f] \/ owner'[f] = Unused
<1>. DEFINE fs == OwnedBy("aq", 0) \cup OwnedBy("buf", 0)
<1>1. Release(fs)
  BY DEF FreeAqAndBuf
<1>2. ASSUME NEW f \in Frames, owner[f][1] \in {"buf", "aq"}
      PROVE  f \in fs
  <2>1. owner[f] \in {"free", "buf", "aq", "queue", "lost"} \X Qids /\ owner[f][2] = 0
    BY <1>2 DEF ControlInv, TypeOK, BuffersInv
  <2>. QED
    BY <1>2, <2>1 DEF OwnedBy
<1>. HIDE DEF fs
<1>3. /\ owner' \in [Frames -> {"free", "buf", "aq", "queue", "lost"} \X Qids]
      /\ \A f \in Frames : f \in fs => owner'[f] = Unused
      /\ \A f \in Frames : f \notin fs => owner'[f] = owner[f]
  BY <1>1, ReleaseFrames
<1>4. NoBuffers'
  BY <1>2, <1>3 DEF NoBuffers, Unused
<1>. QED
  BY <1>3, <1>4

LEMMA EmptyPairs ==
    /\ [q \in Qids |-> "none"] \in [Qids -> {"none", "host", "gpu", "lost", "spent"}]
    /\ 0 \in 0 .. MaxDoubts + 1
BY ControllerAssumption

LEMMA CloseControl ==
    ASSUME ControlInv, Close, UNCHANGED <<dma, gpu>>
    PROVE  ControlInv'
<1>1. /\ call = NoCall /\ via = "sysfs"
      /\ FreeAqAndBuf
      /\ held' = {} /\ ctrl' = "down"
      /\ qids' = {} /\ qps' = [q \in Qids |-> "none"] /\ doubts' = 0 /\ refused' = {}
      /\ UNCHANGED <<deviceVars, call, lateStop, lifeVars, dma, gpu>>
  BY DEF Close, Closed, Idle
<1>2. dma = {}
  BY <1>1 DEF ControlInv, HeldInv
<1>3. TypeOK'
  BY <1>1, EmptyPairs, FreeAqAndBufFacts DEF ControlInv, TypeOK, deviceVars
<1>4. CallInv' /\ DoubtsInv'
  BY <1>1, NoCallFacts DEF CallInv, DoubtsInv, InCall
<1>5. HeldInv' /\ StoppedInv'
  BY <1>1, <1>2, NoCallFacts DEF HeldInv, StoppedInv, InCall
<1>6. BuffersInv'
  BY <1>1, FreeAqAndBufFacts, NoCallFacts DEF BuffersInv, NoBuffers, InCall, At
<1>. QED
  BY <1>3, <1>4, <1>5, <1>6 DEF ControlInv

LEMMA CloseVfioControl ==
    ASSUME ControlInv, CloseVfio, UNCHANGED gpu
    PROVE  ControlInv'
<1>1. /\ call = NoCall /\ ctrl = "open" /\ via = "vfio"
      /\ call' = Called("close", "stop")
      /\ UNCHANGED <<deviceVars, owner, qpVars, openVars, dma, gpu>>
  BY DEF CloseVfio, Idle
<1>2. call' \in Calls /\ call'.name = "close" /\ call'.step = "stop"
  BY <1>1, CalledFacts DEF Steps, CloseSteps
<1>3. TypeOK'
  BY <1>1, <1>2 DEF ControlInv, TypeOK, deviceVars, qpVars, openVars
<1>4. CallInv' /\ DoubtsInv'
  BY <1>1, <1>2 DEF CallInv, DoubtsInv, InCall, CloseSteps, openVars
<1>5. HeldInv' /\ StoppedInv'
  BY <1>1, <1>2 DEF ControlInv, HeldInv, StoppedInv, InCall, Enabled, deviceVars, openVars
<1>6. BuffersInv'
  BY <1>1, <1>2 DEF ControlInv, BuffersInv, InCall, At, openVars
<1>. QED
  BY <1>3, <1>4, <1>5, <1>6 DEF ControlInv

LEMMA CloseStopControl ==
    ASSUME ControlInv, CloseStop, UNCHANGED gpu
    PROVE  ControlInv'
<1>1. /\ call.name = "close" /\ call.step = "stop"
      /\ \/ CcWrite(CcDisable(cc))
         \/ UNCHANGED deviceVars
      /\ UNCHANGED <<owner, qpVars, openVars, dma, gpu>>
  BY DEF CloseStop, At
<1>2. PICK s \in {"wait_stopped", "free"} : Goto(s)
  BY DEF CloseStop
<1>3. call' \in Calls /\ call'.name = "close" /\ call'.step = s /\ CallInv' /\ DoubtsInv' /\ ~Idle'
  BY <1>1, <1>2, CallMoves DEF ControlInv, Steps, CloseSteps, qpVars, openVars
<1>4. /\ cc' = CcDisable(cc) \/ cc' = cc
      /\ UNCHANGED <<cap, rdy, asq, cqs, sqs, pend, cpls>>
  BY <1>1 DEF CcWrite, deviceVars, ioqVars
<1>5. cc' \subseteq cc
  BY <1>4 DEF CcDisable
<1>6. TypeOK'
  BY <1>1, <1>3, <1>4, <1>5 DEF ControlInv, TypeOK, qpVars, openVars
<1>7. HeldInv'
  BY <1>1, <1>3 DEF ControlInv, HeldInv, InCall, openVars
<1>8. StoppedInv'
  BY <1>1, <1>3, <1>4, <1>5 DEF ControlInv, StoppedInv, InCall, Enabled, openVars
<1>9. BuffersInv'
  BY <1>1, <1>3 DEF ControlInv, BuffersInv, InCall, At, openVars
<1>. QED
  BY <1>3, <1>6, <1>7, <1>8, <1>9 DEF ControlInv

LEMMA CloseStoppedControl ==
    ASSUME ControlInv, CloseStopped, UNCHANGED gpu
    PROVE  ControlInv'
<1>1. /\ call.name = "close" /\ call.step = "wait_stopped"
      /\ lateStop' = (lateStop \/ rdy) /\ Goto("free")
      /\ UNCHANGED <<deviceVars, owner, qpVars, ctrl, held, lifeVars, dma, gpu>>
  BY DEF CloseStopped, At
<1>2. call' \in Calls /\ call'.name = "close" /\ call'.step = "free" /\ CallInv' /\ DoubtsInv' /\ ~Idle'
  BY <1>1, CallMoves DEF ControlInv, Steps, CloseSteps, qpVars
<1>3. lateStop' \in BOOLEAN
  BY <1>1
<1>4. TypeOK'
  BY <1>1, <1>2, <1>3 DEF ControlInv, TypeOK, deviceVars, qpVars
<1>5. HeldInv' /\ StoppedInv'
  BY <1>1, <1>2 DEF ControlInv, HeldInv, StoppedInv, InCall, Enabled, deviceVars
<1>6. BuffersInv'
  BY <1>1, <1>2 DEF ControlInv, BuffersInv, InCall, At
<1>. QED
  BY <1>2, <1>4, <1>5, <1>6 DEF ControlInv

LEMMA CloseFreeControl ==
    ASSUME ControlInv, CloseFree, UNCHANGED gpu
    PROVE  ControlInv'
<1>1. /\ call.name = "close" /\ call.step = "free"
      /\ FreeAqAndBuf /\ Goto("ctx_bar")
      /\ UNCHANGED <<deviceVars, qpVars, openVars, dma, gpu>>
  BY DEF CloseFree, At
<1>2. call' \in Calls /\ call'.name = "close" /\ call'.step = "ctx_bar" /\ CallInv' /\ DoubtsInv' /\ ~Idle'
  BY <1>1, CallMoves DEF ControlInv, Steps, CloseSteps, qpVars, openVars
<1>3. TypeOK'
  BY <1>1, <1>2, FreeAqAndBufFacts DEF ControlInv, TypeOK, deviceVars, qpVars, openVars
<1>4. HeldInv' /\ StoppedInv'
  BY <1>1, <1>2 DEF ControlInv, HeldInv, StoppedInv, InCall, Enabled, deviceVars, openVars
<1>5. BuffersInv'
  BY <1>1, <1>2, FreeAqAndBufFacts DEF BuffersInv, NoBuffers, InCall, At
<1>. QED
  BY <1>2, <1>3, <1>4, <1>5 DEF ControlInv

LEMMA CtxCloseBarControl ==
    ASSUME ControlInv, CtxCloseBar, UNCHANGED gpu
    PROVE  ControlInv'
<1>1. /\ call.name = "close" /\ call.step = "ctx_bar"
      /\ held' = held \ {"bar"} /\ Goto("ctx_device")
      /\ UNCHANGED <<deviceVars, owner, qpVars, ctrl, lateStop, lifeVars, dma, gpu>>
  BY DEF CtxCloseBar, At
<1>2. call' \in Calls /\ call'.name = "close" /\ call'.step = "ctx_device" /\ CallInv' /\ DoubtsInv' /\ ~Idle'
  BY <1>1, CallMoves DEF ControlInv, Steps, CloseSteps, qpVars
<1>3. TypeOK'
  BY <1>1, <1>2 DEF ControlInv, TypeOK, deviceVars, qpVars
<1>4. HeldInv'
  BY <1>1, <1>2 DEF ControlInv, HeldInv, InCall
<1>5. StoppedInv'
  BY <1>1, <1>2 DEF ControlInv, StoppedInv, InCall, Enabled, deviceVars
<1>6. BuffersInv'
  BY <1>1, <1>2 DEF ControlInv, BuffersInv, NoBuffers, InCall, At
<1>. QED
  BY <1>2, <1>3, <1>4, <1>5, <1>6 DEF ControlInv

LEMMA CtxCloseDeviceControl ==
    ASSUME ControlInv, CtxCloseDevice, UNCHANGED gpu
    PROVE  ControlInv' /\ ~rdy'
<1>1. /\ call.name = "close" /\ call.step = "ctx_device"
      /\ held' = held \ {"device"} /\ Goto("ctx_unmap")
      /\ UNCHANGED <<owner, qpVars, ctrl, lateStop, lifeVars, dma, gpu>>
  BY DEF CtxCloseDevice, At
<1>2. via = "vfio"
  BY <1>1 DEF ControlInv, CallInv
<1>3. call' \in Calls /\ call'.name = "close" /\ call'.step = "ctx_unmap" /\ CallInv' /\ DoubtsInv' /\ ~Idle'
  BY <1>1, CallMoves DEF ControlInv, Steps, CloseSteps, qpVars
<1>4. ASSUME "device" \in held
      PROVE  TypeOK' /\ ~rdy' /\ ~Enabled'
  <2>1. FunctionReset
    BY <1>4 DEF CtxCloseDevice
  <2>2. TypeOK'
    BY <1>1, <1>3, <2>1, FunctionResetFacts DEF ControlInv, TypeOK, qpVars
  <2>3. ~rdy' /\ ~Enabled'
    BY <2>1, FunctionResetFacts DEF ControlInv
  <2>. QED
    BY <2>2, <2>3
<1>5. ASSUME "device" \notin held
      PROVE  TypeOK' /\ ~rdy' /\ ~Enabled'
  <2>1. UNCHANGED deviceVars
    BY <1>5 DEF CtxCloseDevice
  <2>2. TypeOK'
    BY <1>1, <1>3, <2>1 DEF ControlInv, TypeOK, deviceVars, qpVars
  <2>3. ~rdy' /\ ~Enabled'
    BY <1>2, <1>5, <2>1 DEF ControlInv, StoppedInv, Enabled, deviceVars
  <2>. QED
    BY <2>2, <2>3
<1>6. HeldInv' /\ StoppedInv'
  BY <1>1, <1>3, <1>4, <1>5 DEF ControlInv, HeldInv, StoppedInv, InCall
<1>7. BuffersInv'
  BY <1>1, <1>3 DEF ControlInv, BuffersInv, NoBuffers, InCall, At
<1>. QED
  BY <1>3, <1>4, <1>5, <1>6, <1>7 DEF ControlInv

LEMMA CtxUnmapControl ==
    ASSUME ControlInv, CtxUnmap, UNCHANGED gpu
    PROVE  ControlInv' /\ ~rdy'
<1>1. /\ call.name = "close" /\ call.step = "ctx_unmap"
      /\ dma' \subseteq dma /\ Goto("ctx_fds")
      /\ UNCHANGED <<deviceVars, owner, qpVars, openVars, gpu>>
  BY DEF CtxUnmap, At
<1>2. call' \in Calls /\ call'.name = "close" /\ call'.step = "ctx_fds" /\ CallInv' /\ DoubtsInv' /\ ~Idle'
  BY <1>1, CallMoves DEF ControlInv, Steps, CloseSteps, qpVars, openVars
<1>3. TypeOK'
  BY <1>1, <1>2 DEF ControlInv, TypeOK, deviceVars, qpVars, openVars
<1>4. HeldInv'
  BY <1>1, <1>2 DEF ControlInv, HeldInv, InCall, openVars
<1>5. StoppedInv'
  BY <1>1, <1>2 DEF ControlInv, StoppedInv, InCall, Enabled, deviceVars, openVars
<1>6. BuffersInv'
  BY <1>1, <1>2 DEF ControlInv, BuffersInv, NoBuffers, InCall, At, openVars
<1>7. ~rdy'
  BY <1>1 DEF ControlInv, CallInv, HeldInv, StoppedInv, InCall, deviceVars
<1>. QED
  BY <1>2, <1>3, <1>4, <1>5, <1>6, <1>7 DEF ControlInv

LEMMA CtxCloseFdsControl ==
    ASSUME ControlInv, CtxCloseFds, UNCHANGED gpu
    PROVE  ControlInv' /\ ~rdy'
<1>1. /\ call.name = "close" /\ call.step = "ctx_fds"
      /\ held' = held \ {"group", "container", "iommu"}
      /\ dma' = IF {"device", "group", "container"} \cap held' = {} THEN {} ELSE dma
      /\ ctrl' = "down" /\ call' = NoCall
      /\ qids' = {} /\ qps' = [q \in Qids |-> "none"] /\ doubts' = 0 /\ refused' = {}
      /\ UNCHANGED <<deviceVars, owner, lateStop, lifeVars, gpu>>
  BY DEF CtxCloseFds, Closed, Return, At
<1>2. via = "vfio" /\ "bar" \notin held /\ "device" \notin held /\ ~rdy /\ ~Enabled /\ NoBuffers
  BY <1>1 DEF ControlInv, CallInv, HeldInv, StoppedInv, BuffersInv, InCall
<1>3. held' = {} /\ dma' = {}
  BY <1>1, <1>2 DEF ControlInv, TypeOK, Acquired
<1>4. TypeOK'
  BY <1>1, <1>3, EmptyPairs, NoCallFacts DEF ControlInv, TypeOK, deviceVars
<1>5. CallInv' /\ DoubtsInv'
  BY <1>1, NoCallFacts DEF CallInv, DoubtsInv, InCall
<1>6. HeldInv' /\ StoppedInv' /\ ~rdy'
  BY <1>1, <1>2, <1>3, NoCallFacts DEF HeldInv, StoppedInv, InCall, Enabled, deviceVars
<1>7. BuffersInv'
  BY <1>1, <1>2, NoCallFacts DEF BuffersInv, NoBuffers, InCall, At
<1>. QED
  BY <1>4, <1>5, <1>6, <1>7 DEF ControlInv

LEMMA CrashControl ==
    ASSUME ControlInv, CudaCrash
    PROVE  ControlInv' /\ (~(dma \subseteq dma') => ~rdy')
<1>1. /\ owner' = [f \in Frames |-> Unused] /\ call' = NoCall
      /\ ctrl' = "down" /\ held' = {} /\ dma' = {} /\ gpu' = {}
      /\ qids' = {} /\ qps' = [q \in Qids |-> "none"] /\ doubts' = 0 /\ refused' = {}
      /\ forgot' = {} /\ again' = FALSE
      /\ UNCHANGED <<via, lateStop>>
      /\ IF "device" \in held THEN FunctionReset ELSE UNCHANGED deviceVars
  BY DEF CudaCrash, Crash, ProcessDies, Return
<1>2. /\ cap' \in Caps /\ cc' \subseteq 0 .. 31 /\ rdy' \in BOOLEAN
      /\ asq' \in HostFrames \cup {NoFrame}
      /\ cqs' \in [Qids -> Frames \cup {NoFrame}]
      /\ sqs' \in [Qids -> Frames \cup {NoFrame}]
      /\ pend' \in Seq(Commands) /\ cpls' \in Seq({"ok", "cq_invalid", "failed"})
  BY <1>1, FunctionResetFacts DEF ControlInv, TypeOK, deviceVars
<1>3. /\ owner' \in [Frames -> {"free", "buf", "aq", "queue", "lost"} \X Qids]
      /\ NoBuffers'
  BY <1>1, QidFacts DEF Unused, NoBuffers
<1>4. TypeOK'
  BY <1>1, <1>2, <1>3, EmptyPairs, NoCallFacts DEF ControlInv, TypeOK
<1>5. CallInv' /\ DoubtsInv'
  BY <1>1, NoCallFacts DEF CallInv, DoubtsInv, InCall
<1>6. via = "vfio" => ~rdy' /\ ~Enabled'
  BY <1>1, FunctionResetFacts DEF ControlInv, StoppedInv, Enabled, deviceVars
<1>7. HeldInv' /\ StoppedInv'
  BY <1>1, <1>6, NoCallFacts DEF HeldInv, StoppedInv, InCall
<1>8. BuffersInv'
  BY <1>1, <1>3, NoCallFacts DEF BuffersInv, NoBuffers, InCall, At
<1>9. ~(dma \subseteq dma') => ~rdy'
  BY <1>6 DEF ControlInv, HeldInv, TypeOK
<1>. QED
  BY <1>4, <1>5, <1>7, <1>8, <1>9 DEF ControlInv

LEMMA DeviceControl ==
    ASSUME ControlInv, Device, UNCHANGED <<hostVars, dma, gpu>>
    PROVE  ControlInv'
<1>1. UNCHANGED <<cap, cc, asq, call, owner, qids, qps, doubts, refused, ctrl, held, lateStop,
                  via, forgot, again>>
  BY DEF Device, DeviceStops, DeviceStarts, DeviceExecutes, hostVars, qpVars, openVars
<1>2. rdy' \in BOOLEAN /\ (rdy' => rdy \/ Enabled)
  BY DEF Device, DeviceStops, DeviceStarts, DeviceExecutes, ControlInv, TypeOK
<1>3. /\ cqs' \in [Qids -> Frames \cup {NoFrame}] /\ sqs' \in [Qids -> Frames \cup {NoFrame}]
      /\ pend' \in Seq(Commands) /\ cpls' \in Seq({"ok", "cq_invalid", "failed"})
  <2>1. CASE DeviceStops
    BY <2>1 DEF DeviceStops, NoQueues, ControlInv, TypeOK
  <2>2. CASE DeviceStarts
    BY <2>2 DEF DeviceStarts, ioqVars, ControlInv, TypeOK
  <2>3. CASE DeviceExecutes
    <3>1. PICK i \in DOMAIN pend :
             /\ pend' = RemoveAt(pend, i)
             /\ \/ Carried(pend[i]) /\ cpls' = Append(cpls, "ok")
                \/ /\ pend[i].op = "create_sq" /\ cqs[pend[i].q] = NoFrame
                   /\ cpls' = Append(cpls, "cq_invalid") /\ UNCHANGED ioqVars
                \/ cpls' = Append(cpls, "failed") /\ UNCHANGED ioqVars
      BY <2>3 DEF DeviceExecutes
    <3>2. pend \in Seq(Commands) /\ cpls \in Seq({"ok", "cq_invalid", "failed"})
      BY DEF ControlInv, TypeOK
    <3>3. cpls' \in Seq({"ok", "cq_invalid", "failed"})
      <4>1. PICK s \in {"ok", "cq_invalid", "failed"} : cpls' = Append(cpls, s)
        BY <3>1
      <4>. QED
        BY <3>2, <4>1
    <3>4. pend' \in Seq(Commands) /\ pend[i] \in Commands
      BY <3>1, <3>2 DEF RemoveAt
    <3>5. pend[i].frame \in Frames \cup {NoFrame}
      BY <3>4 DEF Commands
    <3>6. /\ cqs' \in [Qids -> Frames \cup {NoFrame}] /\ sqs' \in [Qids -> Frames \cup {NoFrame}]
      BY <3>1, <3>5 DEF Carried, ioqVars, ControlInv, TypeOK
    <3>. QED
      BY <3>3, <3>4, <3>6
  <2>. QED
    BY <2>1, <2>2, <2>3 DEF Device
<1>4. TypeOK'
  BY <1>1, <1>2, <1>3 DEF ControlInv, TypeOK
<1>5. CallInv' /\ DoubtsInv' /\ HeldInv' /\ BuffersInv'
  BY <1>1 DEF ControlInv, CallInv, DoubtsInv, HeldInv, BuffersInv, NoBuffers, OwnedBy, OpenSteps,
     InCall, At, Idle
<1>6. StoppedInv'
  BY <1>1, <1>2 DEF ControlInv, StoppedInv, InCall, Enabled
<1>. QED
  BY <1>4, <1>5, <1>6 DEF ControlInv

LEMMA StutterControl ==
    ASSUME ControlInv, UNCHANGED allVars
    PROVE  ControlInv'
<1>1. UNCHANGED <<cap, cc, rdy, asq, cqs, sqs, pend, cpls, call, owner, qids, qps, doubts,
                  refused, ctrl, held, lateStop, via, forgot, again, dma, gpu>>
  BY DEF allVars, deviceVars, hostVars, qpVars, openVars
<1>. QED
  BY <1>1 DEF ControlInv, TypeOK, CallInv, DoubtsInv, HeldInv, StoppedInv, BuffersInv, NoBuffers,
     OwnedBy, OpenSteps, InCall, At, Idle, Enabled

-----------------------------------------------------------------------------
(***************************************************************************)
(* What follows from ControlInv.                                           *)
(***************************************************************************)
\* Every step of a call, of the controller or of the system preserves it; and
\* if it unmaps a page, the controller has stopped.
LEMMA NextControl ==
    ASSUME ControlInv, [Next]_allVars
    PROVE  ControlInv' /\ (~(dma \subseteq dma') => ~rdy')
<1>1. ASSUME ControllerNext, UNCHANGED <<dma, gpu>>
      PROVE  ControlInv'
  <2>2. CASE OpenStep
    BY <1>1, <2>2, OpenFuncControl, OpenBarControl, OpenDisableControl, OpenStoppedControl,
       OpenAqControl, OpenAqSetupControl, OpenEnableControl, OpenReadyControl DEF OpenStep
  <2>3. CASE CreateStart("host")
    BY <1>1, <2>3, CreateStartControl
  <2>4. CASE QueueStep
    BY <1>1, <2>4, CreateInitControl, AdminSubmitControl, CreateDoneControl, DeleteDoneControl,
       DeleteFreeControl DEF QueueStep
  <2>5. CASE \E q \in Qids : DeleteHost(q)
    BY <1>1, <2>5, DeleteStartControl
  <2>6. CASE Close
    BY <1>1, <2>6, CloseControl
  <2>. QED
    BY <1>1, <2>2, <2>3, <2>4, <2>5, <2>6 DEF ControllerNext
<1>2. ASSUME VfioStep, UNCHANGED gpu
      PROVE  ControlInv' /\ (~(dma \subseteq dma') => ~rdy')
  <2>1. CASE VfioAcquire
    BY <1>2, <2>1, VfioAcquireControl DEF VfioAcquire
  <2>2. CASE MapHeap
    <3>1. dma \subseteq dma'
      BY <2>2 DEF MapHeap
    <3>. QED
      BY <1>2, <2>2, <3>1, MapHeapControl
  <2>3. CASE GetDeviceFd
    BY <1>2, <2>3, GetDeviceFdControl DEF GetDeviceFd
  <2>4. CASE CloseStop
    BY <1>2, <2>4, CloseStopControl DEF CloseStop
  <2>5. CASE CloseStopped
    BY <1>2, <2>5, CloseStoppedControl DEF CloseStopped
  <2>6. CASE CloseFree
    BY <1>2, <2>6, CloseFreeControl DEF CloseFree
  <2>7. CASE CtxCloseBar
    BY <1>2, <2>7, CtxCloseBarControl DEF CtxCloseBar
  <2>8. CASE CtxCloseDevice
    BY <1>2, <2>8, CtxCloseDeviceControl
  <2>9. CASE CtxUnmap
    BY <1>2, <2>9, CtxUnmapControl
  <2>10. CASE CtxCloseFds
    BY <1>2, <2>10, CtxCloseFdsControl
  <2>. QED
    BY <1>2, <2>1, <2>2, <2>3, <2>4, <2>5, <2>6, <2>7, <2>8, <2>9, <2>10 DEF VfioStep
<1>3. CASE VfioControllerNext /\ UNCHANGED gpu
  <2>1. CASE ControllerNext /\ UNCHANGED dma
    BY <1>1, <1>3, <2>1
  <2>2. CASE Device /\ UNCHANGED <<hostVars, dma>>
    BY <1>3, <2>2, DeviceControl
  <2>4. CASE VfioStep
    BY <1>2, <1>3, <2>4
  <2>5. CASE CloseVfio
    BY <1>3, <2>5, CloseVfioControl DEF CloseVfio
  <2>. QED
    BY <1>3, <2>1, <2>2, <2>4, <2>5 DEF VfioControllerNext
<1>4. CASE CreateStart("gpu") /\ UNCHANGED <<dma, gpu>>
  BY <1>4, CreateStartControl
<1>5. CASE CudaCreateTake \/ CudaCreateFail
  BY <1>5, CudaCreateTakeControl, CudaCreateFailControl DEF CudaCreateTake, CudaCreateFail
<1>6. CASE \E q \in Qids : CudaDelete(q) \/ CudaDeleteUnread(q)
  BY <1>6, DeleteStartControl DEF CudaDelete, CudaDeleteUnread
<1>7. CASE CudaDeleteFree
  BY <1>7, DeleteFreeControl DEF CudaDeleteFree
<1>8. CASE CudaCrash
  BY <1>8, CrashControl
<1>9. CASE UNCHANGED allVars
  BY <1>9, StutterControl DEF allVars
<1>10. CASE CudaOpenStart
  BY <1>10, OpenStartControl DEF CudaOpenStart, ControllerOpenStart
<1>. QED
  BY <1>3, <1>4, <1>5, <1>6, <1>7, <1>8, <1>9, <1>10 DEF Next

\* What open, close and their failures keep about registers, descriptors and
\* buffers, at whichever step the process is or dies.
THEOREM ControllerControl == Spec => []ControlInv
<1>1. Init => ControlInv
  BY InitControl
<1>2. ControlInv /\ [Next]_allVars => ControlInv'
  BY NextControl
<1>. QED
  BY <1>1, <1>2, PTL DEF Spec

\* Every variable keeps its type: the bitmap never hands out an identifier
\* without a bit, pages beyond the heap are never mapped, and doubts stay
\* within the bound of the model.
THEOREM ControllerTypeCorrect == Spec => []TypeOK
<1>1. ControlInv => TypeOK
  BY DEF ControlInv
<1>. QED
  BY <1>1, ControllerControl, PTL

\* nvme_mmio_aq_setup's assumption: its registers are written, and the
\* controller enabled, only when it is disabled and not ready.
THEOREM ControllerAdminQueueSetUpWhenStopped == Spec => []AdminQueueSetUpWhenStopped
<1>1. ControlInv => AdminQueueSetUpWhenStopped
  BY DEF ControlInv, StoppedInv, AdminQueueSetUpWhenStopped, InCall, At
<1>. QED
  BY <1>1, ControllerControl, PTL

\* Steps other than opening and dying neither forget nor open again.
LEMMA NextLife ==
    ASSUME ControlInv, LifeInv, [Next]_allVars
    PROVE  LifeInv'
<1>1. CASE CudaOpenStart
  BY <1>1, OpenStartControl
<1>2. CASE CudaCrash
  BY <1>2 DEF CudaCrash, Crash, ProcessDies, LifeInv
<1>3. ASSUME UNCHANGED <<forgot, again>>
      PROVE  LifeInv'
  BY <1>3 DEF LifeInv
<1>4. CASE VfioControllerNext
  <2>1. CASE OpenStep
    BY <1>3, <2>1 DEF OpenStep, OpenFunc, OpenBar, OpenDisable, OpenStopped, OpenAq, OpenAqSetup,
       OpenEnable, OpenReady, openVars
  <2>2. CASE CreateStart("host") \/ QueueStep \/ \E q \in Qids : DeleteHost(q)
    BY <1>3, <2>2 DEF CreateStart, QueueStep, CreateInit, AdminSubmit, CreateCqDone, CreateSqDone,
       DeleteSqDone, DeleteCqDone, DeleteFree, DeleteHost, openVars
  <2>3. CASE Close \/ CloseVfio \/ (Device /\ UNCHANGED hostVars)
    BY <1>3, <2>3 DEF Close, CloseVfio, hostVars, openVars
  <2>4. CASE VfioStep
    BY <1>3, <2>4 DEF VfioStep, VfioAcquire, MapHeap, GetDeviceFd, CloseStop, CloseStopped, CloseFree,
       CtxCloseBar, CtxCloseDevice, CtxUnmap, CtxCloseFds, openVars
  <2>. QED
    BY <1>4, <2>1, <2>2, <2>3, <2>4 DEF VfioControllerNext, ControllerNext
<1>5. CASE \/ CreateStart("gpu") \/ CudaCreateTake \/ CudaCreateFail \/ CudaDeleteFree
           \/ \E q \in Qids : CudaDelete(q) \/ CudaDeleteUnread(q)
  BY <1>3, <1>5 DEF CreateStart, CudaCreateTake, CudaCreateFail, CudaDeleteFree, CudaDelete,
     CudaDeleteUnread, openVars
<1>6. CASE UNCHANGED allVars
  BY <1>3, <1>6 DEF allVars, hostVars, openVars
<1>. QED
  BY <1>1, <1>2, <1>4, <1>5, <1>6 DEF Next

\* close, and open's failure label through VFIO, give back every descriptor,
\* mapping, buffer and admin queue; and what memset makes the struct forget is
\* never anything, until the process opens where an open through sysfs had
\* failed without closing in between (and from there until it dies).
THEOREM ControllerClosedHoldsNothing == Spec => []ClosedHoldsNothing
<1>1. Init => LifeInv
  BY DEF Init, ControllerInit, LifeInv
<1>2. ControlInv /\ LifeInv /\ [Next]_allVars => LifeInv'
  BY NextLife
<1>3. ControlInv /\ LifeInv => ClosedHoldsNothing
  BY HasType DEF ControlInv, HeldInv, LifeInv, ClosedHoldsNothing
<1>. QED
  BY <1>1, <1>2, <1>3, ControllerControl, PTL DEF Spec

\* A page leaves the IOMMU only when the controller is not ready: closing the
\* device descriptor resets the function before the pages are unmapped.
THEOREM ControllerMappingsOutlive == Spec => MappingsOutliveController
<1>1. ControlInv /\ [Next]_allVars => [~(dma \subseteq dma') => ~rdy']_allVars
  BY NextControl
<1>. QED
  BY <1>1, ControllerControl, PTL DEF Spec, MappingsOutliveController

-----------------------------------------------------------------------------
(***************************************************************************)
(* What queue pairs have taken: identifiers, frames, and on the GPU queues *)
(* and registered doorbells; whatever becomes of commands.                 *)
(***************************************************************************)
\* create and delete find the controller running; close is stopping it.
Serving == ctrl = "open" /\ call.name \in {"none", "create", "delete"}

Creates(q) == call.name = "create" /\ call.q = q

Deletes(q) == call.name = "delete" /\ call.q = q

Taken == {q \in Qids : q = 0 \/ qps[q] # "none" \/ Creates(q)}

OnGpu(q) == {i \in Items : <<q, i>> \in gpu}

Clean(q) == OwnedBy("queue", q) = {} /\ OnGpu(q) = {}

HeapOf(kind) == IF kind = "host" THEN HostFrames ELSE GpuFrames

InHeap(q, kind) == \E f \in HeapOf(kind) : OwnedBy("queue", q) = {f}

Placed(q, kind, items) ==
    InHeap(q, kind) /\ OnGpu(q) = IF kind = "gpu" THEN items ELSE {}

\* What a creation on the GPU has taken before a step is what failing there
\* gives back; all of it, before the first command.
Taking(q) ==
    /\ call.step = "init" => Clean(q)
    /\ call.kind = "host" /\ call.step # "init" => Placed(q, "host", Items)
    /\ call.kind = "gpu" /\ call.step \in DOMAIN CudaNext =>
          /\ OnGpu(q) = CudaUndoes[call.step]
          /\ IF call.step \in {"cq", "copy"} THEN InHeap(q, "gpu") ELSE OwnedBy("queue", q) = {}
    /\ call.kind = "gpu" /\ call.step \notin DOMAIN CudaNext => Placed(q, "gpu", Items)

PairTaken(q) ==
    /\ qps[q] \in {"none", "spent"} /\ ~Creates(q) => Clean(q)
    /\ qps[q] \in {"host", "gpu"} /\ ~Deletes(q) => Placed(q, qps[q], Items)
    /\ Creates(q) => q # 0 /\ qps[q] = "none" /\ Taking(q)
    /\ Deletes(q) /\ q # 0 => qps[q] = call.kind /\ Placed(q, call.kind, {"sq", "cq"})
    /\ Deletes(q) /\ q = 0 => call.kind = "gpu"

TakenInv ==
    /\ call.name = "open" => qids = {0} /\ \A q \in Qids : qps[q] = "none" /\ Clean(q)
    /\ Serving => qids = Taken /\ qps[0] = "none" /\ \A q \in Qids : PairTaken(q)

LEMMA InitTaken ==
    ASSUME Init
    PROVE  TakenInv
BY NoCallFacts DEF Init, ControllerInit, TakenInv, Serving

\* What a step leaves alone stays as it is.
LEMMA LeftAlone ==
    ASSUME NEW q \in Qids,
           \A f \in Frames : owner'[f] = <<"queue", q>> <=> owner[f] = <<"queue", q>>
    PROVE  /\ OwnedBy("queue", q)' = OwnedBy("queue", q)
           /\ \A k : InHeap(q, k)' <=> InHeap(q, k)
<1>1. OwnedBy("queue", q)' = OwnedBy("queue", q)
  BY DEF OwnedBy
<1>2. \A k : HeapOf(k)' = HeapOf(k)
  BY DEF HeapOf
<1>. QED
  BY <1>1, <1>2 DEF InHeap

LEMMA ClearsAlone ==
    ASSUME NEW q \in Qids,
           \A f \in Frames : owner'[f] = <<"queue", q>> <=> owner[f] = <<"queue", q>>,
           \A i \in Items : <<q, i>> \in gpu' <=> <<q, i>> \in gpu
    PROVE  /\ OnGpu(q)' = OnGpu(q) /\ (Clean(q)' <=> Clean(q))
           /\ \A k, items : Placed(q, k, items)' <=> Placed(q, k, items)
<1>1. OnGpu(q)' = OnGpu(q)
  BY DEF OnGpu
<1>. QED
  BY <1>1, LeftAlone DEF Clean, Placed

\* A step that is busy with one queue pair, of which the rest is given.
LEMMA TakenMoves ==
    ASSUME TakenInv, Serving, NEW p \in Qids, call'.name # "open",
           \A q \in Qids \ {p} :
              /\ ~Creates(q) /\ ~Creates(q)'
              /\ ~Deletes(q) \/ q = 0
              /\ Deletes(q)' => q = 0 /\ call'.kind = "gpu"
              /\ qps'[q] = qps[q]
              /\ \A f \in Frames : owner'[f] = <<"queue", q>> <=> owner[f] = <<"queue", q>>
              /\ \A i \in Items : <<q, i>> \in gpu' <=> <<q, i>> \in gpu,
           qids' = Taken', p = 0 => qps'[0] = "none", PairTaken(p)'
    PROVE  TakenInv'
<1>1. qps[0] = "none" /\ \A q \in Qids : PairTaken(q)
  BY DEF TakenInv
<1>2. ASSUME NEW q \in Qids \ {p}
      PROVE  PairTaken(q)'
  <2>1. (Clean(q)' <=> Clean(q)) /\ \A k, items : Placed(q, k, items)' <=> Placed(q, k, items)
    BY ClearsAlone
  <2>. QED
    BY <1>1, <2>1 DEF PairTaken
<1>3. qps'[0] = "none"
  BY <1>1, QidFacts
<1>4. \A q \in Qids : PairTaken(q)'
  BY <1>2
<1>. QED
  BY <1>3, <1>4 DEF TakenInv

\* A call that goes on behind its first command takes nothing.
LEMMA TakenGoesOn ==
    ASSUME ControlInv, TakenInv, call.name \in {"create", "delete"},
           NEW s \in Steps, Goto(s),
           call.name = "create" => call.step \notin DOMAIN CudaNext /\ s \notin DOMAIN CudaNext,
           UNCHANGED <<ctrl, owner, qids, qps, gpu>>
    PROVE  TakenInv'
<1>1. /\ call'.name = call.name /\ call'.step = s /\ call'.q = call.q /\ call'.kind = call.kind
  BY GotoCall DEF ControlInv, TypeOK
<1>2. Serving /\ call.q \in Qids
  BY DEF ControlInv, CallInv, Serving, TypeOK, Calls
<1>3. "init" \in DOMAIN CudaNext
  BY DEF CudaNext
<1>4. \A q \in Qids : (Creates(q)' <=> Creates(q)) /\ (Deletes(q)' <=> Deletes(q))
  BY <1>1 DEF Creates, Deletes
<1>5. qids' = Taken' /\ qps'[0] = "none"
  BY <1>2, <1>4 DEF TakenInv, Taken
<1>6. ASSUME NEW q \in Qids
      PROVE  PairTaken(q)'
  <2>1. (Clean(q)' <=> Clean(q)) /\ \A k, items : Placed(q, k, items)' <=> Placed(q, k, items)
    BY ClearsAlone
  <2>2. PairTaken(q)
    BY <1>2 DEF TakenInv
  <2>3. Creates(q) => (Taking(q) => Taking(q)')
    BY <1>1, <1>3, <2>1 DEF Taking, Creates
  <2>. QED
    BY <1>1, <1>4, <2>1, <2>2, <2>3 DEF PairTaken
<1>. QED
  BY <1>1, <1>5, <1>6 DEF TakenInv

\* Everything there is to a call that returns.
LEMMA ReturnsAlone ==
    ASSUME Return
    PROVE  /\ call'.name = "none"
           /\ \A q \in Qids : ~Creates(q)' /\ ~Deletes(q)'
BY NoCallFacts DEF Return, Creates, Deletes

LEMMA BusyAlone ==
    ASSUME ControlInv, call.name \in {"create", "delete"}
    PROVE  /\ Serving /\ call.q \in Qids /\ call.kind \in {"host", "gpu"}
           /\ \A q \in Qids \ {call.q} : ~Creates(q) /\ ~Deletes(q)
BY DEF ControlInv, CallInv, Serving, TypeOK, Calls, Creates, Deletes

LEMMA CreateStartTaken ==
    ASSUME ControlInv, TakenInv, NEW kind \in {"host", "gpu"}, CreateStart(kind), UNCHANGED gpu
    PROVE  TakenInv'
<1>1. qids \in SUBSET Tracked
  BY DEF ControlInv, TypeOK
<1>2. PICK p \in Qids : p \notin qids /\ p = FindFree(qids) /\ qids' = qids \cup {p}
  BY <1>1, FindFreeFacts DEF CreateStart
<1>3. /\ call = NoCall /\ ctrl = "open"
      /\ call' = [name |-> "create", step |-> "init", q |-> p, kind |-> kind]
      /\ UNCHANGED <<owner, qps, gpu>>
  BY <1>2 DEF CreateStart, Steady, Idle
<1>4. call'.name = "create" /\ call'.step = "init" /\ call'.q = p /\ call'.kind = kind
  BY <1>3
<1>5. Serving /\ \A q \in Qids : ~Creates(q) /\ ~Deletes(q)
  BY <1>3, NoCallFacts DEF Serving, Creates, Deletes
<1>6. qids = Taken /\ PairTaken(p)
  BY <1>5 DEF TakenInv
<1>7. p # 0 /\ qps[p] = "none" /\ Clean(p)
  BY <1>2, <1>5, <1>6 DEF Taken, PairTaken
<1>8. Clean(p)'
  BY <1>3, <1>7 DEF Clean, OwnedBy, OnGpu
<1>9. "init" \in DOMAIN CudaNext /\ CudaUndoes["init"] = {}
  BY DEF CudaNext, CudaUndoes
<1>10. PairTaken(p)'
  BY <1>3, <1>4, <1>7, <1>8, <1>9 DEF PairTaken, Taking, Creates, Deletes, Clean
<1>11. qids' = Taken'
  BY <1>2, <1>3, <1>4, <1>5, <1>6, <1>7 DEF Taken, Creates
<1>12. \A q \in Qids \ {p} : ~Creates(q)' /\ ~Deletes(q)'
  BY <1>4 DEF Creates, Deletes
<1>. QED
  BY <1>3, <1>4, <1>5, <1>7, <1>10, <1>11, <1>12, TakenMoves

\* Taking a frame for a pair that has none gives it that frame alone.
LEMMA TakenFrame ==
    ASSUME ControlInv, NEW p \in Qids, NEW heap \in {HostFrames, GpuFrames},
           Take(heap, "queue", p), OwnedBy("queue", p) = {}
    PROVE  \E f \in heap : /\ f \in Frames /\ owner[f] = Unused
                           /\ OwnedBy("queue", p)' = {f}
                           /\ \A g \in Frames \ {f} : owner'[g] = owner[g]
                           /\ owner'[f] = <<"queue", p>>
<1>1. heap \in SUBSET Frames
  BY ControllerAssumption, GpuAssumption
<1>2. PICK f \in heap : owner[f] = Unused /\ owner' = [owner EXCEPT ![f] = <<"queue", p>>]
  BY <1>1, TakeFacts
<1>3. owner \in [Frames -> {"free", "buf", "aq", "queue", "lost"} \X Qids]
  BY DEF ControlInv, TypeOK
<1>4. owner'[f] = <<"queue", p>> /\ \A g \in Frames \ {f} : owner'[g] = owner[g]
  BY <1>1, <1>2, <1>3
<1>5. OwnedBy("queue", p)' = {f}
  BY <1>1, <1>4 DEF OwnedBy
<1>. QED
  BY <1>1, <1>2, <1>4, <1>5

\* The same for what is known of the other pairs.
LEMMA TakenOthers ==
    ASSUME ControlInv, NEW p \in Qids, NEW heap \in {HostFrames, GpuFrames},
           Take(heap, "queue", p), OwnedBy("queue", p) = {}
    PROVE  /\ \E f \in heap : f \in Frames /\ OwnedBy("queue", p)' = {f}
           /\ \A q \in Qids \ {p} : \A g \in Frames :
                 owner'[g] = <<"queue", q>> <=> owner[g] = <<"queue", q>>
<1>1. PICK f \in heap : /\ f \in Frames /\ owner[f] = Unused
                        /\ OwnedBy("queue", p)' = {f}
                        /\ \A g \in Frames \ {f} : owner'[g] = owner[g]
                        /\ owner'[f] = <<"queue", p>>
  BY TakenFrame
<1>2. \A q \in Qids \ {p} : \A g \in Frames :
         owner'[g] = <<"queue", q>> <=> owner[g] = <<"queue", q>>
  BY <1>1 DEF Unused
<1>. QED
  BY <1>1, <1>2

LEMMA CreateInitTaken ==
    ASSUME ControlInv, TakenInv, CreateInit, UNCHANGED gpu
    PROVE  TakenInv'
<1>1. /\ call.name = "create" /\ call.step = "init" /\ call.kind = "host"
      /\ UNCHANGED <<qps, gpu>>
  BY DEF CreateInit, At
<1>2. PICK p \in Qids : p = call.q
  BY <1>1, BusyAlone
<1>3. /\ Serving /\ Creates(p) /\ ~Deletes(p)
      /\ \A q \in Qids \ {p} : ~Creates(q) /\ ~Deletes(q)
  BY <1>1, <1>2, BusyAlone DEF Creates, Deletes
<1>4. qids = Taken /\ p # 0 /\ qps[p] = "none" /\ Clean(p)
  BY <1>1, <1>3 DEF TakenInv, PairTaken, Taking
<1>5. CASE Take(HostFrames, "queue", call.q) /\ Goto("create_cq") /\ UNCHANGED qids
  <2>1. call'.name = "create" /\ call'.step = "create_cq" /\ call'.q = p /\ call'.kind = "host"
    BY <1>1, <1>2, <1>5, GotoCall DEF ControlInv, TypeOK, Steps, CreateSteps
  <2>2. /\ \E f \in HostFrames : f \in Frames /\ OwnedBy("queue", p)' = {f}
        /\ \A q \in Qids \ {p} : \A g \in Frames :
              owner'[g] = <<"queue", q>> <=> owner[g] = <<"queue", q>>
    BY <1>2, <1>4, <1>5, TakenOthers DEF Clean
  <2>3. Placed(p, "host", Items)'
    BY <1>1, <1>4, <2>2 DEF Placed, InHeap, HeapOf, OnGpu, Clean
  <2>4. PairTaken(p)'
    BY <1>1, <1>4, <2>1, <2>3 DEF PairTaken, Taking, Creates, Deletes
  <2>5. qids' = Taken' /\ \A q \in Qids \ {p} : ~Creates(q)' /\ ~Deletes(q)'
    BY <1>1, <1>3, <1>4, <1>5, <2>1 DEF Taken, Creates, Deletes
  <2>. QED
    BY <1>1, <1>3, <1>4, <2>1, <2>2, <2>4, <2>5, TakenMoves
<1>6. CASE qids' = QidFree(qids, call.q) /\ Return /\ UNCHANGED owner
  <2>1. call'.name = "none" /\ \A q \in Qids : ~Creates(q)' /\ ~Deletes(q)'
    BY <1>6, ReturnsAlone
  <2>2. qids' = qids \ {p}
    BY <1>2, <1>6, QidFacts DEF QidFree
  <2>3. qids' = Taken'
    BY <1>1, <1>3, <1>4, <2>1, <2>2 DEF Taken
  <2>4. Clean(p)'
    BY <1>1, <1>4, <1>6 DEF Clean, OwnedBy, OnGpu
  <2>5. PairTaken(p)'
    BY <1>1, <1>4, <2>1, <2>4 DEF PairTaken
  <2>. QED
    BY <1>1, <1>3, <1>4, <1>6, <2>1, <2>3, <2>5, TakenMoves
<1>. QED
  BY <1>5, <1>6 DEF CreateInit

LEMMA CudaCreateTakeTaken ==
    ASSUME ControlInv, TakenInv, CudaCreateTake
    PROVE  TakenInv'
<1>1. /\ call.name = "create" /\ call.kind = "gpu" /\ call.step \in DOMAIN CudaNext
      /\ gpu' = gpu \cup ItemsOf(call.q, CudaTakes[call.step])
      /\ IF call.step = "sq" THEN Take(GpuFrames, "queue", call.q) ELSE UNCHANGED owner
      /\ Goto(CudaNext[call.step])
      /\ UNCHANGED <<qids, qps>>
  BY DEF CudaCreateTake, qpVars
<1>2. PICK p \in Qids : p = call.q
  BY <1>1, BusyAlone
<1>3. /\ Serving /\ Creates(p) /\ ~Deletes(p)
      /\ \A q \in Qids \ {p} : ~Creates(q) /\ ~Deletes(q)
  BY <1>1, <1>2, BusyAlone DEF Creates, Deletes
<1>4. qids = Taken /\ p # 0 /\ qps[p] = "none" /\ Taking(p)
  BY <1>3 DEF TakenInv, PairTaken
<1>5. PICK s \in DOMAIN CudaNext : s = call.step
  BY <1>1
<1>6. PICK t \in CreateSteps : t = CudaNext[s]
  BY CudaStepFacts
<1>7. call'.name = "create" /\ call'.step = t /\ call'.q = p /\ call'.kind = "gpu"
  BY <1>1, <1>2, <1>5, <1>6, GotoCall DEF ControlInv, TypeOK, Steps
<1>8. /\ OnGpu(p) = CudaUndoes[s]
      /\ IF s \in {"cq", "copy"} THEN InHeap(p, "gpu") ELSE OwnedBy("queue", p) = {}
  BY <1>1, <1>4, <1>5 DEF Taking
<1>9. OnGpu(p)' = CudaUndoes[s] \cup CudaTakes[s]
  <2>1. CudaTakes[s] \subseteq Items
    BY CudaStepFacts
  <2>2. PICK new : new = CudaTakes[s]
    OBVIOUS
  <2>3. gpu' = gpu \cup {<<p, i>> : i \in new} /\ new \subseteq Items
    BY <1>1, <1>2, <1>5, <2>1, <2>2 DEF ItemsOf
  <2>4. \A i \in Items : <<p, i>> \in gpu' <=> <<p, i>> \in gpu \/ i \in new
    BY ONLY <2>3
  <2>5. OnGpu(p)' = OnGpu(p) \cup new
    BY <2>3, <2>4 DEF OnGpu
  <2>. QED
    BY <1>8, <2>2, <2>5
<1>10. \A q \in Qids \ {p} : \A i \in Items : <<q, i>> \in gpu' <=> <<q, i>> \in gpu
  BY <1>1, <1>2 DEF ItemsOf
<1>11. /\ IF s \in {"sq", "cq", "copy"} THEN InHeap(p, "gpu")' ELSE OwnedBy("queue", p)' = {}
       /\ \A q \in Qids \ {p} : \A g \in Frames :
             owner'[g] = <<"queue", q>> <=> owner[g] = <<"queue", q>>
  <2>1. CASE s = "sq"
    <3>1. Take(GpuFrames, "queue", p) /\ OwnedBy("queue", p) = {}
      BY <1>1, <1>2, <1>5, <1>8, <2>1
    <3>2. /\ \E f \in GpuFrames : f \in Frames /\ OwnedBy("queue", p)' = {f}
          /\ \A q \in Qids \ {p} : \A g \in Frames :
                owner'[g] = <<"queue", q>> <=> owner[g] = <<"queue", q>>
      BY <3>1, TakenOthers
    <3>. QED
      BY <2>1, <3>2 DEF InHeap, HeapOf
  <2>2. CASE s # "sq"
    <3>1. UNCHANGED owner
      BY <1>1, <1>5, <2>2
    <3>2. (InHeap(p, "gpu")' <=> InHeap(p, "gpu")) /\ OwnedBy("queue", p)' = OwnedBy("queue", p)
      BY <3>1, LeftAlone
    <3>. QED
      BY <1>8, <2>2, <3>1, <3>2
  <2>. QED
    BY <2>1, <2>2
<1>12. Taking(p)'
  <2>1. /\ t \in DOMAIN CudaNext => CudaUndoes[t] = CudaUndoes[s] \cup CudaTakes[s]
        /\ t \notin DOMAIN CudaNext => CudaUndoes[s] \cup CudaTakes[s] = Items
        /\ t \in {"cq", "copy", "create_cq"} <=> s \in {"sq", "cq", "copy"}
        /\ t # "init" /\ t \in DOMAIN CudaNext \cup {"create_cq"} /\ "create_cq" \notin DOMAIN CudaNext
    <3>1. "create_cq" \notin DOMAIN CudaNext
      BY DEF CudaNext
    <3>. QED
      BY <1>6, <3>1, CudaStepFacts
  <2>2. t \in DOMAIN CudaNext =>
           /\ OnGpu(p)' = CudaUndoes[t]
           /\ IF t \in {"cq", "copy"} THEN InHeap(p, "gpu")' ELSE OwnedBy("queue", p)' = {}
    BY <1>9, <1>11, <2>1
  <2>3. t \notin DOMAIN CudaNext => Placed(p, "gpu", Items)'
    BY <1>9, <1>11, <2>1 DEF Placed
  <2>. QED
    BY <1>7, <2>1, <2>2, <2>3 DEF Taking
<1>13. PairTaken(p)'
  BY <1>1, <1>4, <1>7, <1>12 DEF PairTaken, Creates, Deletes
<1>14. qids' = Taken' /\ \A q \in Qids \ {p} : ~Creates(q)' /\ ~Deletes(q)'
  BY <1>1, <1>3, <1>4, <1>7 DEF Taken, Creates, Deletes
<1>. QED
  BY <1>1, <1>3, <1>4, <1>7, <1>10, <1>11, <1>13, <1>14, TakenMoves

\* Giving back all that is there leaves nothing, and nobody else without.
LEMMA GivenBack ==
    ASSUME ControlInv, NEW p \in Qids, NEW items \in SUBSET Items, GiveBack(p, items),
           OnGpu(p) \subseteq items
    PROVE  /\ Clean(p)'
           /\ \A q \in Qids \ {p} :
                 /\ \A f \in Frames : owner'[f] = <<"queue", q>> <=> owner[f] = <<"queue", q>>
                 /\ \A i \in Items : <<q, i>> \in gpu' <=> <<q, i>> \in gpu
<1>1. gpu' = gpu \ {<<p, i>> : i \in items}
  BY DEF GiveBack, ItemsOf
<1>2. \A i \in Items : <<p, i>> \notin gpu'
  BY <1>1 DEF OnGpu
<1>3. OnGpu(p)' = {}
  BY <1>2 DEF OnGpu
<1>4. ItemsOf(p, {"sq", "cq"}) \cap gpu' = {}
  BY <1>2 DEF ItemsOf, Items
<1>5. Release(OwnedBy("queue", p))
  BY <1>4 DEF GiveBack
<1>6. \A f \in Frames : owner'[f] = IF owner[f] = <<"queue", p>> THEN Unused ELSE owner[f]
  BY <1>5 DEF Release, OwnedBy
<1>7. Clean(p)'
  BY <1>3, <1>6 DEF Clean, OwnedBy, Unused
<1>8. ASSUME NEW q \in Qids \ {p}
      PROVE  /\ \A f \in Frames : owner'[f] = <<"queue", q>> <=> owner[f] = <<"queue", q>>
             /\ \A i \in Items : <<q, i>> \in gpu' <=> <<q, i>> \in gpu
  BY <1>1, <1>6 DEF Unused
<1>. QED
  BY <1>7, <1>8

LEMMA CudaCreateFailTaken ==
    ASSUME ControlInv, TakenInv, CudaCreateFail
    PROVE  TakenInv'
<1>1. /\ call.name = "create" /\ call.kind = "gpu" /\ call.step \in DOMAIN CudaNext
      /\ GiveBack(call.q, CudaUndoes[call.step])
      /\ qps' = [qps EXCEPT ![call.q] = "spent"]
      /\ Return /\ UNCHANGED qids
  BY DEF CudaCreateFail
<1>2. PICK p \in Qids : p = call.q
  BY <1>1, BusyAlone
<1>3. /\ Serving /\ Creates(p)
      /\ \A q \in Qids \ {p} : ~Creates(q) /\ ~Deletes(q)
  BY <1>1, <1>2, BusyAlone DEF Creates
<1>4. qids = Taken /\ p # 0 /\ qps[p] = "none" /\ Taking(p)
  BY <1>3 DEF TakenInv, PairTaken
<1>5. PICK items \in SUBSET Items : items = CudaUndoes[call.step]
  BY <1>1, CudaStepFacts
<1>6. OnGpu(p) = items /\ GiveBack(p, items)
  BY <1>1, <1>2, <1>4, <1>5 DEF Taking
<1>7. /\ Clean(p)'
      /\ \A q \in Qids \ {p} :
            /\ \A f \in Frames : owner'[f] = <<"queue", q>> <=> owner[f] = <<"queue", q>>
            /\ \A i \in Items : <<q, i>> \in gpu' <=> <<q, i>> \in gpu
  BY <1>6, GivenBack
<1>8. call'.name = "none" /\ \A q \in Qids : ~Creates(q)' /\ ~Deletes(q)'
  BY <1>1, ReturnsAlone
<1>9. qps'[p] = "spent" /\ \A q \in Qids \ {p} : qps'[q] = qps[q]
  BY <1>1, <1>2 DEF ControlInv, TypeOK
<1>10. qids' = Taken'
  BY <1>1, <1>3, <1>4, <1>8, <1>9 DEF Taken
<1>11. PairTaken(p)'
  BY <1>7, <1>8, <1>9 DEF PairTaken
<1>. QED
  BY <1>3, <1>4, <1>7, <1>8, <1>9, <1>10, <1>11, TakenMoves

\* Waiting for a completion: the pair is there, lost, or the call goes on.
LEMMA DoneTaken ==
    ASSUME ControlInv, TakenInv, CreateCqDone \/ CreateSqDone \/ DeleteSqDone \/ DeleteCqDone,
           UNCHANGED gpu
    PROVE  TakenInv'
<1>1. /\ call.name \in {"create", "delete"}
      /\ call.name = "create" => call.step \notin DOMAIN CudaNext
      /\ UNCHANGED <<ctrl, owner, qids, gpu>>
  BY DEF CreateCqDone, CreateSqDone, DeleteSqDone, DeleteCqDone, At, CudaNext, openVars
<1>2. PICK p \in Qids : p = call.q
  BY <1>1, BusyAlone
<1>3. /\ Serving /\ call.kind \in {"host", "gpu"}
      /\ \A q \in Qids \ {p} : ~Creates(q) /\ ~Deletes(q)
  BY <1>1, <1>2, BusyAlone
<1>4. CASE \E s \in {"create_sq", "delete_cq", "free"} : Goto(s) /\ UNCHANGED qps
  <2>1. PICK s \in {"create_sq", "delete_cq", "free"} : Goto(s) /\ UNCHANGED qps
    BY <1>4
  <2>2. s \in Steps /\ s \notin DOMAIN CudaNext
    BY DEF Steps, CreateSteps, DeleteSteps, CudaNext
  <2>. QED
    BY <1>1, <2>1, <2>2, TakenGoesOn
<1>5. CASE /\ call.name = "create" /\ Return
           /\ \E u \in {call.kind, "lost"} : qps' = [qps EXCEPT ![call.q] = u]
  <2>0. PICK k \in {"host", "gpu"} : k = call.kind
    BY <1>3
  <2>1. PICK u \in {k, "lost"} : qps' = [qps EXCEPT ![p] = u]
    BY <1>2, <1>5, <2>0
  <2>9. Creates(p)
    BY <1>2, <1>5 DEF Creates
  <2>10. call.step \notin DOMAIN CudaNext /\ call.step # "init"
    BY <1>1, <1>5 DEF CudaNext
  <2>2. qids = Taken /\ p # 0 /\ qps[p] = "none" /\ Placed(p, k, Items)
    BY <1>3, <2>0, <2>9, <2>10 DEF TakenInv, PairTaken, Taking
  <2>3. call'.name = "none" /\ \A q \in Qids : ~Creates(q)' /\ ~Deletes(q)'
    BY <1>5, ReturnsAlone
  <2>4. qps'[p] = u /\ \A q \in Qids \ {p} : qps'[q] = qps[q]
    BY <2>1 DEF ControlInv, TypeOK
  <2>5. u # "none"
    BY <1>3
  <2>6. qids' = Taken'
    BY <1>1, <1>3, <2>9, <2>2, <2>3, <2>4, <2>5 DEF Taken
  <2>7. Placed(p, k, Items)'
    BY <1>1, <2>2, ClearsAlone
  <2>8. PairTaken(p)'
    BY <2>1, <2>3, <2>4, <2>7 DEF PairTaken
  <2>. QED
    BY <1>1, <1>3, <2>2, <2>3, <2>4, <2>6, <2>8, TakenMoves
<1>. QED
  BY <1>4, <1>5 DEF CreateCqDone, CreateSqDone, DeleteSqDone, DeleteCqDone, Lose, At

LEMMA SubmitTaken ==
    ASSUME ControlInv, TakenInv, AdminSubmit, UNCHANGED gpu
    PROVE  TakenInv'
<1>1. /\ call.step \in DOMAIN AdminOps /\ Goto(AdminOps[call.step])
      /\ UNCHANGED <<ctrl, owner, qids, qps, gpu>>
  BY DEF AdminSubmit, qpVars, openVars
<1>2. AdminOps[call.step] \in Steps /\ call.name \in {"create", "delete"}
  BY <1>1, AdminStepFacts
<1>3. call.step \notin DOMAIN CudaNext /\ AdminOps[call.step] \notin DOMAIN CudaNext
  BY <1>1 DEF AdminOps, CudaNext
<1>. QED
  BY <1>1, <1>2, <1>3, TakenGoesOn

LEMMA DeleteStartTaken ==
    ASSUME ControlInv, TakenInv, NEW p \in Qids,
           (DeleteHost(p) /\ UNCHANGED gpu) \/ CudaDelete(p)
    PROVE  TakenInv'
<1>1. PICK kind \in {"host", "gpu"} :
         /\ call = NoCall /\ ctrl = "open" /\ qps[p] = kind
         /\ call' = [name |-> "delete", step |-> "delete_sq", q |-> p, kind |-> kind]
         /\ gpu' = gpu \ IF kind = "gpu" THEN ItemsOf(p, {"sqdb", "cqdb"}) ELSE {}
         /\ UNCHANGED <<qids, qps, owner>>
  BY DEF DeleteHost, CudaDelete, DeleteStart, Steady, Idle, qpVars
<1>2. call'.name = "delete" /\ call'.q = p /\ call'.kind = kind
  BY <1>1
<1>3. Serving /\ \A q \in Qids : ~Creates(q) /\ ~Deletes(q)
  BY <1>1, NoCallFacts DEF Serving, Creates, Deletes
<1>4. qids = Taken /\ p # 0 /\ Placed(p, kind, Items)
  BY <1>1, <1>3 DEF TakenInv, PairTaken
<1>5. \A q \in Qids \ {p} : \A i \in Items : <<q, i>> \in gpu' <=> <<q, i>> \in gpu
  BY <1>1 DEF ItemsOf
<1>6. OnGpu(p)' = IF kind = "gpu" THEN {"sq", "cq"} ELSE {}
  <2>1. OnGpu(p) = IF kind = "gpu" THEN Items ELSE {}
    BY <1>4 DEF Placed
  <2>2. CASE kind = "gpu"
    <3>1. gpu' = gpu \ {<<p, i>> : i \in {"sqdb", "cqdb"}}
      BY <1>1, <2>2 DEF ItemsOf
    <3>2. \A i \in Items : <<p, i>> \in gpu' <=> <<p, i>> \in gpu /\ i \notin {"sqdb", "cqdb"}
      BY ONLY <3>1
    <3>3. OnGpu(p)' = OnGpu(p) \ {"sqdb", "cqdb"}
      BY <3>2 DEF OnGpu
    <3>. QED
      BY <2>1, <2>2, <3>3 DEF Items
  <2>3. CASE kind # "gpu"
    BY <1>1, <2>1, <2>3 DEF OnGpu
  <2>. QED
    BY <2>2, <2>3
<1>7. InHeap(p, kind)'
  BY <1>1, <1>4 DEF Placed, InHeap, HeapOf, OwnedBy
<1>8. PairTaken(p)'
  BY <1>1, <1>2, <1>4, <1>6, <1>7 DEF PairTaken, Placed, Creates, Deletes
<1>9. qids' = Taken' /\ \A q \in Qids \ {p} : ~Creates(q)' /\ ~Deletes(q)'
  BY <1>1, <1>2, <1>3, <1>4 DEF Taken, Creates, Deletes
<1>. QED
  BY <1>1, <1>2, <1>3, <1>4, <1>5, <1>8, <1>9, TakenMoves

LEMMA DeleteUnreadTaken ==
    ASSUME ControlInv, TakenInv, NEW p \in Qids, CudaDeleteUnread(p)
    PROVE  TakenInv'
<1>1. /\ call = NoCall /\ ctrl = "open" /\ qps[p] = "gpu"
      /\ call' = [name |-> "delete", step |-> "delete_sq", q |-> 0, kind |-> "gpu"]
      /\ qps' = [qps EXCEPT ![p] = "lost"]
      /\ UNCHANGED <<owner, qids, gpu>>
  BY DEF CudaDeleteUnread, Steady, Idle
<1>2. call'.name = "delete" /\ call'.q = 0 /\ call'.kind = "gpu"
  BY <1>1
<1>3. Serving /\ \A q \in Qids : ~Creates(q) /\ ~Deletes(q)
  BY <1>1, NoCallFacts DEF Serving, Creates, Deletes
<1>4. qids = Taken /\ p # 0
  BY <1>1, <1>3 DEF TakenInv
<1>5. qps'[p] = "lost" /\ \A q \in Qids \ {p} : qps'[q] = qps[q]
  BY <1>1 DEF ControlInv, TypeOK
<1>6. \A q \in Qids : ~Creates(q)' /\ (Deletes(q)' => q = 0)
  BY <1>2 DEF Creates, Deletes
<1>7. qids' = Taken'
  BY <1>1, <1>3, <1>4, <1>5, <1>6 DEF Taken
<1>8. PairTaken(p)'
  BY <1>4, <1>5, <1>6 DEF PairTaken
<1>. QED
  BY <1>1, <1>2, <1>3, <1>4, <1>5, <1>6, <1>7, <1>8, TakenMoves

LEMMA DeletesOne ==
    ASSUME ControlInv, DeleteFree \/ CudaDeleteFree
    PROVE  \E p \in Qids : p = call.q
BY BusyAlone DEF DeleteFree, CudaDeleteFree, At

LEMMA DeleteFreeTaken ==
    ASSUME ControlInv, TakenInv, (DeleteFree /\ UNCHANGED gpu) \/ CudaDeleteFree,
           NEW p \in Qids, p = call.q
    PROVE  /\ TakenInv' /\ Clean(p)'
           /\ \A q \in Qids \ {p} : \A f \in Frames :
                 owner'[f] = <<"queue", q>> <=> owner[f] = <<"queue", q>>
<1>1. call.name = "delete" /\ Return
  BY DEF DeleteFree, CudaDeleteFree, At
<1>2. p = call.q
  OBVIOUS
<1>3. /\ Serving /\ Deletes(p) /\ ~Creates(p)
      /\ \A q \in Qids \ {p} : ~Creates(q) /\ ~Deletes(q)
  BY <1>1, <1>2, BusyAlone DEF Deletes, Creates
<1>4. qids = Taken /\ qps[0] = "none" /\ PairTaken(p)
  BY <1>3 DEF TakenInv
<1>5. call'.name = "none" /\ \A q \in Qids : ~Creates(q)' /\ ~Deletes(q)'
  BY <1>1, ReturnsAlone
<1>6. CASE DeleteFree /\ UNCHANGED gpu
  <2>1. /\ call.kind = "host" /\ Release(OwnedBy("queue", p))
        /\ qids' = QidFree(qids, p) /\ qps' = [qps EXCEPT ![p] = "none"]
    BY <1>2, <1>6 DEF DeleteFree
  <2>2. p # 0 /\ OnGpu(p) = {} /\ qps[p] = "host"
    BY <1>3, <1>4, <2>1 DEF PairTaken, Placed
  <2>3. \A f \in Frames : owner'[f] = IF owner[f] = <<"queue", p>> THEN Unused ELSE owner[f]
    BY <2>1 DEF Release, OwnedBy
  <2>4. Clean(p)'
    BY <1>6, <2>2, <2>3 DEF Clean, OwnedBy, OnGpu, Unused
  <2>5. qps'[p] = "none" /\ \A q \in Qids \ {p} : qps'[q] = qps[q]
    BY <2>1 DEF ControlInv, TypeOK
  <2>6. qids' = Taken'
    BY <1>3, <1>4, <1>5, <2>1, <2>2, <2>5, QidFacts DEF Taken, QidFree
  <2>7. PairTaken(p)'
    BY <1>5, <2>4, <2>5 DEF PairTaken
  <2>8. \A q \in Qids \ {p} : \A f \in Frames :
           owner'[f] = <<"queue", q>> <=> owner[f] = <<"queue", q>>
    BY <2>3 DEF Unused
  <2>9. TakenInv'
    BY <1>3, <1>5, <1>6, <2>2, <2>5, <2>6, <2>7, <2>8, TakenMoves
  <2>. QED
    BY <2>4, <2>8, <2>9
<1>7. CASE CudaDeleteFree
  <2>1. /\ call.kind = "gpu" /\ GiveBack(p, {"sq", "cq"}) /\ UNCHANGED qids
        /\ qps' = IF p = 0 THEN qps ELSE [qps EXCEPT ![p] = "spent"]
    BY <1>2, <1>7 DEF CudaDeleteFree
  <2>2. OnGpu(p) \subseteq {"sq", "cq"} /\ (p # 0 => qps[p] # "none")
    BY <1>3, <1>4, <2>1 DEF PairTaken, Placed, Clean
  <2>3. PICK items \in SUBSET Items : items = {"sq", "cq"}
    BY DEF Items
  <2>4. /\ Clean(p)'
        /\ \A q \in Qids \ {p} :
              /\ \A f \in Frames : owner'[f] = <<"queue", q>> <=> owner[f] = <<"queue", q>>
              /\ \A i \in Items : <<q, i>> \in gpu' <=> <<q, i>> \in gpu
    BY <2>1, <2>2, <2>3, GivenBack
  <2>5. qps'[p] = (IF p = 0 THEN "none" ELSE "spent") /\ \A q \in Qids \ {p} : qps'[q] = qps[q]
    BY <1>4, <2>1 DEF ControlInv, TypeOK
  <2>6. qids' = Taken'
    BY <1>3, <1>4, <1>5, <2>1, <2>2, <2>5 DEF Taken
  <2>7. PairTaken(p)'
    BY <1>5, <2>4, <2>5 DEF PairTaken
  <2>8. TakenInv'
    BY <1>3, <1>5, <2>4, <2>5, <2>6, <2>7, TakenMoves
  <2>. QED
    BY <2>4, <2>8
<1>. QED
  BY <1>6, <1>7

\* Opening begins with no pair.
LEMMA OpenStartTaken ==
    ASSUME ControlInv, CudaOpenStart
    PROVE  TakenInv' /\ \A f \in Frames : owner'[f][1] # "queue"
<1>1. PICK v \in {"sysfs", "vfio"}, first \in {"func", "group_id"} : OpenStart(v, first)
  BY DEF CudaOpenStart, ControllerOpenStart
<1>2. /\ ctrl' = "down" /\ qps' = [q \in Qids |-> "none"]
      /\ gpu' = ItemsOf(NoQid, {p[2] : p \in gpu})
  BY <1>1 DEF OpenStart, CudaOpenStart
<1>3. /\ \A f \in Frames : owner'[f] # <<"buf", 0>> => owner'[f][1] \in {"free", "lost"}
      /\ (qids' = {0} /\ call' = Called("open", first)) \/ call' = NoCall
  BY <1>1, OpenStartFrames
<1>4. \A f \in Frames : owner'[f][1] # "queue"
  BY <1>3
<1>5. \A q \in Qids : Clean(q)'
  <2>1. \A q \in Qids : OnGpu(q)' = {}
    BY <1>2, QidFacts DEF OnGpu, ItemsOf
  <2>2. \A q \in Qids : OwnedBy("queue", q)' = {}
    BY <1>4 DEF OwnedBy
  <2>. QED
    BY <2>1, <2>2 DEF Clean
<1>6. ~Serving'
  BY <1>2 DEF Serving
<1>. QED
  BY <1>2, <1>3, <1>4, <1>5, <1>6, NoCallFacts DEF TakenInv

\* What opening and closing take is not for queue pairs.
LEMMA OpenStepTaken ==
    ASSUME ControlInv, TakenInv, OpenStep \/ VfioAcquire \/ MapHeap \/ GetDeviceFd, UNCHANGED gpu
    PROVE  TakenInv'
<1>1. /\ call.name = "open" /\ UNCHANGED <<qids, qps, gpu, via>>
      /\ \/ (Goto(call'.step) /\ UNCHANGED ctrl) \/ UNCHANGED <<call, ctrl>>
         \/ Fail
         \/ Return /\ ctrl' = "open"
  BY DEF OpenStep, OpenFunc, OpenBar, OpenDisable, OpenStopped, OpenAq, OpenAqSetup, OpenEnable,
     OpenReady, VfioAcquire, MapHeap, GetDeviceFd, At, qpVars, openVars, Goto, ControlInv, TypeOK, Calls
<1>2. \A f \in Frames : owner'[f] = owner[f] \/ owner'[f][1] # "queue"
  <2>1. CASE OpenAq
    <3>1. CASE Take(HostFrames, "aq", 0)
      <4>1. PICK f \in HostFrames : owner' = [owner EXCEPT ![f] = <<"aq", 0>>]
        BY <3>1, TakeFacts, ControllerAssumption
      <4>. QED
        BY <4>1, ControllerAssumption DEF ControlInv, TypeOK
    <3>. QED
      BY <2>1, <3>1 DEF OpenAq
  <2>2. CASE ~OpenAq
    BY <2>2 DEF OpenStep, OpenFunc, OpenBar, OpenDisable, OpenStopped, OpenAqSetup, OpenEnable,
       OpenReady, VfioAcquire, MapHeap, GetDeviceFd
  <2>. QED
    BY <2>1, <2>2
<1>3. ctrl = "down" /\ qids = {0} /\ \A q \in Qids : qps[q] = "none" /\ Clean(q)
  BY <1>1 DEF TakenInv, ControlInv, CallInv
<1>4. \A q \in Qids : Clean(q)'
  <2>1. \A q \in Qids : OwnedBy("queue", q) = {} /\ OnGpu(q) = {}
    BY <1>3 DEF Clean
  <2>2. \A q \in Qids : OwnedBy("queue", q)' = {}
    BY <1>2, <2>1 DEF OwnedBy
  <2>3. \A q \in Qids : OnGpu(q)' = {}
    BY <1>1, <2>1 DEF OnGpu
  <2>. QED
    BY <2>2, <2>3 DEF Clean
<1>5. CASE Return /\ ctrl' = "open"
  <2>1. call'.name = "none" /\ \A q \in Qids : ~Creates(q)' /\ ~Deletes(q)'
    BY <1>5, ReturnsAlone
  <2>2. qids' = Taken' /\ qps'[0] = "none"
    BY <1>1, <1>3, <2>1, QidFacts DEF Taken
  <2>3. \A q \in Qids : PairTaken(q)'
    BY <1>1, <1>3, <1>4, <2>1 DEF PairTaken
  <2>. QED
    BY <2>1, <2>2, <2>3 DEF TakenInv
<1>6. ASSUME ~Serving'
      PROVE  TakenInv'
  BY <1>1, <1>3, <1>4, <1>6 DEF TakenInv
<1>7. CASE Fail
  <2>1. ctrl' # "open" \/ call'.name = "close"
    BY <1>3, <1>7, CalledFacts DEF Fail, Steps, CloseSteps
  <2>. QED
    BY <1>6, <2>1 DEF Serving
<1>8. CASE UNCHANGED ctrl
  BY <1>3, <1>6, <1>8 DEF Serving
<1>. QED
  BY <1>1, <1>5, <1>7, <1>8

LEMMA TakenStill ==
    ASSUME TakenInv, UNCHANGED <<call, ctrl, owner, qids, qps, gpu>>
    PROVE  TakenInv'
<1>1. ASSUME NEW q \in Qids
      PROVE  /\ Clean(q)' <=> Clean(q)
             /\ Creates(q)' <=> Creates(q)
             /\ PairTaken(q)' <=> PairTaken(q)
  <2>1. OwnedBy("queue", q)' = OwnedBy("queue", q) /\ \A k : InHeap(q, k)' <=> InHeap(q, k)
    BY LeftAlone
  <2>2. /\ OnGpu(q)' = OnGpu(q) /\ (Clean(q)' <=> Clean(q))
        /\ \A k, items : Placed(q, k, items)' <=> Placed(q, k, items)
    BY ClearsAlone
  <2>3. call' = call /\ qps' = qps
    OBVIOUS
  <2>4. (Creates(q)' <=> Creates(q)) /\ (Deletes(q)' <=> Deletes(q))
    BY <2>3 DEF Creates, Deletes
  <2>5. Taking(q)' <=> Taking(q)
    BY <2>1, <2>2, <2>3 DEF Taking
  <2>. QED
    BY <2>2, <2>3, <2>4, <2>5 DEF PairTaken
<1>2. Taken' = Taken
  BY <1>1 DEF Taken
<1>. QED
  BY <1>1, <1>2 DEF TakenInv, Serving

LEMMA NextTaken ==
    ASSUME ControlInv, TakenInv, [Next]_allVars
    PROVE  TakenInv'
<1>1. CASE CudaOpenStart
  BY <1>1, OpenStartTaken
<1>2. CASE VfioControllerNext /\ UNCHANGED gpu
  <2>1. CASE OpenStep \/ VfioAcquire \/ MapHeap \/ GetDeviceFd
    BY <1>2, <2>1, OpenStepTaken
  <2>2. CASE CreateStart("host")
    BY <1>2, <2>2, CreateStartTaken
  <2>3. CASE QueueStep
    BY <1>2, <2>3, CreateInitTaken, SubmitTaken, DoneTaken, DeletesOne, DeleteFreeTaken DEF QueueStep
  <2>4. CASE \E q \in Qids : DeleteHost(q)
    BY <1>2, <2>4, DeleteStartTaken
  <2>5. CASE Close
    <3>1. ctrl' = "down" /\ call'.name = "none"
      BY <2>5, NoCallFacts DEF Close, Closed, Idle
    <3>. QED
      BY <3>1 DEF TakenInv, Serving
  <2>6. CASE CloseVfio
    <3>1. call'.name = "close"
      BY <2>6, CalledFacts DEF CloseVfio, Steps, CloseSteps
    <3>. QED
      BY <3>1 DEF TakenInv, Serving
  <2>7. CASE \/ CloseStop \/ CloseStopped \/ CloseFree
             \/ CtxCloseBar \/ CtxCloseDevice \/ CtxUnmap
    <3>1. PICK s \in CloseSteps : Goto(s)
      BY <2>7 DEF CloseStop, CloseStopped, CloseFree, CtxCloseBar, CtxCloseDevice, CtxUnmap, CloseSteps
    <3>2. call.name = "close"
      BY <2>7 DEF CloseStop, CloseStopped, CloseFree, CtxCloseBar, CtxCloseDevice, CtxUnmap, At
    <3>3. call'.name = "close"
      BY <3>1, <3>2, GotoCall DEF ControlInv, TypeOK, Steps
    <3>. QED
      BY <3>3 DEF TakenInv, Serving
  <2>8. CASE CtxCloseFds
    <3>1. ctrl' = "down" /\ call'.name = "none"
      BY <2>8, NoCallFacts DEF CtxCloseFds, Closed, Return
    <3>. QED
      BY <3>1 DEF TakenInv, Serving
  <2>9. CASE Device /\ UNCHANGED <<hostVars, dma>>
    BY <1>2, <2>9, TakenStill DEF hostVars, qpVars, openVars
  <2>. QED
    BY <1>2, <2>1, <2>2, <2>3, <2>4, <2>5, <2>6, <2>7, <2>8, <2>9
       DEF VfioControllerNext, ControllerNext, VfioStep
<1>3. CASE CreateStart("gpu") /\ UNCHANGED <<dma, gpu>>
  BY <1>3, CreateStartTaken
<1>4. CASE CudaCreateTake \/ CudaCreateFail
  BY <1>4, CudaCreateTakeTaken, CudaCreateFailTaken
<1>5. CASE \E q \in Qids : CudaDelete(q) \/ CudaDeleteUnread(q)
  BY <1>5, DeleteStartTaken, DeleteUnreadTaken
<1>6. CASE CudaDeleteFree
  BY <1>6, DeletesOne, DeleteFreeTaken
<1>7. CASE CudaCrash
  <2>1. ctrl' = "down" /\ call'.name = "none"
    BY <1>7, NoCallFacts DEF CudaCrash, Crash, ProcessDies, Return
  <2>. QED
    BY <2>1 DEF TakenInv, Serving
<1>8. CASE UNCHANGED allVars
  BY <1>8, TakenStill DEF allVars, hostVars, qpVars, openVars
<1>. QED
  BY <1>1, <1>2, <1>3, <1>4, <1>5, <1>6, <1>7, <1>8 DEF Next

\* What queue pairs take and give back, whatever becomes of their commands.
THEOREM ControllerTaken == Spec => [](ControlInv /\ TakenInv)
<1>1. Init => TakenInv
  BY InitTaken
<1>2. ControlInv /\ TakenInv /\ [Next]_allVars => TakenInv'
  BY NextTaken
<1>. QED
  BY <1>1, <1>2, ControllerControl, PTL DEF Spec

-----------------------------------------------------------------------------
(***************************************************************************)
(* The queues of the controller and their memory.                          *)
(***************************************************************************)
Closing == InCall("close", {"stop", "wait_stopped"}) /\ (rdy \/ Enabled)

\* When the controller runs, and what it then has been given.
RunInv ==
    /\ rdy \/ Enabled \/ InCall("open", {"aq", "aq_setup", "enable"}) => Polls
    /\ via = "vfio" /\ "bar" \notin held /\ ~At("close", "ctx_device") => ~rdy /\ ~Enabled
    /\ via = "vfio" /\ call.name = "open" /\ call.step # "wait_ready" => ~rdy /\ ~Enabled
    /\ Serving => rdy /\ Enabled
    /\ At("open", "wait_ready") => Enabled
    /\ call.name = "close" /\ call.step # "stop" => ~Enabled
    /\ InCall("close", {"free", "ctx_bar", "ctx_device"}) => (rdy => lateStop)
    /\ ~rdy => cqs = NoQueues /\ sqs = NoQueues /\ pend = <<>>

AdminInv ==
    InCall("open", {"enable", "wait_ready"}) \/ Serving \/ Closing => asq \in OwnedBy("aq", 0)

Quiet == pend = <<>> /\ cpls = <<>>

OpenInv ==
    /\ call.name = "open" => doubts = 0 /\ refused = {} /\ \A q \in Qids : qps[q] = "none"
    /\ InCall("open", {"aq_setup", "enable", "wait_ready"}) =>
          Quiet /\ cqs = NoQueues /\ sqs = NoQueues

\* Every queue of the controller is in memory in use for it, but for those
\* whose deletion it refused.
Backs(q) ==
    q \notin refused => \A f \in {cqs[q], sqs[q]} \ {NoFrame} :
        owner[f] = <<"queue", q>> /\ q \in qids

Backed == \A q \in Qids : Backs(q)

On(q, c, s) == cqs[q] = c /\ sqs[q] = s

\* Of an identifier that is free, or soon: nothing, or a completion queue that
\* keeps the controller from creating another one.
Remains(q) == IF q \in refused THEN cqs[q] # NoFrame ELSE On(q, NoFrame, NoFrame)

Owns(q, f) == OwnedBy("queue", q) = {f}

Present(q) == q \notin refused /\ \E f \in Frames : Owns(q, f) /\ On(q, f, f)

\* Queue pairs no call is busy with; the admin queue is not among them.
PairInv(q) ==
    /\ q = 0 => On(q, NoFrame, NoFrame)
    /\ q # 0 /\ qps[q] \in {"none", "spent"} /\ ~Creates(q) => Remains(q)
    /\ q # 0 /\ qps[q] \in {"host", "gpu"} /\ ~Deletes(q) => Present(q)

PairsInv == \A q \in Qids : PairInv(q)

\* A command that the controller has, or has answered.
Outstanding(c, before, after) ==
    \/ pend = <<c>> /\ cpls = <<>> /\ before
    \/ pend = <<>> /\ cpls = <<"ok">> /\ after
    \/ pend = <<>> /\ cpls = <<"failed">> /\ before

Cmd(o, q, f) == [op |-> o, q |-> q, frame |-> f]

CreatesIn(q, f) ==
    /\ Owns(q, f)
    /\ call.step = "create_cq" => Quiet /\ Remains(q)
    /\ call.step = "wait_create_cq" =>
          Outstanding(Cmd("create_cq", q, f), Remains(q), q \notin refused /\ On(q, f, NoFrame))
    /\ call.step \in {"create_sq", "wait_create_sq"} => q \notin refused
    /\ call.step = "create_sq" => Quiet /\ On(q, f, NoFrame)
    /\ call.step = "wait_create_sq" =>
          Outstanding(Cmd("create_sq", q, f), On(q, f, NoFrame), On(q, f, f))

CreateInv ==
    \A q \in Qids : Creates(q) =>
        /\ call.step \in DOMAIN CudaNext => Quiet /\ Remains(q)
        /\ call.step \notin DOMAIN CudaNext => \E f \in Frames : CreatesIn(q, f)

\* What the first command of deleting leaves.
Halved(q, f) == On(q, f, IF q \in refused THEN f ELSE NoFrame)

DeletesIn(q, f) ==
    /\ Owns(q, f)
    /\ call.step \in {"delete_sq", "wait_delete_sq"} => q \notin refused
    /\ call.step = "delete_sq" => Quiet /\ On(q, f, f)
    /\ call.step = "wait_delete_sq" =>
          Outstanding(Cmd("delete_sq", q, f), On(q, f, f), On(q, f, NoFrame))
    /\ call.step = "delete_cq" => Quiet /\ Halved(q, f)
    /\ call.step = "wait_delete_cq" =>
          Outstanding(Cmd("delete_cq", q, f), Halved(q, f), q \notin refused /\ On(q, NoFrame, NoFrame))
    /\ call.step = "free" => Quiet /\ Remains(q)

\* Deleting identifier 0 is what is left of a queue pair that could not be
\* read back: the controller refuses both commands.
DeletesNothing ==
    /\ call.step \in {"delete_sq", "delete_cq", "free"} => Quiet
    /\ call.step = "wait_delete_sq" => Outstanding(Cmd("delete_sq", 0, NoFrame), TRUE, FALSE)
    /\ call.step = "wait_delete_cq" => Outstanding(Cmd("delete_cq", 0, NoFrame), TRUE, FALSE)

DeleteInv ==
    \A q \in Qids : Deletes(q) =>
        /\ q = 0 => DeletesNothing
        /\ q # 0 => \E f \in Frames : DeletesIn(q, f)

ServeInv ==
    doubts = 0 =>
        /\ Serving \/ Closing => Backed
        /\ (Idle /\ ctrl = "open") \/ Closing => Quiet
        /\ Serving => PairsInv /\ CreateInv /\ DeleteInv

QueueInv == RunInv /\ AdminInv /\ OpenInv /\ ServeInv

\* What a step that is busy with one pair leaves alone.
Alone(p) == \A q \in Qids \ {p} : ~Creates(q) /\ (Deletes(q) => q = 0)

LeavesOthers(p) ==
    \A q \in Qids \ {p} :
        /\ \A f \in Frames : owner'[f] = <<"queue", q>> <=> owner[f] = <<"queue", q>>
        /\ cqs'[q] = cqs[q] /\ sqs'[q] = sqs[q] /\ qps'[q] = qps[q]
        /\ q \in refused' <=> q \in refused
        /\ q \in qids' <=> q \in qids

-----------------------------------------------------------------------------
(***************************************************************************)
(* QueueInv: the initial states, and opening.                              *)
(***************************************************************************)
LEMMA NotServing ==
    ASSUME ctrl' # "open" \/ call'.name = "open", call'.name # "close"
    PROVE  ServeInv' /\ ~Serving' /\ ~Closing'
<1>1. ~Serving' /\ ~Closing'
  BY DEF Serving, Closing, InCall
<1>2. ~(Idle' /\ ctrl' = "open")
  BY NoCallFacts DEF Idle
<1>. QED
  BY <1>1, <1>2 DEF ServeInv

LEMMA InitQueue ==
    ASSUME Init
    PROVE  QueueInv
<1>1. /\ call = NoCall /\ ctrl = "down" /\ ~rdy /\ cc = {}
      /\ cqs = NoQueues /\ sqs = NoQueues /\ pend = <<>>
  BY DEF Init, ControllerInit, AdminInit
<1>2. RunInv /\ AdminInv /\ OpenInv
  BY <1>1, NoCallFacts DEF RunInv, AdminInv, OpenInv, Serving, Closing, InCall, At, Enabled
<1>3. ServeInv
  BY <1>1, NoCallFacts DEF ServeInv, Serving, Closing, InCall
<1>. QED
  BY <1>2, <1>3 DEF QueueInv

LEMMA DownQueue ==
    ASSUME ctrl' = "down", call'.name = "none", RunInv'
    PROVE  QueueInv'
<1>1. ServeInv' /\ ~Serving' /\ ~Closing'
  BY NotServing
<1>. QED
  BY <1>1 DEF QueueInv, AdminInv, OpenInv, InCall

LEMMA OpenStartQueue ==
    ASSUME ControlInv, QueueInv, CudaOpenStart
    PROVE  QueueInv'
<1>1. PICK v \in {"sysfs", "vfio"}, first \in {"func", "group_id"} :
         OpenStart(v, first) /\ first = IF v = "vfio" THEN "group_id" ELSE "func"
  BY DEF CudaOpenStart, ControllerOpenStart
<1>2. /\ call = NoCall /\ via = v /\ ctrl \in {"down", "failed"}
      /\ ctrl' = "down" /\ via' = v
      /\ held' = {} /\ qps' = [q \in Qids |-> "none"] /\ doubts' = 0 /\ refused' = {}
      /\ UNCHANGED deviceVars
  BY <1>1 DEF OpenStart, Idle
<1>3. v = "vfio" => ~rdy /\ ~Enabled
  BY <1>2 DEF ControlInv, CallInv, HeldInv, StoppedInv, Idle
<1>4. CASE call' = NoCall
  <2>1. RunInv'
    BY <1>2, <1>3, <1>4, NoCallFacts
       DEF QueueInv, RunInv, Serving, InCall, At, Enabled, Polls, deviceVars
  <2>. QED
    BY <1>2, <1>4, <2>1, NoCallFacts, DownQueue
<1>5. CASE call' = Called("open", first)
  <2>1. call'.name = "open" /\ call'.step = first /\ first \notin RegisterSteps
    <3>1. first \in Steps /\ first \notin RegisterSteps
      BY DEF Steps, VfioSteps, VfioNext, RegisterSteps
    <3>. QED
      BY <1>5, <3>1, CalledFacts
  <2>2. RunInv'
    BY <1>2, <1>3, <2>1
       DEF QueueInv, RunInv, Serving, InCall, At, Enabled, Polls, RegisterSteps, deviceVars
  <2>3. AdminInv' /\ OpenInv'
    BY <1>2, <2>1 DEF AdminInv, OpenInv, Serving, Closing, InCall, RegisterSteps
  <2>4. ServeInv'
    BY <1>2, <2>1, NotServing
  <2>. QED
    BY <2>2, <2>3, <2>4 DEF QueueInv
<1>. QED
  BY <1>1, <1>4, <1>5, OpenStartFrames

LEMMA FailQueue ==
    ASSUME ControlInv, QueueInv, call.name = "open", Fail,
           UNCHANGED <<deviceVars, owner, qpVars, held, lateStop, lifeVars>>
    PROVE  QueueInv'
<1>1. ctrl = "down" /\ via \in {"sysfs", "vfio"}
  BY DEF ControlInv, CallInv, TypeOK
<1>2. CASE via = "sysfs"
  <2>1. call' = NoCall /\ ctrl' = "failed"
    BY <1>2 DEF Fail
  <2>2. RunInv'
    BY <1>2, <2>1, NoCallFacts DEF QueueInv, RunInv, Serving, InCall, At, Enabled, Polls, deviceVars
  <2>3. AdminInv' /\ OpenInv'
    BY <2>1, NoCallFacts DEF AdminInv, OpenInv, Serving, Closing, InCall
  <2>4. ServeInv'
    BY <2>1, NoCallFacts, NotServing
  <2>. QED
    BY <2>2, <2>3, <2>4 DEF QueueInv
<1>3. CASE via = "vfio"
  <2>1. call' = Called("close", "stop") /\ ctrl' = "down"
    BY <1>1, <1>3 DEF Fail
  <2>2. call'.name = "close" /\ call'.step = "stop"
    BY <2>1, CalledFacts DEF Steps, CloseSteps
  <2>3. Closing' => call.step = "wait_ready"
    BY <1>3 DEF QueueInv, RunInv, Closing, Enabled, deviceVars
  <2>4. RunInv'
    BY <2>1, <2>2 DEF QueueInv, RunInv, Serving, InCall, At, Enabled, Polls, deviceVars
  <2>5. AdminInv'
    BY <2>1, <2>2, <2>3 DEF QueueInv, AdminInv, Serving, InCall, OwnedBy, deviceVars
  <2>6. OpenInv'
    BY <2>2 DEF OpenInv, InCall
  <2>7. ServeInv'
    <3>1. ~Serving' /\ ~(Idle' /\ ctrl' = "open")
      BY <2>1, <2>2 DEF Serving
    <3>2. Closing' => Quiet /\ cqs = NoQueues /\ sqs = NoQueues
      BY <2>3 DEF QueueInv, OpenInv, InCall
    <3>3. Closing' => Quiet' /\ Backed'
      BY <3>2 DEF Quiet, Backed, Backs, NoQueues, deviceVars
    <3>. QED
      BY <3>1, <3>3 DEF ServeInv
  <2>. QED
    BY <2>4, <2>5, <2>6, <2>7 DEF QueueInv
<1>. QED
  BY <1>1, <1>2, <1>3

\* A step of opening to another one: what has to hold there.
LEMMA OpenMovesQueue ==
    ASSUME ControlInv, QueueInv, call.name = "open", NEW s \in Steps, Goto(s),
           s \in {"aq", "aq_setup", "enable"} => Polls,
           rdy' \/ Enabled' => Polls,
           via = "vfio" /\ s # "wait_ready" => ~rdy' /\ ~Enabled',
           via = "vfio" /\ s = "wait_ready" => "bar" \in held',
           s = "wait_ready" => Enabled',
           ~rdy' => cqs' = NoQueues /\ sqs' = NoQueues /\ pend' = <<>>,
           s \in {"enable", "wait_ready"} => asq' \in OwnedBy("aq", 0)',
           s \in {"aq_setup", "enable", "wait_ready"} =>
              Quiet' /\ cqs' = NoQueues /\ sqs' = NoQueues,
           UNCHANGED <<cap, qpVars, ctrl, via>>
    PROVE  QueueInv'
<1>1. call'.name = "open" /\ call'.step = s
  BY GotoCall DEF ControlInv, TypeOK
<1>2. ctrl' = "down"
  BY DEF ControlInv, CallInv
<1>3. ServeInv' /\ ~Serving' /\ ~Closing'
  BY <1>1, NotServing
<1>4. RunInv'
  BY <1>1, <1>3 DEF RunInv, InCall, At, Polls
<1>5. AdminInv'
  BY <1>1, <1>3 DEF AdminInv, InCall
<1>6. OpenInv'
  BY <1>1 DEF QueueInv, OpenInv, InCall, qpVars
<1>. QED
  BY <1>3, <1>4, <1>5, <1>6 DEF QueueInv

\* The same for a step that leaves the controller alone.
LEMMA OpenMovesOn ==
    ASSUME ControlInv, QueueInv, call.name = "open", call.step # "wait_ready",
           NEW s \in Steps, Goto(s), s \notin {"aq", "aq_setup", "enable", "wait_ready"},
           UNCHANGED <<deviceVars, owner, qpVars, ctrl, via>>
    PROVE  QueueInv'
<1>1. /\ rdy' \/ Enabled' => Polls
      /\ via = "vfio" => ~rdy' /\ ~Enabled'
      /\ ~rdy' => cqs' = NoQueues /\ sqs' = NoQueues /\ pend' = <<>>
  BY DEF QueueInv, RunInv, Enabled, deviceVars
<1>2. UNCHANGED cap
  BY DEF deviceVars
<1>. QED
  BY <1>1, <1>2, OpenMovesQueue

LEMMA OpenStepQueue ==
    ASSUME ControlInv, QueueInv, OpenStep
    PROVE  QueueInv'
<1>. USE DEF At
<1>1. CASE OpenFunc
  <2>1. "bar" \in Steps
    BY DEF Steps, RegisterSteps
  <2>. QED
    BY <1>1, <2>1, OpenMovesOn, FailQueue DEF OpenFunc
<1>2. CASE OpenBar
  <2>1. "disable" \in Steps
    BY DEF Steps, RegisterSteps
  <2>. QED
    BY <1>2, <2>1, OpenMovesOn, FailQueue DEF OpenBar
<1>3. CASE OpenDisable
  <2>1. /\ call.name = "open" /\ call.step = "disable"
        /\ cc' = CcDisable(cc) /\ Goto("wait_stopped")
        /\ UNCHANGED <<cap, rdy, asq, ioqVars, pend, cpls, owner, qpVars, openVars>>
    BY <1>3 DEF OpenDisable, CcWrite
  <2>2. ~Enabled' /\ "wait_stopped" \in Steps
    BY <2>1 DEF Enabled, CcDisable, Steps, RegisterSteps
  <2>3. /\ rdy' => Polls
        /\ via = "vfio" => ~rdy'
        /\ ~rdy' => cqs' = NoQueues /\ sqs' = NoQueues /\ pend' = <<>>
    BY <2>1 DEF QueueInv, RunInv, ioqVars
  <2>. QED
    BY <2>1, <2>2, <2>3, OpenMovesQueue DEF openVars
<1>4. CASE OpenStopped
  <2>1. /\ call.name = "open" /\ call.step = "wait_stopped"
        /\ UNCHANGED <<deviceVars, owner, qpVars, held, lateStop, lifeVars>>
    BY <1>4 DEF OpenStopped
  <2>2. CASE ~rdy /\ Polls /\ Goto("aq") /\ UNCHANGED ctrl
    <3>1. ~rdy' /\ ~Enabled' /\ "aq" \in Steps /\ UNCHANGED cap
      BY <2>1, <2>2 DEF ControlInv, StoppedInv, InCall, Enabled, deviceVars, Steps, RegisterSteps
    <3>2. cqs' = NoQueues /\ sqs' = NoQueues /\ pend' = <<>>
      BY <2>1, <2>2 DEF QueueInv, RunInv, deviceVars
    <3>. QED
      BY <2>1, <2>2, <3>1, <3>2, OpenMovesQueue
  <2>. QED
    BY <1>4, <2>1, <2>2, FailQueue DEF OpenStopped
<1>5. CASE OpenAq
  <2>1. /\ call.name = "open" /\ call.step = "aq"
        /\ UNCHANGED <<cap, cc, rdy, asq, ioqVars, pend, qpVars, held, lateStop, lifeVars>>
    BY <1>5 DEF OpenAq
  <2>2. CASE Take(HostFrames, "aq", 0) /\ cpls' = <<>> /\ Goto("aq_setup") /\ UNCHANGED ctrl
    <3>1. ~rdy' /\ ~Enabled' /\ Polls /\ "aq_setup" \in Steps
      BY <2>1 DEF ControlInv, StoppedInv, QueueInv, RunInv, InCall, Enabled, Steps, RegisterSteps
    <3>2. cqs' = NoQueues /\ sqs' = NoQueues /\ pend' = <<>>
      BY <2>1, <3>1 DEF QueueInv, RunInv, ioqVars
    <3>. QED
      BY <2>1, <2>2, <3>1, <3>2, OpenMovesQueue DEF Quiet
  <2>. QED
    BY <1>5, <2>1, <2>2, FailQueue DEF OpenAq, deviceVars, ioqVars
<1>6. CASE OpenAqSetup
  <2>1. /\ call.name = "open" /\ call.step = "aq_setup"
        /\ asq' = FrameOf("aq", 0) /\ Goto("enable")
        /\ UNCHANGED <<cap, cc, rdy, ioqVars, pend, cpls, owner, qpVars, openVars>>
    BY <1>6 DEF OpenAqSetup, AqSetup
  <2>2. asq' \in OwnedBy("aq", 0)'
    BY <2>1, FrameOfFacts DEF ControlInv, BuffersInv, OwnedBy
  <2>3. ~rdy' /\ ~Enabled' /\ Polls /\ "enable" \in Steps
    BY <2>1 DEF ControlInv, StoppedInv, QueueInv, RunInv, InCall, Enabled, Steps, RegisterSteps
  <2>4. Quiet' /\ cqs' = NoQueues /\ sqs' = NoQueues
    BY <2>1 DEF QueueInv, OpenInv, InCall, Quiet, ioqVars
  <2>. QED
    BY <2>1, <2>2, <2>3, <2>4, OpenMovesQueue DEF Quiet, openVars
<1>7. CASE OpenEnable
  <2>1. /\ call.name = "open" /\ call.step = "enable"
        /\ cc' = ConfigurationFor(cap) /\ Goto("wait_ready")
        /\ UNCHANGED <<cap, rdy, asq, ioqVars, pend, cpls, owner, qpVars, openVars>>
    BY <1>7 DEF OpenEnable, CcWrite
  <2>2. Enabled' /\ Polls /\ "wait_ready" \in Steps
    BY <2>1, ConfigurationFacts DEF QueueInv, RunInv, InCall, Enabled, Steps, RegisterSteps
  <2>3. Quiet' /\ cqs' = NoQueues /\ sqs' = NoQueues
    BY <2>1 DEF QueueInv, OpenInv, InCall, Quiet, ioqVars
  <2>4. asq' \in OwnedBy("aq", 0)' /\ "bar" \in held'
    BY <2>1 DEF QueueInv, AdminInv, InCall, OwnedBy, openVars, ControlInv, HeldInv, RegisterSteps
  <2>. QED
    BY <2>1, <2>2, <2>3, <2>4, OpenMovesQueue DEF Quiet, openVars
<1>8. CASE OpenReady
  <2>1. /\ call.name = "open" /\ call.step = "wait_ready"
        /\ UNCHANGED <<deviceVars, owner, qpVars, held, lateStop, lifeVars>>
    BY <1>8 DEF OpenReady
  <2>2. CASE rdy /\ Return /\ ctrl' = "open"
    <3>1. call' = NoCall /\ call'.name = "none" /\ ~Closing'
      BY <2>2, NoCallFacts DEF Return, Closing, InCall
    <3>2. RunInv'
      BY <2>1, <2>2, <3>1, NoCallFacts DEF QueueInv, RunInv, Serving, InCall, At, Enabled, Polls, deviceVars
    <3>3. AdminInv' /\ OpenInv'
      BY <2>1, <3>1 DEF QueueInv, AdminInv, OpenInv, InCall, OwnedBy, deviceVars
    <3>4. /\ refused = {} /\ Quiet /\ cqs = NoQueues /\ sqs = NoQueues
          /\ \A q \in Qids : qps[q] = "none"
      BY <2>1 DEF QueueInv, OpenInv, InCall
    <3>5. \A q \in Qids : On(q, NoFrame, NoFrame)' /\ Remains(q)'
      BY <2>1, <3>4 DEF On, Remains, NoQueues, deviceVars, qpVars
    <3>6. PairsInv'
      BY <2>1, <3>4, <3>5 DEF PairsInv, PairInv, qpVars
    <3>7. CreateInv' /\ DeleteInv' /\ Quiet' /\ Backed'
      BY <2>1, <3>1, <3>4
         DEF CreateInv, DeleteInv, Creates, Deletes, Quiet, Backed, Backs, NoQueues, deviceVars
    <3>. QED
      BY <3>2, <3>3, <3>6, <3>7 DEF QueueInv, ServeInv
  <2>. QED
    BY <1>8, <2>1, <2>2, FailQueue DEF OpenReady
<1>. QED
  BY <1>1, <1>2, <1>3, <1>4, <1>5, <1>6, <1>7, <1>8 DEF OpenStep

\* What open does through VFIO alone.
LEMMA VfioOpenQueue ==
    ASSUME ControlInv, QueueInv, VfioAcquire \/ MapHeap \/ GetDeviceFd
    PROVE  QueueInv'
<1>1. CASE VfioAcquire
  <2>1. CASE Goto(VfioNext[call.step]) /\ UNCHANGED ctrl
    <3>. DEFINE s == VfioNext[call.step]
    <3>1. /\ call.name = "open" /\ call.step # "wait_ready" /\ s \in Steps
          /\ s \notin {"aq", "aq_setup", "enable", "wait_ready"}
          /\ UNCHANGED <<deviceVars, owner, qpVars, ctrl, via>>
      BY <1>1, <2>1, VfioNextFacts DEF VfioAcquire, Steps, RegisterSteps
    <3>. HIDE DEF s
    <3>2. Goto(s)
      BY <2>1 DEF s
    <3>. QED
      BY <3>1, <3>2, OpenMovesOn
  <2>. QED
    BY <1>1, <2>1, FailQueue DEF VfioAcquire
<1>2. CASE MapHeap
  <2>1. /\ call.name = "open" /\ call.step = "map_heap"
        /\ UNCHANGED <<deviceVars, owner, qpVars, held, lateStop, lifeVars>>
    BY <1>2 DEF MapHeap, At
  <2>2. CASE UNCHANGED <<call, ctrl>>
    <3>1. UNCHANGED <<cap, cc, rdy, asq, cqs, sqs, pend, cpls, call, owner, qps, doubts,
                      refused, ctrl, via, held, lateStop>>
      BY <2>1, <2>2 DEF deviceVars, qpVars
    <3>2. ctrl = "down"
      BY <2>1 DEF ControlInv, CallInv
    <3>3. ServeInv'
      BY <2>1, <2>2, <3>2, NotServing
    <3>4. RunInv' /\ AdminInv' /\ OpenInv'
      BY <3>1 DEF QueueInv, RunInv, AdminInv, OpenInv, Serving, Closing, Quiet, OwnedBy,
         InCall, At, Enabled, Polls
    <3>. QED
      BY <3>3, <3>4 DEF QueueInv
  <2>3. CASE Goto("device") /\ UNCHANGED ctrl
    <3>1. "device" \in Steps
      BY DEF Steps, VfioSteps
    <3>. QED
      BY <2>1, <2>3, <3>1, OpenMovesOn
  <2>. QED
    BY <1>2, <2>1, <2>2, <2>3, FailQueue DEF MapHeap
<1>3. CASE GetDeviceFd
  <2>1. call.name = "open" /\ call.step = "device" /\ UNCHANGED <<owner, qpVars, lateStop, lifeVars>>
    BY <1>3 DEF GetDeviceFd, At
  <2>2. CASE FunctionReset /\ Goto("bus_master") /\ UNCHANGED ctrl
    <3>1. "bus_master" \in Steps
      BY DEF Steps, VfioSteps, VfioNext
    <3>2. /\ ~rdy' /\ ~Enabled' /\ UNCHANGED cap
          /\ cqs' = NoQueues /\ sqs' = NoQueues /\ pend' = <<>>
      BY <2>2 DEF FunctionReset, Enabled
    <3>. QED
      BY <2>1, <2>2, <3>1, <3>2, OpenMovesQueue
  <2>. QED
    BY <1>3, <2>1, <2>2, FailQueue DEF GetDeviceFd
<1>. QED
  BY <1>1, <1>2, <1>3

-----------------------------------------------------------------------------
(***************************************************************************)
(* QueueInv: creating and deleting.                                        *)
(***************************************************************************)
\* They leave the controller running and the admin queue where it is.
LEMMA ServingRuns ==
    ASSUME QueueInv, Serving, UNCHANGED <<cap, cc, rdy, asq, openVars>>,
           call'.name \in {"none", "create", "delete"},
           \A f \in Frames : owner[f] = <<"aq", 0>> => owner'[f] = owner[f]
    PROVE  RunInv' /\ AdminInv' /\ OpenInv' /\ Serving' /\ ~Closing' /\ rdy'
<1>1. rdy /\ Enabled /\ asq \in OwnedBy("aq", 0)
  BY DEF QueueInv, RunInv, AdminInv
<1>2. Serving' /\ ~Closing' /\ rdy' /\ Enabled'
  BY <1>1 DEF Serving, Closing, InCall, Enabled, openVars
<1>3. RunInv'
  BY <1>2 DEF QueueInv, RunInv, Serving, InCall, At, Polls, Enabled, openVars
<1>4. AdminInv'
  BY <1>1 DEF AdminInv, OwnedBy
<1>5. OpenInv'
  BY DEF OpenInv, InCall
<1>. QED
  BY <1>2, <1>3, <1>4, <1>5

\* As long as no command has timed out.
LEMMA ServingGives ==
    ASSUME ControlInv, QueueInv, Serving, doubts = 0
    PROVE  /\ Backed /\ PairsInv /\ CreateInv /\ DeleteInv
           /\ call.name = "none" => Quiet
BY DEF QueueInv, ServeInv, Serving, Idle, ControlInv, CallInv

LEMMA ServingEnds ==
    ASSUME RunInv', AdminInv', OpenInv', ~Closing',
           doubts' = 0 => /\ Backed' /\ PairsInv' /\ CreateInv' /\ DeleteInv'
                          /\ call'.name = "none" => Quiet'
    PROVE  QueueInv'
<1>1. Idle' => call'.name = "none"
  BY NoCallFacts DEF Idle
<1>. QED
  BY <1>1 DEF QueueInv, ServeInv

\* A step that is busy with one pair, of which the rest is given.
LEMMA PairsMove ==
    ASSUME ControlInv, Backed, PairsInv, NEW p \in Qids, Alone(p), LeavesOthers(p),
           Backs(p)', PairInv(p)'
    PROVE  Backed' /\ PairsInv'
<1>1. ASSUME NEW q \in Qids \ {p}
      PROVE  Backs(q)' /\ PairInv(q)'
  <2>1. /\ \A f \in Frames : owner'[f] = <<"queue", q>> <=> owner[f] = <<"queue", q>>
        /\ cqs'[q] = cqs[q] /\ sqs'[q] = sqs[q] /\ qps'[q] = qps[q]
        /\ q \in refused' <=> q \in refused
        /\ q \in qids' <=> q \in qids
    BY DEF LeavesOthers
  <2>2. Backs(q) /\ PairInv(q) /\ ~Creates(q) /\ (Deletes(q) => q = 0)
    BY DEF Backed, PairsInv, Alone
  <2>3. cqs[q] \in Frames \cup {NoFrame} /\ sqs[q] \in Frames \cup {NoFrame}
    BY DEF ControlInv, TypeOK
  <2>4. Backs(q)'
    BY <2>1, <2>2, <2>3 DEF Backs
  <2>5. OwnedBy("queue", q)' = OwnedBy("queue", q)
    BY <2>1 DEF OwnedBy
  <2>6. (Remains(q)' <=> Remains(q)) /\ \A c, s : On(q, c, s)' <=> On(q, c, s)
    BY <2>1 DEF Remains, On
  <2>7. Present(q)' <=> Present(q)
    BY <2>1, <2>5, <2>6 DEF Present, Owns
  <2>8. PairInv(q)'
    BY <2>1, <2>2, <2>6, <2>7 DEF PairInv
  <2>. QED
    BY <2>4, <2>8
<1>. QED
  BY <1>1 DEF Backed, PairsInv

\* The identifier of a creation, and what it is to the pairs.
LEMMA Creating ==
    ASSUME ControlInv, TakenInv, call.name = "create"
    PROVE  /\ Serving
           /\ \E p \in Qids : /\ p = call.q /\ Creates(p) /\ Alone(p) /\ p # 0
                              /\ qps[p] = "none" /\ Taking(p) /\ p \in qids
<1>1. PICK p \in Qids : p = call.q
  BY BusyAlone
<1>2. Serving /\ Creates(p) /\ \A q \in Qids \ {p} : ~Creates(q) /\ ~Deletes(q)
  BY <1>1, BusyAlone DEF Creates
<1>3. p # 0 /\ qps[p] = "none" /\ Taking(p) /\ p \in qids
  BY <1>2 DEF TakenInv, PairTaken, Taken
<1>4. Alone(p)
  BY <1>2 DEF Alone
<1>. QED
  BY <1>1, <1>2, <1>3, <1>4

LEMMA Deleting ==
    ASSUME ControlInv, TakenInv, call.name = "delete"
    PROVE  /\ Serving
           /\ \E p \in Qids : /\ p = call.q /\ Deletes(p) /\ Alone(p) /\ p \in qids
                              /\ p # 0 => qps[p] \in {"host", "gpu"}
                              /\ p = 0 => OwnedBy("queue", 0) = {}
<1>1. PICK p \in Qids : p = call.q
  BY BusyAlone
<1>2. /\ Serving /\ Deletes(p) /\ call.kind \in {"host", "gpu"}
      /\ \A q \in Qids \ {p} : ~Creates(q) /\ ~Deletes(q)
  BY <1>1, BusyAlone DEF Deletes
<1>3. qids = Taken /\ qps[0] = "none" /\ PairTaken(p)
  BY <1>2 DEF TakenInv
<1>4. p # 0 => qps[p] \in {"host", "gpu"}
  BY <1>2, <1>3 DEF PairTaken
<1>5. p \in qids
  BY <1>3, <1>4 DEF Taken
<1>6. p = 0 => OwnedBy("queue", 0) = {}
  <2>1. ~Creates(p)
    BY <1>2 DEF Creates, Deletes
  <2>. QED
    BY <1>3, <2>1 DEF PairTaken, Clean
<1>7. Alone(p)
  BY <1>2 DEF Alone
<1>. QED
  BY <1>1, <1>2, <1>4, <1>5, <1>6, <1>7

LEMMA CreateStartQueue ==
    ASSUME ControlInv, TakenInv, QueueInv, NEW kind \in {"host", "gpu"}, CreateStart(kind)
    PROVE  QueueInv'
<1>1. qids \in SUBSET Tracked
  BY DEF ControlInv, TypeOK
<1>2. PICK p \in Qids : p \notin qids /\ p = FindFree(qids) /\ qids' = qids \cup {p}
  BY <1>1, FindFreeFacts DEF CreateStart
<1>3. /\ call = NoCall /\ ctrl = "open"
      /\ call' = [name |-> "create", step |-> "init", q |-> p, kind |-> kind]
      /\ UNCHANGED <<deviceVars, owner, openVars, qps, doubts, refused>>
  BY <1>2 DEF CreateStart, Steady, Idle
<1>4. call'.name = "create" /\ call'.step = "init" /\ call'.q = p
  BY <1>3
<1>5. Serving /\ \A q \in Qids : ~Creates(q) /\ ~Deletes(q)
  BY <1>3, NoCallFacts DEF Serving, Creates, Deletes
<1>6. RunInv' /\ AdminInv' /\ OpenInv' /\ ~Closing'
  BY <1>3, <1>4, <1>5, ServingRuns DEF deviceVars
<1>7. p # 0 /\ qps[p] = "none"
  BY <1>2, <1>5 DEF TakenInv, Taken
<1>8. ASSUME doubts' = 0
      PROVE  Backed' /\ PairsInv' /\ CreateInv' /\ DeleteInv'
  <2>1. Backed /\ PairsInv /\ Quiet
    BY <1>3, <1>5, <1>8, NoCallFacts, ServingGives
  <2>2. Remains(p) /\ Backs(p)
    BY <1>5, <1>7, <2>1 DEF PairsInv, PairInv, Backed
  <2>3. Remains(p)' /\ Backs(p)' /\ Quiet'
    BY <1>2, <1>3, <2>1, <2>2 DEF Remains, On, Backs, Quiet, deviceVars
  <2>4. LeavesOthers(p) /\ Alone(p)
    BY <1>2, <1>3, <1>5 DEF LeavesOthers, Alone, deviceVars
  <2>5. PairInv(p)'
    BY <1>3, <1>7, <2>3 DEF PairInv
  <2>6. Backed' /\ PairsInv'
    BY <2>1, <2>3, <2>4, <2>5, PairsMove
  <2>7. "init" \in DOMAIN CudaNext
    BY DEF CudaNext
  <2>8. CreateInv' /\ DeleteInv'
    BY <1>4, <2>3, <2>7 DEF CreateInv, DeleteInv, Creates, Deletes
  <2>. QED
    BY <2>6, <2>8
<1>. QED
  BY <1>4, <1>6, <1>8, ServingEnds

\* Memory for one pair leaves the others' alone.
LEMMA TakeLeavesOthers ==
    ASSUME ControlInv, NEW p \in Qids, NEW heap \in {HostFrames, GpuFrames},
           Take(heap, "queue", p), UNCHANGED <<deviceVars, qpVars>>
    PROVE  /\ LeavesOthers(p)
           /\ \A f \in Frames : owner[f] # Unused => owner'[f] = owner[f]
<1>1. heap \in SUBSET Frames
  BY ControllerAssumption, GpuAssumption
<1>2. PICK f \in heap : owner[f] = Unused /\ owner' = [owner EXCEPT ![f] = <<"queue", p>>]
  BY <1>1, TakeFacts
<1>3. owner'[f] = <<"queue", p>> /\ \A g \in Frames \ {f} : owner'[g] = owner[g]
  BY <1>1, <1>2 DEF ControlInv, TypeOK
<1>4. \A q \in Qids \ {p} : \A g \in Frames :
         owner'[g] = <<"queue", q>> <=> owner[g] = <<"queue", q>>
  BY <1>2, <1>3 DEF Unused
<1>. QED
  BY <1>2, <1>3, <1>4 DEF LeavesOthers, deviceVars, qpVars

\* A step of creating up to the first command: it has memory, or goes on.
LEMMA CreateTakesQueue ==
    ASSUME ControlInv, TakenInv, TakenInv', QueueInv, call.name = "create",
           call.step \in DOMAIN CudaNext,
           NEW t \in DOMAIN CudaNext \cup {"create_cq"}, Goto(t),
           NEW heap \in {HostFrames, GpuFrames},
           UNCHANGED owner \/ Take(heap, "queue", call.q),
           UNCHANGED <<deviceVars, openVars, qpVars>>
    PROVE  QueueInv'
<1>1. PICK p \in Qids : /\ p = call.q /\ Creates(p) /\ Alone(p) /\ p # 0
                        /\ qps[p] = "none" /\ p \in qids
  BY Creating
<1>2. t \in Steps
  BY DEF Steps, CreateSteps
<1>3. /\ Serving /\ call'.name = "create" /\ call'.step = t /\ call'.q = p
      /\ call'.kind = call.kind /\ call.kind \in {"host", "gpu"}
  BY <1>1, <1>2, Creating, GotoCall, BusyAlone DEF ControlInv, TypeOK
<1>4. LeavesOthers(p) /\ \A f \in Frames : owner[f] # Unused => owner'[f] = owner[f]
  <2>1. CASE UNCHANGED owner
    BY <2>1 DEF LeavesOthers, deviceVars, qpVars
  <2>2. CASE Take(heap, "queue", call.q)
    BY <1>1, <2>2, TakeLeavesOthers
  <2>. QED
    BY <2>1, <2>2
<1>5. RunInv' /\ AdminInv' /\ OpenInv' /\ Serving' /\ ~Closing'
  BY <1>3, <1>4, ServingRuns DEF deviceVars, Unused
<1>6. ASSUME doubts' = 0
      PROVE  Backed' /\ PairsInv' /\ CreateInv' /\ DeleteInv'
  <2>1. Backed /\ PairsInv /\ CreateInv
    BY <1>3, <1>6, ServingGives DEF qpVars
  <2>2. Quiet /\ Remains(p) /\ Backs(p)
    BY <1>1, <2>1 DEF CreateInv, Backed
  <2>3. Quiet' /\ Remains(p)'
    BY <2>2 DEF Quiet, Remains, On, deviceVars, qpVars
  <2>4. Backs(p)'
    BY <2>2 DEF Backs, Remains, On, deviceVars, qpVars
  <2>5. Creates(p)' /\ \A q \in Qids : ~Deletes(q)' /\ (Creates(q)' => q = p)
    BY <1>3 DEF Creates, Deletes
  <2>6. PairInv(p)'
    BY <1>1, <2>5 DEF PairInv, qpVars
  <2>7. Backed' /\ PairsInv'
    BY <1>1, <1>4, <2>1, <2>4, <2>6, PairsMove
  <2>8. t \notin DOMAIN CudaNext => \E f \in Frames : CreatesIn(p, f)'
    <3>1. SUFFICES ASSUME t \notin DOMAIN CudaNext
                   PROVE  \E f \in Frames : CreatesIn(p, f)'
      OBVIOUS
    <3>2. t = "create_cq" /\ t # "init"
      BY <3>1
    <3>3. PICK k \in {"host", "gpu"} : k = call'.kind
      BY <1>3
    <3>4. Taking(p)'
      BY <1>5, <2>5 DEF TakenInv, PairTaken
    <3>5. Placed(p, k, Items)'
      BY <1>3, <3>1, <3>2, <3>3, <3>4 DEF Taking
    <3>6. PICK f \in HeapOf(k) : OwnedBy("queue", p)' = {f}
      BY <3>5 DEF Placed, InHeap, HeapOf
    <3>7. f \in Frames
      BY <3>6, ControllerAssumption, GpuAssumption DEF HeapOf
    <3>8. CreatesIn(p, f)'
      BY <1>3, <2>3, <3>2, <3>6 DEF CreatesIn, Owns
    <3>. QED
      BY <3>7, <3>8
  <2>9. CreateInv' /\ DeleteInv'
    BY <1>3, <2>3, <2>5, <2>8 DEF CreateInv, DeleteInv
  <2>. QED
    BY <2>7, <2>9
<1>. QED
  BY <1>3, <1>5, <1>6, ServingEnds

\* A creation that returns without a queue pair.
LEMMA CreateEndsQueue ==
    ASSUME ControlInv, TakenInv, QueueInv, call.name = "create", Return,
           NEW p \in Qids, p = call.q, LeavesOthers(p),
           \A f \in Frames : owner[f] = <<"aq", 0>> => owner'[f] = owner[f],
           UNCHANGED <<cap, cc, rdy, asq, openVars>>,
           doubts' = 0 => doubts = 0 /\ Quiet' /\ Backs(p)' /\ PairInv(p)'
    PROVE  QueueInv'
<1>1. Serving /\ Alone(p)
  BY Creating
<1>2. /\ call'.name = "none" /\ CreateInv' /\ DeleteInv'
      /\ \A q \in Qids : ~Creates(q)' /\ ~Deletes(q)'
  BY ReturnsAlone DEF CreateInv, DeleteInv
<1>3. RunInv' /\ AdminInv' /\ OpenInv' /\ ~Closing'
  BY <1>1, <1>2, ServingRuns
<1>4. ASSUME doubts' = 0
      PROVE  Backed' /\ PairsInv'
  BY <1>1, <1>4, ServingGives, PairsMove
<1>. QED
  BY <1>2, <1>3, <1>4, ServingEnds

LEMMA CreateInitQueue ==
    ASSUME ControlInv, TakenInv, TakenInv', QueueInv, CreateInit
    PROVE  QueueInv'
<1>1. /\ call.name = "create" /\ call.step = "init"
      /\ UNCHANGED <<deviceVars, openVars, qps, doubts, refused>>
  BY DEF CreateInit, At
<1>2. call.step \in DOMAIN CudaNext
  BY <1>1 DEF CudaNext
<1>3. CASE Take(HostFrames, "queue", call.q) /\ Goto("create_cq") /\ UNCHANGED qids
  BY <1>1, <1>2, <1>3, CreateTakesQueue DEF qpVars
<1>4. CASE qids' = QidFree(qids, call.q) /\ Return /\ UNCHANGED owner
  <2>1. PICK p \in Qids : /\ p = call.q /\ Creates(p) /\ Alone(p) /\ p # 0
                          /\ qps[p] = "none" /\ p \in qids
    BY <1>1, Creating
  <2>2. qids' = qids \ {p}
    BY <1>4, <2>1, QidFacts DEF QidFree
  <2>3. LeavesOthers(p)
    BY <1>1, <1>4, <2>2 DEF LeavesOthers, deviceVars
  <2>4. ASSUME doubts' = 0
        PROVE  doubts = 0 /\ Quiet' /\ Backs(p)' /\ PairInv(p)'
    <3>1. CreateInv
      BY <1>1, <2>4, Creating, ServingGives
    <3>2. Quiet /\ Remains(p)
      BY <1>2, <2>1, <3>1 DEF CreateInv
    <3>3. Quiet' /\ Remains(p)' /\ Backs(p)'
      BY <1>1, <3>2 DEF Quiet, Remains, On, Backs, deviceVars
    <3>. QED
      BY <1>1, <2>1, <2>4, <3>3 DEF PairInv
  <2>. QED
    BY <1>1, <1>4, <2>1, <2>3, <2>4, CreateEndsQueue DEF deviceVars
<1>. QED
  BY <1>3, <1>4 DEF CreateInit

LEMMA CudaCreateTakeQueue ==
    ASSUME ControlInv, TakenInv, TakenInv', QueueInv, CudaCreateTake
    PROVE  QueueInv'
<1>1. /\ call.name = "create" /\ call.step \in DOMAIN CudaNext
      /\ Take(GpuFrames, "queue", call.q) \/ UNCHANGED owner
      /\ Goto(CudaNext[call.step])
      /\ UNCHANGED <<deviceVars, openVars, qpVars>>
  BY DEF CudaCreateTake
<1>2. PICK t \in DOMAIN CudaNext \cup {"create_cq"} : t = CudaNext[call.step]
  BY <1>1, CudaStepFacts
<1>. QED
  BY <1>1, <1>2, CreateTakesQueue

LEMMA CudaCreateFailQueue ==
    ASSUME ControlInv, TakenInv, QueueInv, CudaCreateFail
    PROVE  QueueInv'
<1>1. /\ call.name = "create" /\ call.kind = "gpu" /\ call.step \in DOMAIN CudaNext
      /\ GiveBack(call.q, CudaUndoes[call.step])
      /\ qps' = [qps EXCEPT ![call.q] = "spent"]
      /\ Return /\ UNCHANGED <<deviceVars, openVars, qids, doubts, refused>>
  BY DEF CudaCreateFail
<1>2. PICK p \in Qids : /\ p = call.q /\ Creates(p) /\ Alone(p) /\ p # 0
                        /\ qps[p] = "none" /\ Taking(p) /\ p \in qids
  BY <1>1, Creating
<1>3. PICK items \in SUBSET Items : items = CudaUndoes[call.step]
  BY <1>1, CudaStepFacts
<1>4. OnGpu(p) = items /\ GiveBack(p, items)
  BY <1>1, <1>2, <1>3 DEF Taking
<1>5. \A q \in Qids \ {p} : \A f \in Frames :
         owner'[f] = <<"queue", q>> <=> owner[f] = <<"queue", q>>
  BY <1>4, GivenBack
<1>6. \A f \in Frames : owner[f] = <<"aq", 0>> => owner'[f] = owner[f]
  BY <1>4, GiveBackFacts
<1>7. qps'[p] = "spent" /\ \A q \in Qids \ {p} : qps'[q] = qps[q]
  BY <1>1, <1>2 DEF ControlInv, TypeOK
<1>8. LeavesOthers(p)
  BY <1>1, <1>5, <1>7 DEF LeavesOthers, deviceVars
<1>9. ASSUME doubts' = 0
      PROVE  doubts = 0 /\ Quiet' /\ Backs(p)' /\ PairInv(p)'
  <2>1. CreateInv
    BY <1>1, <1>9, Creating, ServingGives
  <2>2. Quiet /\ Remains(p)
    BY <1>1, <1>2, <2>1 DEF CreateInv
  <2>3. Quiet' /\ Remains(p)' /\ Backs(p)'
    BY <1>1, <2>2 DEF Quiet, Remains, On, Backs, deviceVars
  <2>. QED
    BY <1>1, <1>2, <1>7, <1>9, <2>3 DEF PairInv
<1>. QED
  BY <1>1, <1>2, <1>6, <1>8, <1>9, CreateEndsQueue DEF deviceVars

\* A pair that is lost to the caller keeps its identifier and its memory.
LEMMA LoseQueue ==
    ASSUME ControlInv, TakenInv, QueueInv, call.name = "create", Lose,
           doubts' = 0 => doubts = 0 /\ Quiet',
           UNCHANGED <<cap, cc, rdy, asq, cqs, sqs, openVars, owner, qids, refused>>
    PROVE  QueueInv'
<1>1. PICK p \in Qids : p = call.q /\ p # 0
  BY Creating
<1>2. Return /\ qps'[p] = "lost" /\ \A q \in Qids \ {p} : qps'[q] = qps[q]
  BY <1>1 DEF Lose, ControlInv, TypeOK
<1>3. LeavesOthers(p)
  BY <1>2 DEF LeavesOthers
<1>4. doubts' = 0 => Backs(p)' /\ PairInv(p)'
  <2>1. SUFFICES ASSUME doubts' = 0
                 PROVE  Backs(p)' /\ PairInv(p)'
    OBVIOUS
  <2>2. Backs(p)
    BY <2>1, Creating, ServingGives DEF Backed
  <2>. QED
    BY <1>1, <1>2, <2>2 DEF Backs, PairInv
<1>. QED
  BY <1>1, <1>2, <1>3, <1>4, CreateEndsQueue

-----------------------------------------------------------------------------
(***************************************************************************)
(* QueueInv: admin commands and their completions.                         *)
(***************************************************************************)
\* A step that goes on with a call and leaves every queue and frame alone.
LEMMA GoesOnQueue ==
    ASSUME ControlInv, TakenInv, QueueInv, call.name \in {"create", "delete"},
           NEW s \in Steps, Goto(s),
           refused' \in {refused, refused \cup {call.q}},
           UNCHANGED <<cap, cc, rdy, asq, cqs, sqs, openVars, owner, qids, qps>>,
           doubts' = 0 => doubts = 0 /\ CreateInv' /\ DeleteInv'
    PROVE  QueueInv'
<1>1. call'.name = call.name /\ call'.q = call.q
  BY GotoCall DEF ControlInv, TypeOK
<1>2. PICK p \in Qids : /\ p = call.q /\ Serving /\ Alone(p)
                        /\ \/ Creates(p) /\ qps[p] = "none" /\ p # 0
                           \/ Deletes(p) /\ (p # 0 => qps[p] \in {"host", "gpu"})
  <2>1. CASE call.name = "create"
    BY <2>1, Creating
  <2>2. CASE call.name = "delete"
    BY <2>2, Deleting
  <2>. QED
    BY <2>1, <2>2
<1>3. RunInv' /\ AdminInv' /\ OpenInv' /\ ~Closing'
  BY <1>1, <1>2, ServingRuns
<1>4. ASSUME doubts' = 0
      PROVE  Backed' /\ PairsInv'
  <2>1. Backed /\ PairsInv
    BY <1>2, <1>4, ServingGives
  <2>2. LeavesOthers(p)
    BY <1>2 DEF LeavesOthers
  <2>3. Backs(p)'
    BY <2>1 DEF Backed, Backs
  <2>4. PairInv(p)'
    BY <1>1, <1>2, <2>1 DEF PairsInv, PairInv, Creates, Deletes, On
  <2>. QED
    BY <1>2, <2>1, <2>2, <2>3, <2>4, PairsMove
<1>. QED
  BY <1>1, <1>3, <1>4, ServingEnds

\* The memory of a pair is what its commands carry.
LEMMA CommandFrame ==
    ASSUME NEW o, NEW f
    PROVE  /\ OwnedBy("queue", call.q) = {f} => Command(o) = Cmd(o, call.q, f)
           /\ OwnedBy("queue", call.q) = {} => Command(o) = Cmd(o, call.q, NoFrame)
BY DEF Command, Cmd, FrameOf

LEMMA AdminSubmitQueue ==
    ASSUME ControlInv, TakenInv, QueueInv, AdminSubmit
    PROVE  QueueInv'
<1>1. /\ call.step \in {"create_cq", "create_sq", "delete_sq", "delete_cq"}
      /\ pend' = Append(pend, Command(call.step))
      /\ Goto(AdminOps[call.step])
      /\ UNCHANGED <<cap, cc, rdy, asq, cqs, sqs, cpls, openVars, owner, qids, qps, doubts,
                     refused>>
  BY DEF AdminSubmit, Submit, AdminOps, ioqVars, qpVars
<1>2. AdminOps[call.step] \in Steps /\ call.name \in {"create", "delete"}
  BY AdminStepFacts DEF AdminSubmit
<1>3. /\ call'.name = call.name /\ call'.step = AdminOps[call.step]
      /\ call'.q = call.q /\ call'.kind = call.kind
  BY <1>1, <1>2, GotoCall DEF ControlInv, TypeOK
<1>4. /\ call.step = "create_cq" => call'.step = "wait_create_cq"
      /\ call.step = "create_sq" => call'.step = "wait_create_sq"
      /\ call.step = "delete_sq" => call'.step = "wait_delete_sq"
      /\ call.step = "delete_cq" => call'.step = "wait_delete_cq"
  BY <1>3 DEF AdminOps
<1>5. \A f : /\ OwnedBy("queue", call.q) = {f} => Command(call.step) = Cmd(call.step, call.q, f)
             /\ OwnedBy("queue", call.q) = {} => Command(call.step) = Cmd(call.step, call.q, NoFrame)
  BY CommandFrame
<1>6. Quiet => pend' = <<Command(call.step)>> /\ cpls' = <<>>
  BY <1>1 DEF Quiet
<1>7. /\ \A q, f : Owns(q, f)' <=> Owns(q, f)
      /\ \A q, f, g : On(q, f, g)' <=> On(q, f, g)
      /\ \A q : Remains(q)' <=> Remains(q)
      /\ \A q, f : Halved(q, f)' <=> Halved(q, f)
  BY <1>1 DEF Owns, OwnedBy, On, Remains, Halved
<1>8. call.step \notin DOMAIN CudaNext /\ call'.step \notin DOMAIN CudaNext
  BY <1>1, <1>4 DEF CudaNext
<1>9. ASSUME doubts = 0
      PROVE  CreateInv' /\ DeleteInv'
  <2>1. /\ CreateInv /\ DeleteInv
        /\ \A q \in Qids : (Creates(q)' <=> Creates(q)) /\ (Deletes(q)' <=> Deletes(q))
    BY <1>2, <1>3, <1>9, BusyAlone, ServingGives DEF Creates, Deletes
  <2>2. ASSUME NEW q \in Qids, Creates(q)
        PROVE  \E f \in Frames : CreatesIn(q, f)'
    <3>1. call.step \in {"create_cq", "create_sq"} /\ call.q = q
      BY <1>1, <2>2 DEF ControlInv, CallInv, CreateSteps, CudaNext, Creates
    <3>2. PICK f \in Frames : CreatesIn(q, f)
      BY <1>8, <2>1, <2>2 DEF CreateInv
    <3>3. Quiet /\ Owns(q, f)
      BY <3>1, <3>2 DEF CreatesIn
    <3>4. pend' = <<Cmd(call.step, q, f)>> /\ cpls' = <<>>
      BY <1>5, <1>6, <3>1, <3>3 DEF Owns
    <3>5. CreatesIn(q, f)'
      BY <1>1, <1>4, <1>7, <3>1, <3>2, <3>4 DEF CreatesIn, Outstanding
    <3>. QED
      BY <3>5
  <2>3. ASSUME NEW q \in Qids, Deletes(q), q # 0
        PROVE  \E f \in Frames : DeletesIn(q, f)'
    <3>1. call.step \in {"delete_sq", "delete_cq"} /\ call.q = q
      BY <1>1, <2>3 DEF ControlInv, CallInv, DeleteSteps, Deletes
    <3>2. PICK f \in Frames : DeletesIn(q, f)
      BY <2>1, <2>3 DEF DeleteInv
    <3>3. Quiet /\ Owns(q, f)
      BY <3>1, <3>2 DEF DeletesIn
    <3>4. pend' = <<Cmd(call.step, q, f)>> /\ cpls' = <<>>
      BY <1>5, <1>6, <3>1, <3>3 DEF Owns
    <3>5. DeletesIn(q, f)'
      BY <1>1, <1>4, <1>7, <3>1, <3>2, <3>4 DEF DeletesIn, Outstanding
    <3>. QED
      BY <3>5
  <2>4. ASSUME Deletes(0)
        PROVE  DeletesNothing'
    <3>1. call.q = 0 /\ call.name = "delete"
      BY <2>4 DEF Deletes
    <3>2. call.step \in {"delete_sq", "delete_cq"}
      BY <1>1, <3>1 DEF ControlInv, CallInv, DeleteSteps
    <3>3. Quiet /\ OwnedBy("queue", 0) = {}
      BY <2>1, <2>4, <3>1, <3>2, QidFacts, Deleting DEF DeleteInv, DeletesNothing
    <3>4. pend' = <<Cmd(call.step, 0, NoFrame)>> /\ cpls' = <<>>
      BY <1>5, <1>6, <3>1, <3>3
    <3>. QED
      BY <1>4, <3>2, <3>4 DEF DeletesNothing, Outstanding
  <2>. QED
    BY <1>8, <2>1, <2>2, <2>3, <2>4 DEF CreateInv, DeleteInv
<1>. QED
  BY <1>1, <1>2, <1>9, GoesOnQueue

\* What a completion says about the one command there is.
LEMMA ReapFacts ==
    ASSUME NEW c, NEW before \in BOOLEAN, NEW after \in BOOLEAN,
           Outstanding(c, before, after), NEW err \in BOOLEAN, Reap(err)
    PROVE  Quiet' /\ (IF err THEN before ELSE after)
<1>1. /\ cpls # <<>> /\ err = IsError(Head(cpls)) /\ cpls' = Tail(cpls) /\ pend' = pend
  BY DEF Reap
<1>2. pend = <<>> /\ \/ cpls = <<"ok">> /\ after
                     \/ cpls = <<"failed">> /\ before
  BY <1>1 DEF Outstanding
<1>3. cpls' = <<>>
  BY <1>1, <1>2
<1>. QED
  BY <1>1, <1>2, <1>3 DEF Quiet, IsError

\* A creation that waits for its completion.
LEMMA CreateWaits ==
    ASSUME ControlInv, TakenInv, QueueInv, NEW p \in Qids, Creates(p), doubts = 0,
           call.step \in {"wait_create_cq", "wait_create_sq"}
    PROVE  \E f \in Frames : CreatesIn(p, f)
<1>1. call.name = "create" /\ call.step \notin DOMAIN CudaNext
  BY DEF Creates, CudaNext
<1>2. CreateInv
  BY <1>1, Creating, ServingGives
<1>. QED
  BY <1>1, <1>2 DEF CreateInv

LEMMA CreateCqDoneQueue ==
    ASSUME ControlInv, TakenInv, QueueInv, CreateCqDone
    PROVE  QueueInv'
<1>1. /\ call.name = "create" /\ call.step = "wait_create_cq"
      /\ UNCHANGED <<owner, openVars, qids, refused>>
  BY DEF CreateCqDone, At
<1>2. UNCHANGED <<cap, cc, rdy, asq, cqs, sqs>>
  BY Waited DEF CreateCqDone, ioqVars
<1>3. PICK p \in Qids : p = call.q /\ Creates(p)
  BY <1>1, Creating
<1>4. ASSUME doubts = 0
      PROVE  \E f \in Frames :
                /\ Owns(p, f) /\ Remains(p) \in BOOLEAN
                /\ (p \notin refused /\ On(p, f, NoFrame)) \in BOOLEAN
                /\ Outstanding(Cmd("create_cq", p, f), Remains(p), p \notin refused /\ On(p, f, NoFrame))
  <2>1. PICK f \in Frames : CreatesIn(p, f)
    BY <1>1, <1>3, <1>4, CreateWaits
  <2>2. Remains(p) \in BOOLEAN /\ (p \notin refused /\ On(p, f, NoFrame)) \in BOOLEAN
    BY DEF Remains, On
  <2>. QED
    BY <1>1, <2>1, <2>2 DEF CreatesIn
<1>5. CASE Reap(FALSE) /\ Goto("create_sq") /\ UNCHANGED <<qps, doubts>>
  <2>1. /\ "create_sq" \in Steps
        /\ call'.name = "create" /\ call'.step = "create_sq" /\ call'.q = p
    BY <1>1, <1>3, <1>5, GotoCall DEF ControlInv, TypeOK, Steps, CreateSteps
  <2>2. ASSUME doubts = 0
        PROVE  CreateInv' /\ DeleteInv'
    <3>1. PICK f \in Frames :
                /\ Owns(p, f) /\ Remains(p) \in BOOLEAN
                /\ (p \notin refused /\ On(p, f, NoFrame)) \in BOOLEAN
                /\ Outstanding(Cmd("create_cq", p, f), Remains(p), p \notin refused /\ On(p, f, NoFrame))
      BY <1>4, <2>2
    <3>2. Quiet' /\ p \notin refused /\ On(p, f, NoFrame)
      BY <1>5, <3>1, ReapFacts
    <3>3. Owns(p, f)' /\ On(p, f, NoFrame)' /\ p \notin refused'
      BY <1>1, <1>2, <3>1, <3>2 DEF Owns, OwnedBy, On
    <3>4. CreatesIn(p, f)'
      BY <2>1, <3>2, <3>3 DEF CreatesIn
    <3>5. "create_sq" \notin DOMAIN CudaNext
      BY DEF CudaNext
    <3>. QED
      BY <2>1, <3>4, <3>5 DEF CreateInv, DeleteInv, Creates, Deletes
  <2>. QED
    BY <1>1, <1>2, <1>5, <2>1, <2>2, GoesOnQueue
<1>6. CASE Reap(TRUE) /\ Lose /\ UNCHANGED doubts
  <2>1. doubts' = 0 => doubts = 0 /\ Quiet'
    BY <1>4, <1>6, ReapFacts
  <2>. QED
    BY <1>1, <1>2, <1>6, <2>1, LoseQueue
<1>7. CASE TimedOut /\ Lose /\ doubts' = doubts + 1
  <2>1. doubts' # 0
    BY <1>7, BoundFacts
  <2>. QED
    BY <1>1, <1>2, <1>7, <2>1, LoseQueue
<1>. QED
  BY <1>5, <1>6, <1>7 DEF CreateCqDone

LEMMA CreateSqDoneQueue ==
    ASSUME ControlInv, TakenInv, QueueInv, CreateSqDone
    PROVE  QueueInv'
<1>1. /\ call.name = "create" /\ call.step = "wait_create_sq"
      /\ UNCHANGED <<owner, openVars, qids, refused>>
  BY DEF CreateSqDone, At
<1>2. UNCHANGED <<cap, cc, rdy, asq, cqs, sqs>>
  BY Waited DEF CreateSqDone, ioqVars
<1>3. PICK p \in Qids : p = call.q /\ Creates(p) /\ p # 0
  BY <1>1, Creating
<1>4. ASSUME doubts = 0
      PROVE  \E f \in Frames :
                /\ Owns(p, f) /\ p \notin refused
                /\ On(p, f, NoFrame) \in BOOLEAN /\ On(p, f, f) \in BOOLEAN
                /\ Outstanding(Cmd("create_sq", p, f), On(p, f, NoFrame), On(p, f, f))
  <2>1. PICK f \in Frames : CreatesIn(p, f)
    BY <1>1, <1>3, <1>4, CreateWaits
  <2>2. On(p, f, NoFrame) \in BOOLEAN /\ On(p, f, f) \in BOOLEAN
    BY DEF On
  <2>. QED
    BY <1>1, <2>1, <2>2 DEF CreatesIn
<1>5. CASE /\ Reap(FALSE)
           /\ qps' = [qps EXCEPT ![call.q] = call.kind] /\ Return
           /\ UNCHANGED doubts
  <2>1. PICK k \in {"host", "gpu"} : k = call.kind
    BY <1>1, BusyAlone
  <2>2. qps'[p] = k /\ \A q \in Qids \ {p} : qps'[q] = qps[q]
    BY <1>3, <1>5, <2>1 DEF ControlInv, TypeOK
  <2>3. LeavesOthers(p)
    BY <1>1, <1>2, <2>2 DEF LeavesOthers
  <2>4. ASSUME doubts' = 0
        PROVE  doubts = 0 /\ Quiet' /\ Backs(p)' /\ PairInv(p)'
    <3>1. PICK f \in Frames :
                /\ Owns(p, f) /\ p \notin refused
                /\ On(p, f, NoFrame) \in BOOLEAN /\ On(p, f, f) \in BOOLEAN
                /\ Outstanding(Cmd("create_sq", p, f), On(p, f, NoFrame), On(p, f, f))
      BY <1>4, <1>5, <2>4
    <3>2. Quiet' /\ On(p, f, f)
      BY <1>5, <3>1, ReapFacts
    <3>3. Present(p)'
      BY <1>1, <1>2, <3>1, <3>2 DEF Present, Owns, OwnedBy, On
    <3>4. Backs(p)'
      <4>1. Backs(p)
        BY <1>1, <1>5, <2>4, Creating, ServingGives DEF Backed
      <4>. QED
        BY <1>1, <1>2, <4>1 DEF Backs
    <3>. QED
      BY <1>3, <1>5, <2>2, <2>4, <3>2, <3>3, <3>4 DEF PairInv
  <2>. QED
    BY <1>1, <1>2, <1>3, <1>5, <2>3, <2>4, CreateEndsQueue
<1>6. CASE Reap(TRUE) /\ Lose /\ UNCHANGED doubts
  <2>1. doubts' = 0 => doubts = 0 /\ Quiet'
    BY <1>4, <1>6, ReapFacts
  <2>. QED
    BY <1>1, <1>2, <1>6, <2>1, LoseQueue
<1>7. CASE TimedOut /\ Lose /\ doubts' = doubts + 1
  <2>1. doubts' # 0
    BY <1>7, BoundFacts
  <2>. QED
    BY <1>1, <1>2, <1>7, <2>1, LoseQueue
<1>. QED
  BY <1>5, <1>6, <1>7 DEF CreateSqDone

\* A queue pair that is deleted is read, from the caller or from the GPU,
\* before anything else is done with it.
LEMMA DeleteStartQueue ==
    ASSUME ControlInv, TakenInv, QueueInv, NEW p \in Qids, NEW kind \in {"host", "gpu"},
           DeleteStart(p, kind), UNCHANGED <<deviceVars, owner, qpVars, openVars>>
    PROVE  QueueInv'
<1>1. /\ call = NoCall /\ ctrl = "open" /\ qps[p] = kind
      /\ call' = [name |-> "delete", step |-> "delete_sq", q |-> p, kind |-> kind]
      /\ UNCHANGED <<qids, qps, doubts, refused>>
  BY DEF DeleteStart, Steady, Idle, qpVars
<1>2. call'.name = "delete" /\ call'.step = "delete_sq" /\ call'.q = p
  BY <1>1
<1>3. Serving /\ \A q \in Qids : ~Creates(q) /\ ~Deletes(q)
  BY <1>1, NoCallFacts DEF Serving, Creates, Deletes
<1>4. RunInv' /\ AdminInv' /\ OpenInv' /\ ~Closing'
  BY <1>2, <1>3, ServingRuns DEF deviceVars
<1>5. p # 0
  BY <1>1, <1>3 DEF TakenInv
<1>6. ASSUME doubts' = 0
      PROVE  Backed' /\ PairsInv' /\ CreateInv' /\ DeleteInv'
  <2>1. Backed /\ PairsInv /\ Quiet
    BY <1>1, <1>3, <1>6, NoCallFacts, ServingGives
  <2>2. Present(p) /\ Backs(p)
    BY <1>1, <1>3, <1>5, <2>1 DEF PairsInv, PairInv, Backed
  <2>3. PICK f \in Frames : p \notin refused /\ Owns(p, f) /\ On(p, f, f)
    BY <2>2 DEF Present
  <2>4. DeletesIn(p, f)'
    <3>1. Owns(p, f)' /\ On(p, f, f)' /\ Quiet' /\ p \notin refused'
      BY <1>1, <2>1, <2>3 DEF Owns, OwnedBy, On, Quiet, deviceVars
    <3>. QED
      BY <1>2, <3>1 DEF DeletesIn
  <2>5. Deletes(p)' /\ \A q \in Qids : ~Creates(q)' /\ (Deletes(q)' => q = p)
    BY <1>2 DEF Creates, Deletes
  <2>6. LeavesOthers(p) /\ Alone(p)
    BY <1>1, <1>3 DEF LeavesOthers, Alone, deviceVars
  <2>7. Backs(p)'
    BY <1>1, <2>2 DEF Backs, deviceVars
  <2>8. PairInv(p)'
    BY <1>1, <1>5, <2>5 DEF PairInv
  <2>9. Backed' /\ PairsInv'
    BY <2>1, <2>6, <2>7, <2>8, PairsMove
  <2>10. CreateInv' /\ DeleteInv'
    BY <1>5, <2>4, <2>5 DEF CreateInv, DeleteInv
  <2>. QED
    BY <2>9, <2>10
<1>. QED
  BY <1>2, <1>4, <1>6, ServingEnds

LEMMA DeleteUnreadQueue ==
    ASSUME ControlInv, TakenInv, QueueInv, NEW p \in Qids, CudaDeleteUnread(p)
    PROVE  QueueInv'
<1>1. /\ call = NoCall /\ ctrl = "open" /\ qps[p] = "gpu"
      /\ call' = [name |-> "delete", step |-> "delete_sq", q |-> 0, kind |-> "gpu"]
      /\ qps' = [qps EXCEPT ![p] = "lost"]
      /\ UNCHANGED <<deviceVars, owner, openVars, qids, doubts, refused>>
  BY DEF CudaDeleteUnread, Steady, Idle
<1>2. call'.name = "delete" /\ call'.step = "delete_sq" /\ call'.q = 0
  BY <1>1
<1>3. Serving /\ \A q \in Qids : ~Creates(q) /\ ~Deletes(q)
  BY <1>1, NoCallFacts DEF Serving, Creates, Deletes
<1>4. RunInv' /\ AdminInv' /\ OpenInv' /\ ~Closing'
  BY <1>1, <1>2, <1>3, ServingRuns DEF deviceVars
<1>5. p # 0
  BY <1>1, <1>3 DEF TakenInv
<1>6. qps'[p] = "lost" /\ \A q \in Qids \ {p} : qps'[q] = qps[q]
  BY <1>1 DEF ControlInv, TypeOK
<1>7. ASSUME doubts' = 0
      PROVE  Backed' /\ PairsInv' /\ CreateInv' /\ DeleteInv'
  <2>1. Backed /\ PairsInv /\ Quiet
    BY <1>1, <1>3, <1>7, NoCallFacts, ServingGives
  <2>2. LeavesOthers(p) /\ Alone(p)
    BY <1>1, <1>3, <1>6 DEF LeavesOthers, Alone, deviceVars
  <2>3. Backs(p)'
    BY <1>1, <2>1 DEF Backed, Backs, deviceVars
  <2>4. PairInv(p)'
    BY <1>5, <1>6 DEF PairInv
  <2>5. Backed' /\ PairsInv'
    BY <2>1, <2>2, <2>3, <2>4, PairsMove
  <2>6. DeletesNothing'
    BY <1>1, <1>2, <2>1 DEF DeletesNothing, Quiet, deviceVars
  <2>7. CreateInv' /\ DeleteInv'
    BY <1>2, <2>6 DEF CreateInv, DeleteInv, Creates, Deletes
  <2>. QED
    BY <2>5, <2>7
<1>. QED
  BY <1>2, <1>4, <1>7, ServingEnds

\* Both completions of deleting.  A controller that refused keeps what it had,
\* under an identifier that is then among the refused ones.
LEMMA DeleteDoneQueue ==
    ASSUME ControlInv, TakenInv, QueueInv, DeleteSqDone \/ DeleteCqDone
    PROVE  QueueInv'
<1>1. /\ call.name = "delete"
      /\ \/ call.step = "wait_delete_sq" /\ Goto("delete_cq")
         \/ call.step = "wait_delete_cq" /\ Goto("free")
      /\ DeleteOutcome
      /\ UNCHANGED <<owner, openVars, qids, qps>>
  BY DEF DeleteSqDone, DeleteCqDone, At
<1>2. UNCHANGED <<cap, cc, rdy, asq, cqs, sqs>>
  BY <1>1, Waited DEF DeleteOutcome, ioqVars
<1>3. PICK p \in Qids : p = call.q /\ Deletes(p)
  BY <1>1, Deleting
<1>4. PICK s \in {"delete_cq", "free"} :
         /\ Goto(s)
         /\ s = "delete_cq" => call.step = "wait_delete_sq"
         /\ s = "free" => call.step = "wait_delete_cq"
  BY <1>1
<1>5. s \in Steps /\ call'.name = "delete" /\ call'.step = s /\ call'.q = p
  BY <1>1, <1>3, <1>4, GotoCall DEF ControlInv, TypeOK, Steps, DeleteSteps
<1>6. /\ refused' \in {refused, refused \cup {call.q}}
      /\ doubts' = 0 =>
            \E err \in BOOLEAN : /\ Reap(err) /\ doubts = 0
                                 /\ refused' = IF err THEN refused \cup {p} ELSE refused
  <2>1. CASE Reap(FALSE) /\ UNCHANGED <<doubts, refused>>
    BY <2>1
  <2>2. CASE Reap(TRUE) /\ refused' = refused \cup {call.q} /\ UNCHANGED doubts
    BY <1>3, <2>2
  <2>3. CASE TimedOut /\ doubts' = doubts + 1 /\ UNCHANGED refused
    BY <2>3, BoundFacts
  <2>. QED
    BY <1>1, <2>1, <2>2, <2>3 DEF DeleteOutcome
<1>7. ASSUME doubts' = 0
      PROVE  doubts = 0 /\ CreateInv' /\ DeleteInv'
  <2>1. PICK err \in BOOLEAN : /\ Reap(err) /\ doubts = 0
                               /\ refused' = IF err THEN refused \cup {p} ELSE refused
    BY <1>6, <1>7
  <2>2. DeleteInv
    BY <1>1, <2>1, Deleting, ServingGives
  <2>3. ASSUME p = 0
        PROVE  DeletesNothing'
    <3>1. PICK c : Outstanding(c, TRUE, FALSE)
      BY <1>3, <1>4, <2>2, <2>3 DEF DeleteInv, DeletesNothing
    <3>2. Quiet'
      BY <2>1, <3>1, ReapFacts
    <3>. QED
      BY <1>5, <3>2 DEF DeletesNothing
  <2>4. ASSUME p # 0
        PROVE  \E f \in Frames : DeletesIn(p, f)'
    <3>1. PICK f \in Frames : DeletesIn(p, f)
      BY <1>3, <2>2, <2>4 DEF DeleteInv
    <3>2. f # NoFrame
      BY AdminAssumption DEF NoFrame
    <3>3. Owns(p, f)' /\ \A c, t : On(p, c, t)' <=> On(p, c, t)
      BY <1>1, <1>2, <3>1 DEF DeletesIn, Owns, OwnedBy, On
    <3>4. CASE s = "delete_cq"
      <4>1. /\ p \notin refused
            /\ Outstanding(Cmd("delete_sq", p, f), On(p, f, f), On(p, f, NoFrame))
        BY <1>4, <3>1, <3>4 DEF DeletesIn
      <4>2. Quiet' /\ IF err THEN On(p, f, f) ELSE On(p, f, NoFrame)
        BY <2>1, <4>1, ReapFacts DEF On
      <4>3. Halved(p, f)'
        BY <2>1, <3>3, <4>1, <4>2 DEF Halved
      <4>4. DeletesIn(p, f)'
        BY <1>5, <3>3, <3>4, <4>2, <4>3 DEF DeletesIn
      <4>. QED
        BY <4>4
    <3>5. CASE s = "free"
      <4>1. Outstanding(Cmd("delete_cq", p, f), Halved(p, f),
                        p \notin refused /\ On(p, NoFrame, NoFrame))
        BY <1>4, <3>1, <3>5 DEF DeletesIn
      <4>2. /\ Quiet'
            /\ IF err THEN Halved(p, f) ELSE p \notin refused /\ On(p, NoFrame, NoFrame)
        BY <2>1, <4>1, ReapFacts DEF Halved, On
      <4>3. Remains(p)'
        BY <1>2, <2>1, <3>2, <3>3, <4>2 DEF Remains, Halved, On
      <4>4. DeletesIn(p, f)'
        BY <1>5, <3>3, <3>5, <4>2, <4>3 DEF DeletesIn
      <4>. QED
        BY <4>4
    <3>. QED
      BY <3>4, <3>5
  <2>. QED
    BY <1>5, <2>1, <2>3, <2>4 DEF CreateInv, DeleteInv, Creates, Deletes
<1>. QED
  BY <1>1, <1>2, <1>4, <1>5, <1>6, <1>7, GoesOnQueue

\* The memory of a deleted pair is free, its identifier is free or spent.
LEMMA DeleteFreeQueue ==
    ASSUME ControlInv, TakenInv, QueueInv, (DeleteFree /\ UNCHANGED gpu) \/ CudaDeleteFree
    PROVE  QueueInv'
<1>1. /\ call.name = "delete" /\ call.step = "free" /\ Return
      /\ UNCHANGED <<deviceVars, openVars, doubts, refused>>
  BY DEF DeleteFree, CudaDeleteFree, At
<1>2. PICK p \in Qids : /\ p = call.q /\ Deletes(p) /\ Alone(p) /\ p \in qids
                        /\ p # 0 => qps[p] \in {"host", "gpu"}
  BY <1>1, Deleting
<1>3. /\ Clean(p)'
      /\ \A q \in Qids \ {p} : \A f \in Frames :
            owner'[f] = <<"queue", q>> <=> owner[f] = <<"queue", q>>
  BY <1>2, DeleteFreeTaken
<1>4. \A f \in Frames : owner[f] = <<"aq", 0>> => owner'[f] = owner[f]
  <2>1. CASE DeleteFree
    BY <1>2, <2>1 DEF DeleteFree, Release, OwnedBy
  <2>2. CASE CudaDeleteFree
    BY <2>2, GiveBackFacts DEF CudaDeleteFree
  <2>. QED
    BY <2>1, <2>2
<1>5. /\ \A q \in Qids \ {p} : qps'[q] = qps[q] /\ (q \in qids' <=> q \in qids)
      /\ p # 0 => qps'[p] \in {"none", "spent"}
  <2>1. CASE DeleteFree
    BY <1>2, <2>1 DEF DeleteFree, QidFree, ControlInv, TypeOK
  <2>2. CASE CudaDeleteFree
    BY <1>2, <2>2 DEF CudaDeleteFree, ControlInv, TypeOK
  <2>. QED
    BY <2>1, <2>2
<1>6. LeavesOthers(p)
  BY <1>1, <1>3, <1>5 DEF LeavesOthers, deviceVars
<1>7. /\ Serving /\ call'.name = "none" /\ CreateInv' /\ DeleteInv'
      /\ \A q \in Qids : ~Creates(q)' /\ ~Deletes(q)'
  BY <1>1, Deleting, ReturnsAlone DEF CreateInv, DeleteInv
<1>8. RunInv' /\ AdminInv' /\ OpenInv' /\ ~Closing'
  BY <1>1, <1>4, <1>7, ServingRuns DEF deviceVars
<1>9. ASSUME doubts' = 0
      PROVE  Backed' /\ PairsInv' /\ Quiet'
  <2>1. Backed /\ PairsInv /\ DeleteInv
    BY <1>1, <1>7, <1>9, ServingGives
  <2>2. Quiet /\ (IF p = 0 THEN On(p, NoFrame, NoFrame) ELSE Remains(p))
    <3>1. CASE p = 0
      BY <1>1, <1>2, <2>1, <3>1 DEF DeleteInv, DeletesNothing, PairsInv, PairInv
    <3>2. CASE p # 0
      BY <1>1, <1>2, <2>1, <3>2 DEF DeleteInv, DeletesIn
    <3>. QED
      BY <3>1, <3>2
  <2>3. Quiet' /\ (IF p = 0 THEN On(p, NoFrame, NoFrame)' ELSE Remains(p)')
    BY <1>1, <2>2 DEF Quiet, On, Remains, deviceVars
  <2>4. Backs(p)'
    BY <2>3 DEF Backs, Remains, On
  <2>5. PairInv(p)'
    BY <1>5, <2>3 DEF PairInv
  <2>. QED
    BY <1>2, <1>6, <2>1, <2>3, <2>4, <2>5, PairsMove
<1>. QED
  BY <1>7, <1>8, <1>9, ServingEnds

-----------------------------------------------------------------------------
(***************************************************************************)
(* QueueInv: closing, and the end of the process.                          *)
(***************************************************************************)
LEMMA CloseMovesQueue ==
    ASSUME call'.name = "close", call'.step \notin {"stop", "wait_stopped"}, RunInv'
    PROVE  QueueInv'
<1>1. ~Serving' /\ ~Closing' /\ ~Idle'
  BY NoCallFacts DEF Serving, Closing, InCall, Idle
<1>. QED
  BY <1>1 DEF QueueInv, AdminInv, OpenInv, ServeInv, InCall

LEMMA CloseQueue ==
    ASSUME ControlInv, QueueInv, Close
    PROVE  QueueInv'
<1>1. /\ via = "sysfs" /\ call = NoCall /\ ctrl' = "down"
      /\ UNCHANGED <<cap, cc, rdy, cqs, sqs, pend, call, via, lateStop>>
  BY DEF Close, Closed, Idle, deviceVars
<1>2. RunInv'
  BY <1>1, NoCallFacts DEF QueueInv, RunInv, Serving, InCall, At, Enabled, Polls
<1>. QED
  BY <1>1, <1>2, NoCallFacts, DownQueue

LEMMA CloseVfioQueue ==
    ASSUME ControlInv, QueueInv, CloseVfio
    PROVE  QueueInv'
<1>1. /\ call = NoCall /\ ctrl = "open" /\ call' = Called("close", "stop")
      /\ UNCHANGED <<cap, cc, rdy, asq, cqs, sqs, pend, cpls, owner, qids, doubts, refused,
                     ctrl, via, held, lateStop>>
  BY DEF CloseVfio, Idle, deviceVars, qpVars, openVars
<1>2. call'.name = "close" /\ call'.step = "stop" /\ "stop" \in Steps
  BY <1>1, CalledFacts DEF Steps, CloseSteps
<1>3. Serving /\ ~Serving' /\ call.name = "none"
  BY <1>1, <1>2, NoCallFacts DEF Serving
<1>4. RunInv'
  BY <1>1, <1>2, <1>3, NoCallFacts DEF QueueInv, RunInv, InCall, At, Enabled, Polls
<1>5. AdminInv' /\ OpenInv'
  BY <1>1, <1>2, <1>3 DEF QueueInv, AdminInv, OpenInv, InCall, OwnedBy
<1>6. ServeInv'
  <2>1. doubts' = 0 => Backed /\ Quiet
    BY <1>1, <1>3, ServingGives
  <2>2. doubts' = 0 => Backed' /\ Quiet'
    BY <1>1, <2>1 DEF Backed, Backs, Quiet
  <2>. QED
    BY <1>3, <2>2 DEF ServeInv
<1>. QED
  BY <1>4, <1>5, <1>6 DEF QueueInv

LEMMA CloseStopQueue ==
    ASSUME ControlInv, QueueInv, CloseStop
    PROVE  QueueInv'
<1>1. /\ call.name = "close" /\ call.step = "stop" /\ via = "vfio"
      /\ UNCHANGED <<cap, rdy, asq, cqs, sqs, pend, cpls, owner, qids, doubts, refused,
                     ctrl, via, held, lateStop>>
  BY DEF CloseStop, At, CcWrite, ioqVars, deviceVars, qpVars, openVars, ControlInv, CallInv
<1>2. ~Enabled'
  <2>1. CASE "bar" \in held
    BY <2>1 DEF CloseStop, CcWrite, CcDisable, Enabled
  <2>2. CASE "bar" \notin held
    BY <1>1, <2>2 DEF CloseStop, QueueInv, RunInv, At, Enabled, deviceVars
  <2>. QED
    BY <2>1, <2>2
<1>3. PICK s \in {"wait_stopped", "free"} : Goto(s) /\ (s = "free" => ~rdy)
  BY <1>1 DEF CloseStop, QueueInv, RunInv, At
<1>4. call'.name = "close" /\ call'.step = s
  BY <1>1, <1>3, GotoCall DEF ControlInv, TypeOK, Steps, CloseSteps
<1>5. RunInv'
  BY <1>1, <1>2, <1>3, <1>4 DEF QueueInv, RunInv, Serving, InCall, At, Polls
<1>6. ~Serving' /\ (Closing' => Closing)
  BY <1>1, <1>2, <1>4 DEF Serving, Closing, InCall
<1>7. AdminInv' /\ OpenInv'
  BY <1>1, <1>4, <1>6 DEF QueueInv, AdminInv, OpenInv, InCall, OwnedBy
<1>8. ServeInv'
  <2>1. ~Idle'
    BY <1>4, NoCallFacts DEF Idle
  <2>. QED
    BY <1>1, <1>6, <2>1 DEF QueueInv, ServeInv, Backed, Backs, Quiet
<1>. QED
  BY <1>5, <1>7, <1>8 DEF QueueInv

\* Behind the wait, the controller still runs only if it did not stop in time.
LEMMA CloseStoppedQueue ==
    ASSUME ControlInv, QueueInv, CloseStopped
    PROVE  QueueInv'
<1>1. /\ call.name = "close" /\ call.step = "wait_stopped" /\ lateStop' = (lateStop \/ rdy)
      /\ Goto("free")
      /\ UNCHANGED <<cap, cc, rdy, cqs, sqs, pend, via, held>>
  BY DEF CloseStopped, At, deviceVars
<1>2. call'.name = "close" /\ call'.step = "free"
  BY <1>1, GotoCall DEF ControlInv, TypeOK, Steps, CloseSteps
<1>3. RunInv'
  BY <1>1, <1>2 DEF QueueInv, RunInv, Serving, InCall, At, Enabled, Polls
<1>. QED
  BY <1>2, <1>3, CloseMovesQueue

LEMMA CloseFreeQueue ==
    ASSUME ControlInv, QueueInv, CloseFree \/ CtxCloseBar
    PROVE  QueueInv'
<1>1. /\ call.name = "close" /\ call.step \in {"free", "ctx_bar"}
      /\ \/ call.step = "free" /\ Goto("ctx_bar") /\ held' = held
         \/ call.step = "ctx_bar" /\ Goto("ctx_device")
      /\ UNCHANGED <<cap, cc, rdy, cqs, sqs, pend, via, lateStop>>
  BY DEF CloseFree, CtxCloseBar, At, deviceVars, openVars
<1>4. PICK s \in {"ctx_bar", "ctx_device"} : Goto(s) /\ (s = "ctx_bar" => held' = held)
  BY <1>1
<1>2. call'.name = "close" /\ call'.step = s
  BY <1>1, <1>4, GotoCall DEF ControlInv, TypeOK, Steps, CloseSteps
<1>3. RunInv'
  BY <1>1, <1>2, <1>4 DEF QueueInv, RunInv, Serving, InCall, At, Enabled, Polls
<1>. QED
  BY <1>2, <1>3, CloseMovesQueue

\* Once its descriptor is closed, the function has been reset.
LEMMA CtxCloseDeviceQueue ==
    ASSUME ControlInv, QueueInv, CtxCloseDevice
    PROVE  QueueInv'
<1>1. /\ call.name = "close" /\ call.step = "ctx_device" /\ Goto("ctx_unmap")
      /\ via = "vfio" /\ UNCHANGED <<via, lateStop>>
  BY DEF CtxCloseDevice, At, ControlInv, CallInv
<1>2. call'.name = "close" /\ call'.step = "ctx_unmap"
  BY <1>1, GotoCall DEF ControlInv, TypeOK, Steps, CloseSteps
<1>3. ~rdy' /\ ~Enabled' /\ cqs' = NoQueues /\ sqs' = NoQueues /\ pend' = <<>>
  <2>1. CASE "device" \in held
    BY <2>1 DEF CtxCloseDevice, FunctionReset, Enabled
  <2>2. CASE "device" \notin held
    <3>1. ~rdy /\ ~Enabled
      BY <1>1, <2>2 DEF ControlInv, StoppedInv
    <3>. QED
      BY <2>2, <3>1 DEF CtxCloseDevice, QueueInv, RunInv, Enabled, deviceVars
  <2>. QED
    BY <2>1, <2>2
<1>4. RunInv'
  BY <1>2, <1>3 DEF RunInv, Serving, InCall, At
<1>. QED
  BY <1>2, <1>4, CloseMovesQueue

LEMMA CtxCloseRestQueue ==
    ASSUME ControlInv, QueueInv, CtxUnmap \/ CtxCloseFds
    PROVE  QueueInv'
<1>1. /\ call.name = "close" /\ call.step \in {"ctx_unmap", "ctx_fds"} /\ via = "vfio"
      /\ "bar" \notin held
      /\ UNCHANGED <<cap, cc, rdy, cqs, sqs, pend, via>>
  BY DEF CtxUnmap, CtxCloseFds, At, deviceVars, openVars, ControlInv, CallInv, HeldInv, InCall
<1>2. ~rdy' /\ ~Enabled' /\ cqs' = NoQueues /\ sqs' = NoQueues /\ pend' = <<>>
  BY <1>1 DEF QueueInv, RunInv, At, Enabled
<1>3. CASE CtxUnmap
  <2>1. call'.name = "close" /\ call'.step = "ctx_fds"
    BY <1>1, <1>3, GotoCall DEF CtxUnmap, ControlInv, TypeOK, Steps, CloseSteps
  <2>2. RunInv'
    BY <1>2, <2>1 DEF RunInv, Serving, InCall, At
  <2>. QED
    BY <2>1, <2>2, CloseMovesQueue
<1>4. CASE CtxCloseFds
  <2>1. ctrl' = "down" /\ call'.name = "none"
    BY <1>4, ReturnsAlone DEF CtxCloseFds, Closed
  <2>2. RunInv'
    BY <1>2, <2>1 DEF RunInv, Serving, InCall, At
  <2>. QED
    BY <2>1, <2>2, DownQueue
<1>. QED
  BY <1>3, <1>4

\* Bound to VFIO, the kernel resets the function; through sysfs it runs on.
LEMMA CrashQueue ==
    ASSUME ControlInv, QueueInv, CudaCrash
    PROVE  QueueInv'
<1>1. /\ ctrl' = "down" /\ call'.name = "none" /\ via' = via
      /\ IF "device" \in held THEN FunctionReset ELSE UNCHANGED deviceVars
  BY ReturnsAlone DEF CudaCrash, Crash, ProcessDies
<1>2. RunInv'
  <2>1. CASE "device" \in held
    BY <1>1, <2>1 DEF FunctionReset, RunInv, Serving, InCall, At, Enabled
  <2>2. CASE "device" \notin held
    <3>1. via = "vfio" => ~rdy /\ ~Enabled
      BY <2>2 DEF ControlInv, StoppedInv
    <3>. QED
      BY <1>1, <2>2, <3>1 DEF QueueInv, RunInv, Serving, InCall, At, Enabled, Polls, deviceVars
  <2>. QED
    BY <2>1, <2>2
<1>. QED
  BY <1>1, <1>2, DownQueue

-----------------------------------------------------------------------------
(***************************************************************************)
(* QueueInv: the controller.                                               *)
(***************************************************************************)
\* It turns what a command needs into what the command leaves, or refuses.
LEMMA ExecuteFacts ==
    ASSUME ControlInv, DeviceExecutes, NEW p \in Qids, NEW f, NEW o,
           NEW before \in BOOLEAN, NEW after \in BOOLEAN,
           Outstanding(Cmd(o, p, f), before, after)
    PROVE  /\ before /\ pend' = <<>>
           /\ \/ Carried(Cmd(o, p, f)) /\ cpls' = <<"ok">>
              \/ o = "create_sq" /\ cqs[p] = NoFrame /\ UNCHANGED ioqVars
              \/ cpls' = <<"failed">> /\ UNCHANGED ioqVars
<1>. DEFINE c == Cmd(o, p, f)
<1>1. PICK i \in DOMAIN pend :
         /\ pend' = RemoveAt(pend, i)
         /\ \/ Carried(pend[i]) /\ cpls' = Append(cpls, "ok")
            \/ /\ pend[i].op = "create_sq" /\ cqs[pend[i].q] = NoFrame
               /\ cpls' = Append(cpls, "cq_invalid") /\ UNCHANGED ioqVars
            \/ cpls' = Append(cpls, "failed") /\ UNCHANGED ioqVars
  BY DEF DeviceExecutes
<1>2. pend # <<>>
  BY <1>1
<1>3. pend = <<c>> /\ cpls = <<>> /\ before
  BY <1>2 DEF Outstanding
<1>4. c.op = o /\ c.q = p
  BY DEF Cmd
<1>. HIDE DEF c
<1>5. i = 1 /\ pend[i] = c
  BY <1>1, <1>3
<1>6. pend' = <<>>
  BY <1>1, <1>3, <1>5 DEF RemoveAt
<1>7. Append(cpls, "ok") = <<"ok">> /\ Append(cpls, "failed") = <<"failed">>
  BY <1>3
<1>. QED
  BY <1>1, <1>3, <1>4, <1>5, <1>6, <1>7 DEF c

\* The queues of the command's identifier are all that it changes.
LEMMA ExecuteOn ==
    ASSUME ControlInv, DeviceExecutes, NEW p \in Qids \ {0}, NEW f \in Frames,
           NEW o, NEW before \in BOOLEAN, NEW after \in BOOLEAN,
           Outstanding(Cmd(o, p, f), before, after),
           before /\ o = "create_sq" => cqs[p] # NoFrame
    PROVE  /\ before /\ pend' = <<>>
           /\ \/ cpls' = <<"failed">> /\ UNCHANGED ioqVars
              \/ /\ cpls' = <<"ok">>
                 /\ \A q \in Qids \ {p} : cqs'[q] = cqs[q] /\ sqs'[q] = sqs[q]
                 /\ \/ /\ o = "create_cq" /\ cqs[p] = NoFrame
                       /\ cqs'[p] = f /\ sqs'[p] = sqs[p]
                    \/ o = "create_sq" /\ cqs'[p] = cqs[p] /\ sqs'[p] = f
                    \/ o = "delete_sq" /\ cqs'[p] = cqs[p] /\ sqs'[p] = NoFrame
                    \/ /\ o = "delete_cq" /\ sqs[p] = NoFrame
                       /\ cqs'[p] = NoFrame /\ sqs'[p] = NoFrame
<1>1. /\ before /\ pend' = <<>>
      /\ \/ Carried(Cmd(o, p, f)) /\ cpls' = <<"ok">>
         \/ o = "create_sq" /\ cqs[p] = NoFrame /\ UNCHANGED ioqVars
         \/ cpls' = <<"failed">> /\ UNCHANGED ioqVars
  BY ExecuteFacts
<1>2. CASE Carried(Cmd(o, p, f)) /\ cpls' = <<"ok">>
  <2>1. \/ o = "create_cq" /\ cqs[p] = NoFrame /\ cqs' = [cqs EXCEPT ![p] = f] /\ sqs' = sqs
        \/ o = "create_sq" /\ sqs' = [sqs EXCEPT ![p] = f] /\ cqs' = cqs
        \/ o = "delete_sq" /\ sqs' = [sqs EXCEPT ![p] = NoFrame] /\ cqs' = cqs
        \/ o = "delete_cq" /\ sqs[p] = NoFrame /\ cqs' = [cqs EXCEPT ![p] = NoFrame] /\ sqs' = sqs
    BY <1>2 DEF Carried, Cmd
  <2>2. cqs \in [Qids -> Frames \cup {NoFrame}] /\ sqs \in [Qids -> Frames \cup {NoFrame}]
    BY DEF ControlInv, TypeOK
  <2>. QED
    BY <1>1, <1>2, <2>1, <2>2
<1>. QED
  BY <1>1, <1>2

\* What that leaves of the pairs, busy with a pair whose memory it is.
LEMMA ExecutePairs ==
    ASSUME ControlInv, TakenInv, QueueInv, UNCHANGED hostVars, Serving, doubts = 0,
           NEW p \in Qids, NEW f \in Frames, p # 0, Owns(p, f), Alone(p), p \in qids,
           \/ Creates(p) /\ qps[p] = "none"
           \/ Deletes(p) /\ qps[p] \in {"host", "gpu"},
           \/ UNCHANGED ioqVars
           \/ /\ \A q \in Qids \ {p} : cqs'[q] = cqs[q] /\ sqs'[q] = sqs[q]
              /\ cqs'[p] \in {f, NoFrame, cqs[p]} /\ sqs'[p] \in {f, NoFrame, sqs[p]}
    PROVE  Backed' /\ PairsInv'
<1>1. Backed /\ PairsInv /\ UNCHANGED <<call, owner, qids, qps, refused>>
  BY ServingGives DEF hostVars, qpVars
<1>2. /\ \A q \in Qids \ {p} : cqs'[q] = cqs[q] /\ sqs'[q] = sqs[q]
      /\ cqs'[p] \in {f, NoFrame, cqs[p]} /\ sqs'[p] \in {f, NoFrame, sqs[p]}
  BY DEF ioqVars
<1>3. LeavesOthers(p)
  BY <1>1, <1>2 DEF LeavesOthers
<1>4. Backs(p)'
  <2>1. owner[f] = <<"queue", p>> /\ Backs(p)
    BY <1>1 DEF Owns, OwnedBy, Backed
  <2>. QED
    BY <1>1, <1>2, <2>1 DEF Backs
<1>5. PairInv(p)'
  BY <1>1 DEF PairInv, Creates, Deletes
<1>. QED
  BY <1>1, <1>3, <1>4, <1>5, PairsMove

\* Behind a creation that waits for its command.
LEMMA CreateExecutes ==
    ASSUME ControlInv, TakenInv, QueueInv, DeviceExecutes, UNCHANGED hostVars,
           call.name = "create", doubts = 0
    PROVE  Backed' /\ PairsInv' /\ CreateInv' /\ DeleteInv'
<1>1. PICK p \in Qids : /\ p = call.q /\ Creates(p) /\ Alone(p) /\ p # 0
                        /\ qps[p] = "none" /\ p \in qids
  BY Creating
<1>2. Serving /\ CreateInv /\ pend # <<>> /\ UNCHANGED <<call, owner, qids, qps, refused>>
  BY Creating, ServingGives DEF DeviceExecutes, hostVars, qpVars
<1>3. call.step \notin DOMAIN CudaNext
  BY <1>1, <1>2 DEF CreateInv, Quiet
<1>4. PICK f \in Frames : CreatesIn(p, f)
  BY <1>1, <1>2, <1>3 DEF CreateInv
<1>5. Owns(p, f) /\ Owns(p, f)' /\ f # NoFrame
  BY <1>2, <1>4, AdminAssumption DEF CreatesIn, Owns, OwnedBy, NoFrame
<1>6. call.step \in {"wait_create_cq", "wait_create_sq"}
  BY <1>2, <1>3, <1>4 DEF CreatesIn, Quiet, ControlInv, CallInv, CreateSteps
<1>7. (CreatesIn(p, f)' => CreateInv') /\ DeleteInv'
  BY <1>1, <1>2, <1>3 DEF CreateInv, DeleteInv, Creates, Deletes
<1>8. CASE call.step = "wait_create_cq"
  <2>1. Outstanding(Cmd("create_cq", p, f), Remains(p), p \notin refused /\ On(p, f, NoFrame))
    BY <1>4, <1>8 DEF CreatesIn
  <2>2. PICK b \in BOOLEAN, a \in BOOLEAN :
          (b <=> Remains(p)) /\ (a <=> (p \notin refused /\ On(p, f, NoFrame)))
    OBVIOUS
  <2>a. /\ Outstanding(Cmd("create_cq", p, f), b, a)
        /\ b /\ "create_cq" = "create_sq" => cqs[p] # NoFrame
        /\ p \in Qids \ {0}
    BY <1>1, <2>1, <2>2 DEF Outstanding
  <2>b. /\ b /\ pend' = <<>>
        /\ \/ cpls' = <<"failed">> /\ UNCHANGED ioqVars
           \/ /\ cpls' = <<"ok">>
              /\ \A q \in Qids \ {p} : cqs'[q] = cqs[q] /\ sqs'[q] = sqs[q]
              /\ cqs[p] = NoFrame /\ cqs'[p] = f /\ sqs'[p] = sqs[p]
    BY <2>a, ExecuteOn
  <2>3. /\ Remains(p) /\ pend' = <<>>
        /\ \/ cpls' = <<"failed">> /\ UNCHANGED ioqVars
           \/ /\ cpls' = <<"ok">>
              /\ \A q \in Qids \ {p} : cqs'[q] = cqs[q] /\ sqs'[q] = sqs[q]
              /\ cqs[p] = NoFrame /\ cqs'[p] = f /\ sqs'[p] = sqs[p]
    BY <2>2, <2>b
  <2>4. Backed' /\ PairsInv'
    BY <1>1, <1>2, <1>5, <2>3, ExecutePairs
  <2>5. \/ cpls' = <<"failed">> /\ Remains(p)'
        \/ cpls' = <<"ok">> /\ p \notin refused' /\ On(p, f, NoFrame)'
    BY <1>2, <2>3 DEF Remains, On, ioqVars
  <2>6. CreatesIn(p, f)'
    BY <1>2, <1>5, <1>8, <2>3, <2>5 DEF CreatesIn, Outstanding
  <2>. QED
    BY <1>7, <2>4, <2>6
<1>9. CASE call.step = "wait_create_sq"
  <2>1. /\ Outstanding(Cmd("create_sq", p, f), On(p, f, NoFrame), On(p, f, f))
        /\ p \notin refused
    BY <1>4, <1>9 DEF CreatesIn
  <2>2. /\ On(p, f, NoFrame) \in BOOLEAN /\ On(p, f, f) \in BOOLEAN
        /\ On(p, f, NoFrame) => cqs[p] # NoFrame
    BY <1>5 DEF On
  <2>3. /\ On(p, f, NoFrame) /\ pend' = <<>>
        /\ \/ cpls' = <<"failed">> /\ UNCHANGED ioqVars
           \/ /\ cpls' = <<"ok">>
              /\ \A q \in Qids \ {p} : cqs'[q] = cqs[q] /\ sqs'[q] = sqs[q]
              /\ cqs'[p] = cqs[p] /\ sqs'[p] = f
    BY <1>1, <2>1, <2>2, ExecuteOn
  <2>4. Backed' /\ PairsInv'
    BY <1>1, <1>2, <1>5, <2>3, ExecutePairs
  <2>5. \/ cpls' = <<"failed">> /\ On(p, f, NoFrame)'
        \/ cpls' = <<"ok">> /\ On(p, f, f)'
    BY <2>3 DEF On, ioqVars
  <2>6. CreatesIn(p, f)'
    BY <1>2, <1>5, <1>9, <2>1, <2>3, <2>5 DEF CreatesIn, Outstanding
  <2>. QED
    BY <1>7, <2>4, <2>6
<1>. QED
  BY <1>6, <1>8, <1>9

\* Behind a deletion that waits for its command.
LEMMA DeleteExecutes ==
    ASSUME ControlInv, TakenInv, QueueInv, DeviceExecutes, UNCHANGED hostVars,
           call.name = "delete", doubts = 0
    PROVE  Backed' /\ PairsInv' /\ CreateInv' /\ DeleteInv'
<1>1. PICK p \in Qids : /\ p = call.q /\ Deletes(p) /\ Alone(p) /\ p \in qids
                        /\ p # 0 => qps[p] \in {"host", "gpu"}
  BY Deleting
<1>2. /\ Serving /\ Backed /\ PairsInv /\ DeleteInv /\ pend # <<>>
      /\ UNCHANGED <<call, owner, qids, qps, refused>>
  BY Deleting, ServingGives DEF DeviceExecutes, hostVars, qpVars
<1>3. /\ p = 0 /\ DeletesNothing' => CreateInv' /\ DeleteInv'
      /\ \A f \in Frames : p # 0 /\ DeletesIn(p, f)' => CreateInv' /\ DeleteInv'
  BY <1>1, <1>2 DEF CreateInv, DeleteInv, Creates, Deletes
<1>4. CASE p = 0
  <2>1. DeletesNothing
    BY <1>1, <1>2, <1>4 DEF DeleteInv
  <2>2. PICK o \in {"delete_sq", "delete_cq"} :
           /\ o = "delete_sq" <=> call.step = "wait_delete_sq"
           /\ o = "delete_cq" <=> call.step = "wait_delete_cq"
           /\ Outstanding(Cmd(o, 0, NoFrame), TRUE, FALSE)
    BY <1>1, <1>2, <2>1 DEF DeletesNothing, Deletes, Quiet, ControlInv, CallInv, DeleteSteps
  <2>3. pend' = <<>> /\ \/ Carried(Cmd(o, 0, NoFrame)) /\ cpls' = <<"ok">>
                        \/ cpls' = <<"failed">> /\ UNCHANGED ioqVars
    BY <2>2, ExecuteFacts, QidFacts
  <2>4. ~Carried(Cmd(o, 0, NoFrame))
    BY <2>2 DEF Carried, Cmd
  <2>5. DeletesNothing'
    BY <1>2, <2>2, <2>3, <2>4 DEF DeletesNothing, Outstanding
  <2>6. Backed' /\ PairsInv'
    <3>1. LeavesOthers(p) /\ Backs(p)' /\ PairInv(p)'
      BY <1>2, <1>4, <2>3, <2>4
         DEF LeavesOthers, Backed, Backs, PairsInv, PairInv, On, ioqVars
    <3>. QED
      BY <1>1, <1>2, <3>1, PairsMove
  <2>. QED
    BY <1>3, <1>4, <2>5, <2>6
<1>5. CASE p # 0
  <2>1. PICK f \in Frames : DeletesIn(p, f)
    BY <1>1, <1>2, <1>5 DEF DeleteInv
  <2>2. Owns(p, f) /\ Owns(p, f)' /\ f # NoFrame
    BY <1>2, <2>1, AdminAssumption DEF DeletesIn, Owns, OwnedBy, NoFrame
  <2>3. call.step \in {"wait_delete_sq", "wait_delete_cq"}
    BY <1>1, <1>2, <2>1 DEF DeletesIn, Deletes, Quiet, ControlInv, CallInv, DeleteSteps
  <2>4. CASE call.step = "wait_delete_sq"
    <3>1. /\ Outstanding(Cmd("delete_sq", p, f), On(p, f, f), On(p, f, NoFrame))
          /\ p \notin refused
      BY <2>1, <2>4 DEF DeletesIn
    <3>2. On(p, f, f) \in BOOLEAN /\ On(p, f, NoFrame) \in BOOLEAN
      BY DEF On
    <3>3. /\ On(p, f, f) /\ pend' = <<>>
          /\ \/ cpls' = <<"failed">> /\ UNCHANGED ioqVars
             \/ /\ cpls' = <<"ok">>
                /\ \A q \in Qids \ {p} : cqs'[q] = cqs[q] /\ sqs'[q] = sqs[q]
                /\ cqs'[p] = cqs[p] /\ sqs'[p] = NoFrame
      BY <1>1, <1>5, <3>1, <3>2, ExecuteOn
    <3>4. Backed' /\ PairsInv'
      BY <1>1, <1>2, <1>5, <2>2, <3>3, ExecutePairs
    <3>5. \/ cpls' = <<"failed">> /\ On(p, f, f)'
          \/ cpls' = <<"ok">> /\ On(p, f, NoFrame)'
      BY <3>3 DEF On, ioqVars
    <3>6. DeletesIn(p, f)'
      BY <1>2, <2>2, <2>4, <3>1, <3>3, <3>5 DEF DeletesIn, Outstanding
    <3>. QED
      BY <1>3, <1>5, <3>4, <3>6
  <2>5. CASE call.step = "wait_delete_cq"
    <3>1. Outstanding(Cmd("delete_cq", p, f), Halved(p, f),
                      p \notin refused /\ On(p, NoFrame, NoFrame))
      BY <2>1, <2>5 DEF DeletesIn
    <3>2. PICK b \in BOOLEAN, a \in BOOLEAN :
            /\ b <=> Halved(p, f)
            /\ a <=> (p \notin refused /\ On(p, NoFrame, NoFrame))
      OBVIOUS
    <3>a. /\ Outstanding(Cmd("delete_cq", p, f), b, a)
          /\ b /\ "delete_cq" = "create_sq" => cqs[p] # NoFrame
          /\ p \in Qids \ {0}
      BY <1>1, <1>5, <3>1, <3>2 DEF Outstanding
    <3>b. /\ b /\ pend' = <<>>
          /\ \/ cpls' = <<"failed">> /\ UNCHANGED ioqVars
             \/ /\ cpls' = <<"ok">> /\ sqs[p] = NoFrame
                /\ \A q \in Qids \ {p} : cqs'[q] = cqs[q] /\ sqs'[q] = sqs[q]
                /\ cqs'[p] = NoFrame /\ sqs'[p] = NoFrame
      BY <3>a, ExecuteOn
    <3>3. /\ Halved(p, f) /\ pend' = <<>>
          /\ \/ cpls' = <<"failed">> /\ UNCHANGED ioqVars
             \/ /\ cpls' = <<"ok">> /\ sqs[p] = NoFrame
                /\ \A q \in Qids \ {p} : cqs'[q] = cqs[q] /\ sqs'[q] = sqs[q]
                /\ cqs'[p] = NoFrame /\ sqs'[p] = NoFrame
      BY <3>2, <3>b
    <3>4. Backed' /\ PairsInv'
      BY <1>1, <1>2, <1>5, <2>2, <3>3, ExecutePairs
    <3>5. \/ cpls' = <<"failed">> /\ Halved(p, f)'
          \/ cpls' = <<"ok">> /\ p \notin refused' /\ On(p, NoFrame, NoFrame)'
      BY <1>2, <2>2, <3>3 DEF Halved, On, ioqVars
    <3>6. DeletesIn(p, f)'
      BY <1>2, <2>2, <2>5, <3>3, <3>5 DEF DeletesIn, Outstanding
    <3>. QED
      BY <1>3, <1>5, <3>4, <3>6
  <2>. QED
    BY <2>3, <2>4, <2>5
<1>. QED
  BY <1>4, <1>5

LEMMA DeviceQueue ==
    ASSUME ControlInv, TakenInv, QueueInv, Device, UNCHANGED hostVars
    PROVE  QueueInv'
<1>1. UNCHANGED <<cap, cc, asq, call, owner, qids, qps, doubts, refused, ctrl, via, held,
                  lateStop>>
  BY DEF Device, DeviceStops, DeviceStarts, DeviceExecutes, hostVars, qpVars, openVars
<1>2. (Serving' <=> Serving) /\ (Enabled' <=> Enabled) /\ OwnedBy("aq", 0)' = OwnedBy("aq", 0)
  BY <1>1 DEF Serving, Enabled, OwnedBy
<1>3. CASE DeviceStops
  <2>1. /\ ~Enabled /\ ~rdy' /\ cqs' = NoQueues /\ sqs' = NoQueues /\ pend' = <<>> /\ cpls' = cpls
        /\ ~Serving
    BY <1>3 DEF DeviceStops, QueueInv, RunInv
  <2>2. RunInv'
    BY <1>1, <1>2, <2>1 DEF QueueInv, RunInv, InCall, At, Polls
  <2>3. AdminInv' /\ ~Closing'
    BY <1>1, <1>2, <2>1 DEF QueueInv, AdminInv, Closing, InCall
  <2>4. OpenInv'
    BY <1>1, <2>1 DEF QueueInv, OpenInv, Quiet, InCall
  <2>5. ServeInv'
    <3>1. ~(Idle' /\ ctrl' = "open")
      BY <1>1, <2>1, NoCallFacts DEF Idle, Serving
    <3>. QED
      BY <1>2, <2>1, <2>3, <3>1 DEF ServeInv
  <2>. QED
    BY <2>2, <2>3, <2>4, <2>5 DEF QueueInv
<1>4. CASE DeviceStarts
  <2>1. /\ Enabled /\ ~rdy /\ rdy' /\ ~Serving /\ (Closing' <=> Closing)
        /\ UNCHANGED <<cqs, sqs, pend, cpls>>
    BY <1>1, <1>2, <1>4 DEF DeviceStarts, QueueInv, RunInv, Closing, InCall, ioqVars
  <2>2. RunInv'
    BY <1>1, <1>2, <2>1 DEF QueueInv, RunInv, InCall, At, Polls
  <2>3. AdminInv' /\ OpenInv'
    BY <1>1, <1>2, <2>1 DEF QueueInv, AdminInv, OpenInv, Quiet, InCall
  <2>4. ServeInv'
    BY <1>1, <1>2, <2>1 DEF QueueInv, ServeInv, Backed, Backs, Quiet, Idle
  <2>. QED
    BY <2>2, <2>3, <2>4 DEF QueueInv
<1>5. CASE DeviceExecutes
  <2>1. rdy /\ rdy' /\ ~Quiet /\ (Closing' <=> Closing)
    BY <1>1, <1>2, <1>5 DEF DeviceExecutes, Quiet, Closing, InCall
  <2>2. RunInv'
    BY <1>1, <1>2, <2>1 DEF QueueInv, RunInv, InCall, At, Polls
  <2>3. AdminInv' /\ OpenInv'
    BY <1>1, <1>2, <2>1 DEF QueueInv, AdminInv, OpenInv, InCall
  <2>4. ServeInv'
    <3>1. doubts = 0 => ~(Idle /\ ctrl = "open") /\ ~Closing
      BY <2>1 DEF QueueInv, ServeInv
    <3>2. doubts = 0 /\ Serving => call.name \in {"create", "delete"}
      BY <3>1 DEF Serving, Idle, ControlInv, CallInv
    <3>3. doubts = 0 /\ Serving => Backed' /\ PairsInv' /\ CreateInv' /\ DeleteInv'
      BY <1>5, <3>2, CreateExecutes, DeleteExecutes
    <3>. QED
      BY <1>1, <1>2, <2>1, <3>1, <3>3 DEF ServeInv, Idle
  <2>. QED
    BY <2>2, <2>3, <2>4 DEF QueueInv
<1>. QED
  BY <1>3, <1>4, <1>5 DEF Device

LEMMA StutterQueue ==
    ASSUME QueueInv, UNCHANGED allVars
    PROVE  QueueInv'
<1>1. UNCHANGED <<cap, cc, rdy, asq, cqs, sqs, pend, cpls, call, owner, qids, qps, doubts,
                  refused, ctrl, held, lateStop, via>>
  BY DEF allVars, deviceVars, hostVars, qpVars, openVars
<1>2. /\ \A q, f : Owns(q, f)' <=> Owns(q, f)
      /\ \A q, c, s : On(q, c, s)' <=> On(q, c, s)
      /\ \A q : Remains(q)' <=> Remains(q)
      /\ \A q, f : Halved(q, f)' <=> Halved(q, f)
  BY <1>1 DEF Owns, OwnedBy, On, Remains, Halved
<1>3. RunInv' /\ AdminInv' /\ OpenInv'
  BY <1>1 DEF QueueInv, RunInv, AdminInv, OpenInv, Serving, Closing, Quiet, OwnedBy, InCall, At,
     Enabled, Polls
<1>4. (Backed' <=> Backed) /\ (Quiet' <=> Quiet) /\ (Serving' <=> Serving)
      /\ (Closing' <=> Closing) /\ (Idle' <=> Idle)
  BY <1>1 DEF Backed, Backs, Quiet, Serving, Closing, InCall, Enabled, Idle
<1>5. PairsInv => PairsInv'
  BY <1>1, <1>2 DEF PairsInv, PairInv, Present, Creates, Deletes
<1>6. CreateInv => CreateInv'
  BY <1>1, <1>2 DEF CreateInv, CreatesIn, Creates, Quiet, Outstanding
<1>7. DeleteInv => DeleteInv'
  BY <1>1, <1>2 DEF DeleteInv, DeletesIn, Deletes, DeletesNothing, Quiet, Outstanding
<1>8. ServeInv'
  BY <1>1, <1>4, <1>5, <1>6, <1>7 DEF QueueInv, ServeInv
<1>. QED
  BY <1>3, <1>8 DEF QueueInv

-----------------------------------------------------------------------------
(***************************************************************************)
(* What follows from QueueInv.                                             *)
(***************************************************************************)
LEMMA NextQueue ==
    ASSUME ControlInv, TakenInv, QueueInv, [Next]_allVars
    PROVE  QueueInv'
<1>1. TakenInv'
  BY NextTaken
<1>2. CASE VfioControllerNext /\ UNCHANGED gpu
  <2>1. CASE OpenStep
    BY <2>1, OpenStepQueue
  <2>2. CASE CreateStart("host")
    BY <2>2, CreateStartQueue
  <2>3. CASE QueueStep
    BY <1>1, <1>2, <2>3, CreateInitQueue, AdminSubmitQueue, CreateCqDoneQueue, CreateSqDoneQueue,
       DeleteDoneQueue, DeleteFreeQueue DEF QueueStep
  <2>4. CASE \E q \in Qids : DeleteHost(q)
    BY <2>4, DeleteStartQueue DEF DeleteHost
  <2>5. CASE Close
    BY <2>5, CloseQueue
  <2>6. CASE Device /\ UNCHANGED <<hostVars, dma>>
    BY <2>6, DeviceQueue
  <2>7. CASE VfioStep
    BY <2>7, VfioOpenQueue, CloseStopQueue, CloseStoppedQueue, CloseFreeQueue,
       CtxCloseDeviceQueue, CtxCloseRestQueue DEF VfioStep
  <2>8. CASE CloseVfio
    BY <2>8, CloseVfioQueue
  <2>. QED
    BY <1>2, <2>1, <2>2, <2>3, <2>4, <2>5, <2>6, <2>7, <2>8 DEF VfioControllerNext, ControllerNext
<1>3. CASE CudaOpenStart
  BY <1>3, OpenStartQueue
<1>4. CASE CreateStart("gpu") /\ UNCHANGED <<dma, gpu>>
  BY <1>4, CreateStartQueue
<1>5. CASE CudaCreateTake \/ CudaCreateFail
  BY <1>1, <1>5, CudaCreateTakeQueue, CudaCreateFailQueue
<1>6. CASE \E q \in Qids : CudaDelete(q) \/ CudaDeleteUnread(q)
  <2>1. PICK q \in Qids : CudaDelete(q) \/ CudaDeleteUnread(q)
    BY <1>6
  <2>2. CASE CudaDelete(q)
    BY <2>2, DeleteStartQueue DEF CudaDelete
  <2>3. CASE CudaDeleteUnread(q)
    BY <2>3, DeleteUnreadQueue
  <2>. QED
    BY <2>1, <2>2, <2>3
<1>7. CASE CudaDeleteFree
  BY <1>7, DeleteFreeQueue
<1>8. CASE CudaCrash
  BY <1>8, CrashQueue
<1>9. CASE UNCHANGED allVars
  BY <1>9, StutterQueue
<1>. QED
  BY <1>2, <1>3, <1>4, <1>5, <1>6, <1>7, <1>8, <1>9 DEF Next

\* What open, create, delete, close and their failures keep about the queues
\* of the controller, its commands, their memory and identifiers.
THEOREM ControllerQueues == Spec => [](ControlInv /\ TakenInv /\ QueueInv)
<1>1. Init => QueueInv
  BY InitQueue
<1>2. ControlInv /\ TakenInv /\ QueueInv /\ [Next]_allVars => QueueInv'
  BY NextQueue
<1>. QED
  BY <1>1, <1>2, ControllerTaken, PTL DEF Spec

\* As long as no admin command has timed out, a controller that runs has every
\* queue in memory in use for it, under a taken identifier: after creations and
\* deletions that failed at any command, until it stops for good; but for the
\* queues of identifiers whose deletion it refused, for which delete_io_qpair
\* gives memory and identifier back all the same.
THEOREM ControllerQueuesBacked == Spec => []QueuesBacked
<1>1. ASSUME ControlInv, QueueInv
      PROVE  QueuesBacked
  <2>1. SUFFICES ASSUME rdy, doubts = 0, ctrl = "open" \/ "device" \in held, ~lateStop
                 PROVE  /\ owner[asq] = <<"aq", 0>>
                        /\ \A q \in Qids \ refused : \A f \in {cqs[q], sqs[q]} \ {NoFrame} :
                              owner[f] = <<"queue", q>> /\ q \in qids
    BY DEF QueuesBacked
  <2>2. Serving \/ Closing \/ At("open", "wait_ready")
    <3>1. call.name = "none" => Serving
      BY <1>1, <2>1 DEF Serving, ControlInv, CallInv, HeldInv, Idle, TypeOK
    <3>2. call.name \in {"create", "delete"} => Serving
      BY <1>1 DEF Serving, ControlInv, CallInv
    <3>3. call.name = "open" => At("open", "wait_ready")
      BY <1>1, <2>1 DEF ControlInv, CallInv, HeldInv, QueueInv, RunInv, At, TypeOK
    <3>4. call.name = "close" => Closing
      BY <1>1, <2>1 DEF ControlInv, CallInv, HeldInv, QueueInv, RunInv, Closing, InCall, At, CloseSteps
    <3>. QED
      BY <1>1, <3>1, <3>2, <3>3, <3>4 DEF ControlInv, TypeOK, Calls
  <2>3. owner[asq] = <<"aq", 0>>
    BY <1>1, <2>2 DEF QueueInv, AdminInv, InCall, At, OwnedBy
  <2>4. CASE Serving \/ Closing
    BY <1>1, <2>1, <2>3, <2>4 DEF QueueInv, ServeInv, Backed, Backs
  <2>5. CASE At("open", "wait_ready")
    BY <1>1, <2>3, <2>5 DEF QueueInv, OpenInv, InCall, At, NoQueues
  <2>. QED
    BY <2>2, <2>4, <2>5
<1>. QED
  BY <1>1, ControllerQueues, PTL

\* As long as no admin command has timed out, a queue pair that create returned
\* has both its queues on the controller and in the caller's memory, its
\* doorbells registered if a GPU rings them.  And after timeouts, too: the
\* identifiers in use are those of the admin queue and of the pairs there are
\* or that were lost, and no memory and no doorbell is left of a creation that
\* failed before its first command and of a deletion.
THEOREM ControllerQueuePairsUsable == Spec => []QueuePairsUsable
<1>1. ASSUME ControlInv, TakenInv, QueueInv, Idle, ctrl = "open"
      PROVE  /\ doubts = 0 =>
                   \A q \in Qids : qps[q] \in {"host", "gpu"} =>
                       \E f \in IF qps[q] = "host" THEN HostFrames ELSE GpuFrames :
                           /\ owner[f] = <<"queue", q>>
                           /\ rdy => cqs[q] = f /\ sqs[q] = f
                           /\ qps[q] = "gpu" => ItemsOf(q, {"sqdb", "cqdb"}) \subseteq gpu
             /\ qids = {0} \cup {q \in Qids : qps[q] # "none"}
             /\ \A q \in Qids : qps[q] \in {"none", "spent"} =>
                   OwnedBy("queue", q) = {} /\ ItemsOf(q, Items) \cap gpu = {}
  <2>1. Serving /\ \A q \in Qids : ~Creates(q) /\ ~Deletes(q)
    BY <1>1, NoCallFacts DEF Idle, Serving, Creates, Deletes
  <2>2. qids = Taken /\ qps[0] = "none" /\ \A q \in Qids : PairTaken(q)
    BY <1>1, <2>1 DEF TakenInv
  <2>3. ASSUME doubts = 0, NEW q \in Qids, qps[q] \in {"host", "gpu"}
        PROVE  \E f \in IF qps[q] = "host" THEN HostFrames ELSE GpuFrames :
                  /\ owner[f] = <<"queue", q>>
                  /\ rdy => cqs[q] = f /\ sqs[q] = f
                  /\ qps[q] = "gpu" => ItemsOf(q, {"sqdb", "cqdb"}) \subseteq gpu
    <3>1. Present(q) /\ Placed(q, qps[q], Items)
      BY <1>1, <2>1, <2>2, <2>3, ServingGives DEF PairsInv, PairInv, PairTaken
    <3>2. PICK f \in HeapOf(qps[q]) : OwnedBy("queue", q) = {f}
      BY <3>1 DEF Placed, InHeap
    <3>3. owner[f] = <<"queue", q>> /\ cqs[q] = f /\ sqs[q] = f
      BY <3>1, <3>2 DEF Present, Owns, On, OwnedBy
    <3>4. qps[q] = "gpu" => ItemsOf(q, {"sqdb", "cqdb"}) \subseteq gpu
      BY <3>1 DEF Placed, OnGpu, ItemsOf, Items
    <3>. QED
      BY <3>2, <3>3, <3>4 DEF HeapOf
  <2>4. qids = {0} \cup {q \in Qids : qps[q] # "none"}
    BY <2>1, <2>2, QidFacts DEF Taken
  <2>5. ASSUME NEW q \in Qids, qps[q] \in {"none", "spent"}
        PROVE  OwnedBy("queue", q) = {} /\ ItemsOf(q, Items) \cap gpu = {}
    <3>1. OwnedBy("queue", q) = {} /\ OnGpu(q) = {}
      BY <2>1, <2>2, <2>5 DEF PairTaken, Clean
    <3>2. \A i \in Items : <<q, i>> \notin gpu
      BY <3>1 DEF OnGpu
    <3>. QED
      BY <3>1, <3>2 DEF ItemsOf
  <2>. QED
    BY <2>3, <2>4, <2>5
<1>2. ControlInv /\ TakenInv /\ QueueInv => QueuePairsUsable
  BY <1>1 DEF QueuePairsUsable
<1>. QED
  BY <1>2, ControllerQueues, PTL
=============================================================================
