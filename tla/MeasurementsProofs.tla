------------------------- MODULE MeasurementsProofs -------------------------
(***************************************************************************)
(* Proofs, for every length of the tables, the ring buffers and the        *)
(* graphs, every set of CPUs, objects and durations, of what the           *)
(* measurements promise.                                                   *)
(***************************************************************************)
EXTENDS Measurements, FiniteSetTheorems, SequenceTheorems, WellFoundedInduction, TLAPS

-----------------------------------------------------------------------------
(* Sampling: the inductive invariant.                                      *)

HistorySlots == 0 .. HistorySize - 1
CoreRange == 0 .. MaxCores - 1
Counted == Rowed(Cpus) \cup {Machine}
Jiffies == [work : Nat, total : Nat]
Percent == 0 .. 100

SamplingTypes ==
    /\ graph \in {"cpu", "mem"}
    /\ jiffies \in [Counted -> Jiffies]
    /\ rows \in [CoreRange -> Jiffies]
    /\ DOMAIN usage = CoreRange
    /\ cores \in 0 .. MaxCores
    /\ meminfo \in [total : Nat, available : 0 .. MemTotal]
    /\ history \in [HistorySlots -> Nat] /\ history_pos \in HistorySlots
    /\ samples \in Nat

(* What a row holds lies in its CPU's past.                                *)
Behind(row, t) ==
    /\ row.work <= row.total /\ row.work <= t.work
    /\ t.work - row.work <= t.total - row.total
RowsBehind ==
    /\ \A c \in Counted : RowOf(c) \in CoreRange => Behind(rows[RowOf(c)], jiffies[c])
    /\ \A r \in CoreRange : r - 1 \notin Counted => rows[r] = Zero

(* The slot of the sample d places before the next one.                    *)
SlotBack(d) == IF d <= history_pos THEN history_pos - d ELSE history_pos - d + HistorySize
Recorded == \A d \in 1 .. HistorySize : history[SlotBack(d)] = Sample(samples - (d - 1))

SamplingInv == SamplingTypes /\ RowsBehind /\ Recorded /\ UsageInRange

-----------------------------------------------------------------------------
(* Sampling: arithmetic.                                                   *)

(* A position taken modulo the length of the buffer, without the modulus.  *)
LEMMA Wraps ==
    \A x \in 0 .. 2 * HistorySize - 1 :
        x % HistorySize = IF x < HistorySize THEN x ELSE x - HistorySize
<1>1. HistorySize \in Nat \ {0}
  BY SamplingAssumption
<1> QED  BY <1>1

(* A part of a whole is a percentage.                                      *)
LEMMA PartOfWhole ==
    ASSUME NEW some \in Nat, NEW whole \in Nat \ {0}, some <= whole
    PROVE  (100 * some) \div whole \in Percent
  BY SMTT(30) DEF Percent

(* A bounded set of numbers has a greatest and a least element.            *)
LEMMA LeastOf ==
    ASSUME NEW S \in SUBSET Nat, S # {}
    PROVE  \E n \in S : \A m \in S : n <= m
<1> DEFINE R == {ss \in Nat \X Nat : ss[1] < ss[2]}
<1>1. IsWellFoundedOn(R, Nat)
  BY NatLessThanWellFounded, Zenon DEF OpToRel
<1> HIDE DEF R
<1>2. PICK n \in S : \A m \in S : ~(<<m, n>> \in R)
  BY <1>1, WFMin, Zenon
<1>3. \A m \in S : ~(m < n)
  BY <1>2 DEF R
<1> QED  BY <1>3

LEMMA GreatestBelow ==
    ASSUME NEW n \in Nat, NEW S \in SUBSET (0 .. n), S # {}
    PROVE  \E k \in S : \A m \in S : m <= k
<1> DEFINE T == {n - m : m \in S}
<1>1. T \in SUBSET Nat /\ T # {}
  <2>1. \A m \in S : n - m \in Nat
    OBVIOUS
  <2> QED  BY <2>1
<1>2. PICK k \in T : \A m \in T : k <= m
  <2> HIDE DEF T
  <2> QED  BY <1>1, LeastOf
<1>3. PICK l \in S : k = n - l
  BY <1>2
<1>4. \A m \in S : n - l <= n - m
  BY <1>2, <1>3
<1> QED  BY <1>3, <1>4

-----------------------------------------------------------------------------
(* Sampling: the steps.                                                    *)

LEMMA RingAfter ==
    ASSUME SamplingTypes, Recorded, update_history
    PROVE  /\ history' \in [HistorySlots -> Nat] /\ history_pos' \in HistorySlots
           /\ samples' \in Nat
           /\ Recorded'
<1>1. /\ HistorySize \in Nat \ {0} /\ history_pos \in 0 .. HistorySize - 1 /\ samples \in Nat
      /\ history \in [HistorySlots -> Nat]
  BY SamplingAssumption DEF SamplingTypes, HistorySlots
<1>2. history_pos' = IF history_pos + 1 = HistorySize THEN 0 ELSE history_pos + 1
  <2>1. (history_pos + 1) % HistorySize
          = IF history_pos + 1 < HistorySize THEN history_pos + 1
            ELSE history_pos + 1 - HistorySize
    <3>1. history_pos + 1 \in 0 .. 2 * HistorySize - 1
      BY <1>1
    <3> QED  BY <1>1, <3>1, Wraps
  <2>2. history_pos' = (history_pos + 1) % HistorySize
    BY DEF update_history, NextPos
  <2> QED  BY <1>1, <2>1, <2>2
<1>3. /\ samples' = samples + 1
      /\ history' = [history EXCEPT ![history_pos] = samples + 1]
  BY DEF update_history
<1>4. \A d \in 1 .. HistorySize : history'[SlotBack(d)'] = Sample(samples' - (d - 1))
  <2> TAKE d \in 1 .. HistorySize
  <2>1. CASE d = 1
    <3>1. SlotBack(d)' = history_pos
      BY <1>1, <1>2, <2>1 DEF SlotBack
    <3> QED  BY <1>1, <1>3, <2>1, <3>1 DEF Sample, HistorySlots
  <2>2. CASE d # 1
    <3>1. d - 1 \in 1 .. HistorySize
      BY <1>1, <2>2
    <3>2. SlotBack(d)' = SlotBack(d - 1)
      BY <1>1, <1>2, <2>2 DEF SlotBack
    <3>3. SlotBack(d - 1) # history_pos /\ SlotBack(d - 1) \in HistorySlots
      BY <1>1, <3>1 DEF SlotBack, HistorySlots
    <3>4. history[SlotBack(d - 1)] = Sample(samples - (d - 2))
      BY <3>1 DEF Recorded
    <3>5. samples - (d - 2) = samples' - (d - 1)
      BY <1>1, <1>3
    <3> QED  BY <1>1, <1>3, <3>2, <3>3, <3>4, <3>5
  <2> QED  BY <2>1, <2>2
<1> QED  BY <1>1, <1>2, <1>3, <1>4 DEF Recorded, HistorySlots

LEMMA ShareInRange ==
    ASSUME NEW row \in Jiffies, NEW t \in Jiffies, Behind(row, t)
    PROVE  Share(row, t) \in Percent
<1>1. CASE t.total > row.total
  <2>1. /\ t.work - row.work \in Nat /\ t.total - row.total \in Nat \ {0}
        /\ t.work - row.work <= t.total - row.total
    BY <1>1 DEF Behind, Jiffies
  <2> QED  BY <1>1, <2>1, PartOfWhole DEF Share
<1>2. CASE ~(t.total > row.total)
  BY <1>2 DEF Share, Percent
<1> QED  BY <1>1, <1>2

LEMMA SamplingInitInv == SamplingInit => SamplingInv
<1> SUFFICES ASSUME SamplingInit PROVE SamplingInv
  OBVIOUS
<1>1. HistorySize \in Nat \ {0} /\ MaxCores \in Nat \ {0} /\ MemTotal \in Nat
  BY SamplingAssumption
<1>2. SamplingTypes
  BY <1>1 DEF SamplingInit, SamplingTypes, Counted, CoreRange, HistorySlots, Jiffies, Zero
<1>3. RowsBehind
  BY <1>1 DEF SamplingInit, RowsBehind, Behind, Counted, CoreRange, Zero
<1>4. Recorded
  <2> SUFFICES ASSUME NEW d \in 1 .. HistorySize
               PROVE  history[SlotBack(d)] = Sample(samples - (d - 1))
    BY DEF Recorded
  <2>1. SlotBack(d) \in HistorySlots
    BY <1>1 DEF SlotBack, HistorySlots, SamplingInit
  <2> QED  BY <1>1, <2>1 DEF SamplingInit, Sample, HistorySlots
<1>5. UsageInRange
  BY <1>1 DEF SamplingInit, UsageInRange
<1> QED  BY <1>2, <1>3, <1>4, <1>5 DEF SamplingInv

LEMMA ElapseInv ==
    ASSUME SamplingInv, NEW c \in Counted, NEW work \in {0, 1}, Elapse(c, work)
    PROVE  SamplingInv'
<1> SamplingTypes /\ RowsBehind /\ Recorded /\ UsageInRange
  BY DEF SamplingInv
<1>1. /\ jiffies \in [Counted -> Jiffies] /\ jiffies[c] \in Jiffies
      /\ rows \in [CoreRange -> Jiffies]
  BY DEF SamplingTypes
<1>2. jiffies' = [jiffies EXCEPT ![c] = [work |-> jiffies[c].work + work,
                                         total |-> jiffies[c].total + 1]]
  BY DEF Elapse
<1>3. UNCHANGED <<graph, rows, total_usage, usage, cores, meminfo, usage_percent,
                  history, history_pos, samples, overrun, online>>
  BY DEF Elapse
<1>4. SamplingTypes'
  BY <1>1, <1>2, <1>3 DEF SamplingTypes, Jiffies
<1>5. \A d \in Counted : /\ jiffies'[d].work \in {jiffies[d].work, jiffies[d].work + work}
                         /\ d = c => /\ jiffies'[d].work = jiffies[d].work + work
                                     /\ jiffies'[d].total = jiffies[d].total + 1
                         /\ d # c => jiffies'[d] = jiffies[d]
  BY <1>1, <1>2
<1>6. RowsBehind'
  <2>1. ASSUME NEW d \in Counted, RowOf(d) \in CoreRange
        PROVE  Behind(rows[RowOf(d)], jiffies'[d])
    <3>1. Behind(rows[RowOf(d)], jiffies[d]) /\ rows[RowOf(d)] \in Jiffies /\ jiffies[d] \in Jiffies
      BY <1>1, <2>1 DEF RowsBehind
    <3> QED  BY <1>5, <3>1 DEF Behind, Jiffies
  <2> QED  BY <1>3, <2>1 DEF RowsBehind
<1> QED  BY <1>3, <1>4, <1>6 DEF SamplingInv, Recorded, SlotBack, UsageInRange

LEMMA GetCpuInfoInv ==
    ASSUME SamplingInv, NEW on \in SUBSET Cpus, NEW garbage \in Garbage,
           get_cpu_info(on, garbage)
    PROVE  SamplingInv'
<1> SamplingTypes /\ RowsBehind /\ Recorded /\ UsageInRange
  BY DEF SamplingInv
<1>1. /\ jiffies \in [Counted -> Jiffies] /\ rows \in [CoreRange -> Jiffies]
      /\ DOMAIN usage = CoreRange
  BY DEF SamplingTypes
<1>2. MaxCores \in Nat \ {0} /\ Cpus \subseteq Nat
  BY SamplingAssumption
<1>3. Rowed(on) \subseteq Rowed(Cpus) /\ Rowed(on) \subseteq CoreRange /\ Machine \in Counted
  <2>1. \A c \in Rowed(on) : c \in Cpus /\ c \in Nat /\ c < MaxCores
    BY <1>2 DEF Rowed
  <2>2. \A c \in Rowed(on) : c \in Rowed(Cpus) /\ c \in CoreRange
    BY <1>2, <2>1 DEF Rowed, CoreRange
  <2> QED  BY <2>2 DEF Counted
<1>4. UNCHANGED <<graph, jiffies, meminfo, usage_percent>> /\ update_history
  BY DEF get_cpu_info
<1>5. \A r \in CoreRange :
        /\ rows'[r] \in Jiffies
        /\ \A c \in Counted : RowOf(c) = r => rows'[r] \in {rows[r], jiffies[c]}
        /\ r - 1 \notin Counted => rows'[r] = rows[r]
  <2> SUFFICES ASSUME NEW r \in CoreRange
               PROVE  /\ rows'[r] \in Jiffies
                      /\ \A c \in Counted : RowOf(c) = r => rows'[r] \in {rows[r], jiffies[c]}
                      /\ r - 1 \notin Counted => rows'[r] = rows[r]
    OBVIOUS
  <2>1. rows'[r] = IF \E c \in Rowed(on) : RowOf(c) = r
                   THEN jiffies[CHOOSE c \in Rowed(on) : RowOf(c) = r]
                   ELSE IF r = 0 THEN jiffies[Machine] ELSE rows[r]
    BY <1>1 DEF get_cpu_info
  <2>2. r \in Int /\ Rowed(on) \subseteq Int /\ Counted \subseteq Int
    <3>1. \A c \in Cpus : c \in Int
      BY <1>2
    <3>2. \A c \in Rowed(Cpus) : c \in Int
      BY <3>1 DEF Rowed
    <3>3. Machine \in Int
      BY DEF Machine
    <3>4. \A c \in Counted : c \in Int
      BY <3>2, <3>3 DEF Counted
    <3> QED  BY <1>3, <3>2, <3>4 DEF CoreRange
  <2>3. CASE \E c \in Rowed(on) : RowOf(c) = r
    <3> DEFINE c == CHOOSE d \in Rowed(on) : RowOf(d) = r
    <3>1. c \in Rowed(on) /\ RowOf(c) = r
      BY <2>3
    <3>2. c \in Counted /\ rows'[r] = jiffies[c]
      BY <1>3, <2>1, <2>3, <3>1 DEF Counted
    <3> HIDE DEF c
    <3>3. \A d \in Counted : RowOf(d) = r => d = c
      <4>1. c \in Int /\ c + 1 = r
        BY <2>2, <3>1 DEF RowOf
      <4> QED  BY <2>2, <4>1 DEF RowOf
    <3>4. r - 1 \in Counted
      BY <2>2, <3>1, <3>2 DEF RowOf
    <3> QED  BY <1>1, <3>2, <3>3, <3>4
  <2>4. CASE r = 0 /\ ~\E c \in Rowed(on) : RowOf(c) = r
    <3>1. \A d \in Counted : RowOf(d) = r => d = Machine
      BY <2>2, <2>4 DEF RowOf, Machine
    <3>2. r - 1 = Machine
      BY <2>4 DEF Machine
    <3> QED  BY <1>1, <1>3, <2>1, <2>4, <3>1, <3>2
  <2>5. CASE r # 0 /\ ~\E c \in Rowed(on) : RowOf(c) = r
    BY <1>1, <2>1, <2>5
  <2> QED  BY <2>3, <2>4, <2>5
<1>6. rows' \in [CoreRange -> Jiffies]
  <2>1. DOMAIN rows' = CoreRange /\ rows' = [r \in CoreRange |-> rows'[r]]
    BY <1>1 DEF get_cpu_info
  <2> QED  BY <1>5, <2>1
<1>7. cores' \in 0 .. MaxCores
  <2>1. CASE Rowed(on) = {}
    BY <1>2, <2>1 DEF get_cpu_info
  <2>2. CASE Rowed(on) # {}
    <3>1. \A c \in Rowed(on) : c + 1 \in 0 .. MaxCores
      BY <1>2, <1>3 DEF CoreRange
    <3>2. \E c \in Rowed(on) : \A d \in Rowed(on) : d <= c
      <4>1. MaxCores - 1 \in Nat /\ Rowed(on) \in SUBSET (0 .. MaxCores - 1)
        BY <1>2, <1>3 DEF CoreRange
      <4> QED  BY <2>2, <4>1, GreatestBelow
    <3> QED  BY <2>2, <3>1, <3>2 DEF get_cpu_info
  <2> QED  BY <2>1, <2>2
<1>8. SamplingTypes'
  <2>1. DOMAIN usage' = CoreRange
    BY <1>1 DEF get_cpu_info
  <2> QED  BY <1>4, <1>6, <1>7, <2>1, RingAfter DEF SamplingTypes
<1>9. RowsBehind'
  <2>1. ASSUME NEW c \in Counted, RowOf(c) \in CoreRange
        PROVE  Behind(rows'[RowOf(c)], jiffies[c])
    <3>1. Behind(rows[RowOf(c)], jiffies[c]) /\ jiffies[c] \in Jiffies
      BY <1>1, <2>1 DEF RowsBehind
    <3>2. jiffies[c].work <= jiffies[c].total
      BY <1>1, <2>1, <3>1 DEF Behind, Jiffies
    <3>3. Behind(jiffies[c], jiffies[c])
      BY <3>1, <3>2 DEF Behind, Jiffies
    <3> QED  BY <1>5, <2>1, <3>1, <3>3
  <2>2. \A r \in CoreRange : r - 1 \notin Counted => rows'[r] = Zero
    BY <1>5 DEF RowsBehind
  <2> QED  BY <1>4, <2>1, <2>2 DEF RowsBehind
<1>10. UsageInRange'
  <2>1. total_usage' \in Percent
    <3>1. RowOf(Machine) = 0 /\ 0 \in CoreRange
      BY <1>2 DEF RowOf, Machine, CoreRange
    <3>2. Behind(rows[0], jiffies[Machine]) /\ rows[0] \in Jiffies /\ jiffies[Machine] \in Jiffies
      BY <1>1, <1>3, <3>1 DEF RowsBehind
    <3>3. Share(rows[0], jiffies[Machine]) \in Percent
      BY <3>2, ShareInRange
    <3> QED  BY <3>3 DEF get_cpu_info, Percent
  <2>2. ASSUME MaxCores - 1 \notin online'
        PROVE  ~overrun' /\ \A c \in DOMAIN usage' : usage'[c] \in Percent
    <3>1. MaxCores - 1 \notin online /\ MaxCores - 1 \notin on
      BY <2>2 DEF get_cpu_info
    <3>2. \A c \in Rowed(on) : RowOf(c) \in CoreRange
      BY <1>2, <1>3, <3>1 DEF RowOf, CoreRange, Rowed
    <3>3. ~overrun'
      BY <1>1, <3>1, <3>2 DEF get_cpu_info, UsageInRange
    <3>4. \A c \in CoreRange : usage[c] \in Percent
      BY <1>1, <3>1 DEF UsageInRange, Percent
    <3>5. ASSUME NEW c \in CoreRange PROVE usage'[c] \in Percent
      <4>1. CASE c \notin on
        BY <1>1, <3>4, <4>1 DEF get_cpu_info
      <4>2. CASE c \in on
        <5>1. c \in Rowed(on)
          BY <1>2, <4>2 DEF Rowed, CoreRange
        <5>2. RowOf(c) \in CoreRange /\ c \in Counted
          BY <1>3, <3>2, <5>1 DEF Counted
        <5>3. /\ Behind(rows[RowOf(c)], jiffies[c])
              /\ rows[RowOf(c)] \in Jiffies /\ jiffies[c] \in Jiffies
          BY <1>1, <5>2 DEF RowsBehind
        <5>4. Share(rows[RowOf(c)], jiffies[c]) \in Percent
          BY <5>3, ShareInRange
        <5>5. usage'[c] \in {Share(rows[RowOf(c)], jiffies[c]), usage[c]}
          BY <1>1, <4>2, <5>2 DEF get_cpu_info
        <5> QED  BY <3>4, <5>4, <5>5
      <4> QED  BY <4>1, <4>2
    <3>6. DOMAIN usage' = CoreRange
      BY <1>1 DEF get_cpu_info
    <3> QED  BY <3>3, <3>5, <3>6
  <2> QED  BY <1>4, <2>1, <2>2 DEF UsageInRange, Percent
<1> QED  BY <1>4, <1>8, <1>9, <1>10, RingAfter DEF SamplingInv

LEMMA GetMemInfoInv ==
    ASSUME SamplingInv, NEW available \in -1 .. MemTotal, get_mem_info(MemTotal, available)
    PROVE  SamplingInv'
<1> SamplingTypes /\ RowsBehind /\ Recorded /\ UsageInRange
  BY DEF SamplingInv
<1>1. MemTotal \in Nat \ {0}
  BY SamplingAssumption
<1>2. /\ update_history
      /\ UNCHANGED <<graph, jiffies, rows, total_usage, usage, cores, overrun, online>>
  BY DEF get_mem_info
<1>3. meminfo.available \in 0 .. MemTotal
  BY DEF SamplingTypes
<1>4. /\ meminfo' = [total |-> MemTotal, available |-> meminfo'.available]
      /\ meminfo'.available \in 0 .. MemTotal
  BY <1>1, <1>3 DEF get_mem_info
<1>5. usage_percent' \in Percent
  <2>1. MemTotal - meminfo'.available \in Nat /\ MemTotal - meminfo'.available <= MemTotal
    BY <1>1, <1>4
  <2>2. (100 * (MemTotal - meminfo'.available)) \div MemTotal \in Percent
    BY <1>1, <2>1, PartOfWhole
  <2> QED  BY <1>1, <2>2 DEF get_mem_info
<1>6. meminfo' \in [total : Nat, available : 0 .. MemTotal]
  BY <1>1, <1>4
<1>7. SamplingTypes'
  BY <1>2, <1>6, RingAfter DEF SamplingTypes
<1>8. RowsBehind' /\ UsageInRange'
  <2>1. online' = online
    BY DEF get_mem_info
  <2> QED  BY <1>2, <1>5, <2>1 DEF RowsBehind, UsageInRange, Percent
<1> QED  BY <1>2, <1>7, <1>8, RingAfter DEF SamplingInv

LEMMA SamplingStepInv == SamplingInv /\ [SamplingNext]_sampling_vars => SamplingInv'
<1> SUFFICES ASSUME SamplingInv, [SamplingNext]_sampling_vars PROVE SamplingInv'
  OBVIOUS
<1>1. CASE UNCHANGED sampling_vars
  BY <1>1 DEF sampling_vars, SamplingInv, SamplingTypes, RowsBehind, Recorded, SlotBack,
              UsageInRange
<1>2. CASE \E c \in Rowed(Cpus) \cup {Machine}, work \in {0, 1} : Elapse(c, work)
  BY <1>2, ElapseInv DEF Counted
<1>3. CASE \E on \in SUBSET Cpus, garbage \in Garbage : get_cpu_info(on, garbage)
  BY <1>3, GetCpuInfoInv
<1>4. CASE \E available \in -1 .. MemTotal : get_mem_info(MemTotal, available)
  BY <1>4, GetMemInfoInv
<1> QED  BY <1>1, <1>2, <1>3, <1>4 DEF SamplingNext

(* Column j of a graph is the slot of the sample GraphWidth - j back.      *)
LEMMA Column ==
    ASSUME SamplingTypes, Recorded, NEW j \in 0 .. GraphWidth - 1
    PROVE  history[(FirstColumn + j) % HistorySize] = Sample(samples - (GraphWidth - 1 - j))
<1>1. /\ HistorySize \in Nat \ {0} /\ GraphWidth \in 2 .. HistorySize
      /\ history_pos \in 0 .. HistorySize - 1
  BY SamplingAssumption DEF SamplingTypes, HistorySlots
<1> DEFINE first == IF history_pos < GraphWidth THEN history_pos - GraphWidth + HistorySize
                    ELSE history_pos - GraphWidth
<1>2. FirstColumn = first
  <2>1. history_pos - GraphWidth + HistorySize \in 0 .. 2 * HistorySize - 1
    BY <1>1
  <2> QED  BY <1>1, <2>1, Wraps DEF FirstColumn
<1>3. (FirstColumn + j) % HistorySize = SlotBack(GraphWidth - j)
  <2>1. first + j \in 0 .. 2 * HistorySize - 1
    BY <1>1
  <2>2. (first + j) % HistorySize
          = IF first + j < HistorySize THEN first + j ELSE first + j - HistorySize
    <3>1. first \in Nat
      BY <1>1
    <3> HIDE DEF first
    <3> QED  BY <1>1, <2>1, <3>1, Wraps
  <2> QED  BY <1>1, <1>2, <2>2 DEF SlotBack
<1>4. GraphWidth - j \in 1 .. HistorySize /\ (GraphWidth - j) - 1 = GraphWidth - 1 - j
  BY <1>1
<1> QED  BY <1>3, <1>4 DEF Recorded

LEMMA ColumnsInOrder == SamplingInv => GraphsInOrder
<1> SUFFICES ASSUME SamplingInv PROVE GraphsInOrder
  OBVIOUS
<1>1. SamplingTypes /\ Recorded
  BY DEF SamplingInv
<1>2. GraphWidth \in Nat
  BY SamplingAssumption
<1>3. \A j \in 0 .. GraphWidth - 1 :
        history[(FirstColumn + j) % HistorySize] = Sample(samples - (GraphWidth - 1 - j))
  BY <1>1, Column
<1>4. \A j \in 0 .. GraphWidth - 3 : j \in 0 .. GraphWidth - 1
  BY <1>2
<1> QED  BY <1>3, <1>4 DEF GraphsInOrder, draw_cpu_graph, draw_mem_graph

LEMMA SamplingTyped == SamplingInv => SamplingTypeOK
<1> SUFFICES ASSUME SamplingInv PROVE SamplingTypeOK
  OBVIOUS
<1>1. SamplingTypes /\ RowsBehind
  BY DEF SamplingInv
<1>2. DOMAIN rows = CoreRange
  BY <1>1 DEF SamplingTypes
<1>3. \A r \in CoreRange : rows[r].work <= rows[r].total
  <2> TAKE r \in CoreRange
  <2>1. CASE r - 1 \notin Counted
    BY <1>1, <2>1 DEF RowsBehind, Zero
  <2>2. CASE r - 1 \in Counted
    <3>1. RowOf(r - 1) = r
      BY DEF RowOf, CoreRange
    <3> QED  BY <1>1, <2>2, <3>1 DEF RowsBehind, Behind
  <2> QED  BY <2>1, <2>2
<1> QED  BY <1>1, <1>2, <1>3 DEF SamplingTypeOK, SamplingTypes, HistorySlots

-----------------------------------------------------------------------------
(* Rates: the inductive invariant.                                         *)

Counts == 0 .. MaxCount
Samples == [value : Counts, time : 0 .. MaxTime]

RatesTypes ==
    /\ sampler \in {"processes", "disks", "interfaces", "faults"}
    /\ RatesTypeOK
    /\ list \in Seq(Objects)
    /\ listed \in Seq(Objects) /\ Len(listed) = count
    /\ before \in Seq(Objects)
    /\ was \in [Objects -> Samples]

Distinct(s) == \A i, j \in 1 .. Len(s) : s[i] = s[j] => i = j
Among(o, s) == \E i \in 1 .. Len(s) : s[i] = o

(* An object is met once in a scan.                                        *)
Once ==
    /\ Distinct(list) /\ Distinct(listed) /\ Distinct(before)
    /\ \A i \in 1 .. Len(list) : ~Among(list[i], listed)

(* The counter kept at a position is that of the object listed there in    *)
(* this scan, or else of the one of the last scan if it was not met since. *)
Kept ==
    /\ \A i \in 1 .. Len(listed) : prev[i - 1] = was[listed[i]].value
    /\ scanning =>
         \A i \in 1 .. Len(before) :
            count < i /\ i <= Slots /\ ~Among(before[i], listed)
               => prev[i - 1] = was[before[i]].value

(* Counters grow, and what a scan has read in advance is newer than what   *)
(* was kept.                                                               *)
Growing ==
    /\ \A o \in Objects : was[o].value <= counter[o] /\ snapshot[o] <= counter[o]
    /\ scanning /\ sampler # "processes" =>
         \A i \in 1 .. Len(list) : was[list[i]].value <= snapshot[list[i]]

(* The one time of a device scan is that of the object sampled last.       *)
Timed ==
    /\ \A o \in Objects : was[o].time <= now
    /\ sampler # "processes" =>
         /\ \A o \in Objects : was[o].time <= prev_time
         /\ Len(listed) = 1 => prev_time = was[listed[1]].time
         /\ scanning /\ count = 0 /\ Len(before) = 1 => prev_time = was[before[1]].time

RatesInv == RatesTypes /\ Once /\ Kept /\ Growing /\ Timed /\ OwnRate

-----------------------------------------------------------------------------
(* Rates: the steps.                                                       *)

LEMMA NoWrap == \A x \in 0 .. MaxCount : x % Width = x
<1>1. Width \in Nat \ {0} /\ MaxCount \in Nat /\ MaxCount < Width
  BY RatesAssumption
<1> QED  BY <1>1

(* A listing names objects, each once.                                     *)
LEMMA ListingDistinct ==
    ASSUME NEW s \in Listings
    PROVE  s \in Seq(Objects) /\ Distinct(s)
<1>1. PICK S \in SUBSET Objects : s \in SetToSeqs(S)
  BY DEF Listings, SetToAllKPermutations
<1>2. IsFiniteSet(S)
  BY RatesAssumption, FS_Subset
<1>3. Cardinality(S) \in Nat
  BY <1>2, FS_CardinalityType
<1>4. /\ s \in [1 .. Cardinality(S) -> S]
      /\ \A i, j \in 1 .. Cardinality(S) : i # j => s[i] # s[j]
  BY <1>1 DEF SetToSeqs
<1>5. s \in Seq(S) /\ Len(s) = Cardinality(S)
  BY <1>3, <1>4
<1> QED  BY <1>4, <1>5 DEF Distinct

LEMMA RatesInitInv == RatesInit => RatesInv
<1> SUFFICES ASSUME RatesInit PROVE RatesInv
  OBVIOUS
<1>1. /\ Slots \in Nat \ {0} /\ MaxCount \in Nat /\ MaxTime \in Nat \ {0}
  BY RatesAssumption
<1>2. /\ listed = <<>> /\ before = <<>> /\ list = <<>> /\ count = 0 /\ scanning = FALSE
      /\ counter = [o \in Objects |-> 0] /\ snapshot = counter
      /\ was = [o \in Objects |-> [value |-> 0, time |-> 0]]
      /\ now = 1 /\ prev_time = 0 /\ shown = NoRate
  BY DEF RatesInit
<1>3. RatesTypes
  BY <1>1, <1>2 DEF RatesInit, RatesTypes, RatesTypeOK, Counts, Samples
<1>4. Once /\ Kept
  BY <1>2 DEF Once, Distinct, Among, Kept
<1>5. Growing /\ Timed
  BY <1>2 DEF Growing, Timed
<1>6. OwnRate
  BY <1>2 DEF OwnRate, OwnGrowth, NotUnderstated, Measured
<1> QED  BY <1>3, <1>4, <1>5, <1>6 DEF RatesInv

LEMMA TickInv == RatesInv /\ Tick => RatesInv'
<1> SUFFICES ASSUME RatesInv, Tick PROVE RatesInv'
  OBVIOUS
<1> RatesTypes /\ Once /\ Kept /\ Growing /\ Timed /\ OwnRate
  BY DEF RatesInv
<1>1. /\ now < MaxTime /\ now' = now + 1
      /\ UNCHANGED <<sampler, counter, list, scanning, snapshot, total, prev,
                     prev_time, count, shown, was, listed, before>>
  BY DEF Tick
<1>2. now \in 1 .. MaxTime /\ MaxTime \in Nat
  BY RatesAssumption DEF RatesTypes, RatesTypeOK
<1>3. RatesTypes'
  BY <1>1, <1>2 DEF RatesTypes, RatesTypeOK
<1>4. Timed'
  <2>1. \A o \in Objects : was[o].time \in Int
    BY DEF RatesTypes, Samples
  <2>2. \A o \in Objects : was[o].time <= now + 1
    BY <1>2, <2>1 DEF Timed
  <2> QED  BY <1>1, <2>2 DEF Timed
<1> QED  BY <1>1, <1>3, <1>4 DEF RatesInv, Once, Among, Kept, Growing, OwnRate, OwnGrowth,
                                 NotUnderstated, Measured, SameSlot, Distinct

LEMMA WorkInv == ASSUME RatesInv, NEW o \in Objects, Work(o) PROVE RatesInv'
<1> RatesTypes /\ Once /\ Kept /\ Growing /\ Timed /\ OwnRate
  BY DEF RatesInv
<1>1. /\ counter[o] < MaxCount /\ counter' = [counter EXCEPT ![o] = counter[o] + 1]
      /\ UNCHANGED <<sampler, now, list, scanning, snapshot, total, prev,
                     prev_time, count, shown, was, listed, before>>
  BY DEF Work
<1>2. counter \in [Objects -> Counts] /\ MaxCount \in Nat
  BY RatesAssumption DEF RatesTypes, RatesTypeOK, Counts
<1>3. counter' \in [Objects -> Counts]
  BY <1>1, <1>2 DEF Counts
<1>4. RatesTypes'
  BY <1>1, <1>3 DEF RatesTypes, RatesTypeOK, Counts
<1>5. \A p \in Objects : counter[p] <= counter'[p] /\ counter[p] \in Int /\ counter'[p] \in Int
  BY <1>1, <1>2, <1>3 DEF Counts
<1>6. \A p \in Objects : was[p].value \in Int /\ snapshot[p] \in Int
  BY DEF RatesTypes, RatesTypeOK, Samples, Counts
<1>7. Growing'
  <2>1. \A p \in Objects : was[p].value <= counter'[p] /\ snapshot[p] <= counter'[p]
    BY <1>5, <1>6 DEF Growing
  <2> QED  BY <1>1, <2>1 DEF Growing
<1> QED  BY <1>1, <1>4, <1>7 DEF RatesInv, Once, Among, Kept, Timed, OwnRate, OwnGrowth,
                                 NotUnderstated, Measured, SameSlot, Distinct

LEMMA BeginScanInv ==
    ASSUME RatesInv, NEW s \in Listings, NEW ticks \in 0 .. MaxTime, BeginScan(s, ticks)
    PROVE  RatesInv'
<1> RatesTypes /\ Once /\ Kept /\ Growing /\ Timed /\ OwnRate
  BY DEF RatesInv
<1>1. s \in Seq(Objects) /\ Distinct(s)
  BY ListingDistinct
<1>2. /\ ~scanning /\ scanning' = TRUE /\ list' = s /\ total' = ticks
      /\ count' = 0 /\ listed' = <<>> /\ before' = listed /\ shown' = NoRate
      /\ UNCHANGED <<sampler, now, counter, prev, prev_time, was>>
  BY DEF BeginScan
<1>3. snapshot' = IF sampler = "processes" THEN snapshot ELSE counter
  BY DEF BeginScan
<1>4. Slots \in Nat
  BY RatesAssumption
<1>5. RatesTypes'
  BY <1>1, <1>2, <1>3, <1>4 DEF RatesTypes, RatesTypeOK
<1>6. Len(listed) \in Nat /\ Len(listed) = count
  BY DEF RatesTypes
<1>7. Once'
  <2>1. Distinct(listed)
    BY DEF Once
  <2> QED  BY <1>1, <1>2, <2>1 DEF Once, Among, Distinct
<1>8. Kept'
  BY <1>2, <1>6 DEF Kept
<1>9. Growing'
  <2>1. s \in Seq(Objects) /\ \A i \in 1 .. Len(s) : s[i] \in Objects
    BY <1>1
  <2>2. \A o \in Objects : counter[o] \in Int
    BY DEF RatesTypes, RatesTypeOK
  <2> QED  BY <1>2, <1>3, <2>1, <2>2 DEF Growing
<1>10. Timed'
  BY <1>2, <1>6 DEF Timed
<1>11. OwnRate'
  BY <1>2 DEF OwnRate, OwnGrowth, NotUnderstated, Measured
<1> QED  BY <1>5, <1>7, <1>8, <1>9, <1>10, <1>11 DEF RatesInv

LEMMA OpendirFailsInv ==
    ASSUME RatesInv, NEW ticks \in 0 .. MaxTime, OpendirFails(ticks) PROVE RatesInv'
<1> RatesTypes /\ Once /\ Kept /\ Growing /\ Timed /\ OwnRate
  BY DEF RatesInv
<1>1. /\ total' = ticks
      /\ UNCHANGED <<sampler, now, counter, list, scanning, snapshot, prev,
                     prev_time, count, shown, was, listed, before>>
  BY DEF OpendirFails
<1>2. RatesTypes'
  BY <1>1 DEF RatesTypes, RatesTypeOK
<1>3. Once' /\ Kept' /\ Growing' /\ Timed'
  BY <1>1 DEF Once, Distinct, Among, Kept, Growing, Timed
<1>4. OwnRate'
  BY <1>1 DEF OwnRate, OwnGrowth, NotUnderstated, Measured, SameSlot
<1> QED  BY <1>2, <1>3, <1>4 DEF RatesInv

LEMMA EndScanInv == RatesInv /\ EndScan => RatesInv'
<1> SUFFICES ASSUME RatesInv, EndScan PROVE RatesInv'
  OBVIOUS
<1> RatesTypes /\ Once /\ Kept /\ Growing /\ Timed /\ OwnRate
  BY DEF RatesInv
<1>1. /\ scanning /\ scanning' = FALSE /\ list' = <<>> /\ shown' = NoRate
      /\ prev_time' = IF sampler = "processes" THEN total ELSE prev_time
      /\ UNCHANGED <<sampler, now, counter, snapshot, total, prev, count, was, listed, before>>
  BY DEF EndScan
<1>2. RatesTypes'
  BY <1>1 DEF RatesTypes, RatesTypeOK
<1>3. Once' /\ Kept' /\ Growing' /\ Timed'
  BY <1>1 DEF Once, Distinct, Among, Kept, Growing, Timed
<1>4. OwnRate'
  BY <1>1 DEF OwnRate, OwnGrowth, NotUnderstated, Measured
<1> QED  BY <1>2, <1>3, <1>4 DEF RatesInv

LEMMA ListTail ==
    ASSUME RatesTypes, Once, list # <<>>
    PROVE  /\ Head(list) \in Objects /\ Tail(list) \in Seq(Objects) /\ Distinct(Tail(list))
           /\ ~Among(Head(list), listed)
           /\ \A i \in 1 .. Len(Tail(list)) :
                 /\ Tail(list)[i] # Head(list)
                 /\ ~Among(Tail(list)[i], listed)
                 /\ \E h \in 1 .. Len(list) : Tail(list)[i] = list[h]
<1>1. list \in Seq(Objects) /\ Len(list) \in Nat \ {0}
  BY DEF RatesTypes
<1>2. /\ Head(list) = list[1] /\ Head(list) \in Objects /\ 1 \in 1 .. Len(list)
      /\ Tail(list) \in Seq(Objects) /\ Len(Tail(list)) = Len(list) - 1
      /\ \A i \in 1 .. Len(list) - 1 : Tail(list)[i] = list[i + 1]
  BY <1>1
<1>3. \A i \in 1 .. Len(list) - 1 : i + 1 \in 1 .. Len(list) /\ i + 1 # 1
  BY <1>1
<1>4. Distinct(Tail(list))
  <2> SUFFICES ASSUME NEW i \in 1 .. Len(list) - 1, NEW j \in 1 .. Len(list) - 1,
                      Tail(list)[i] = Tail(list)[j]
               PROVE  i = j
    BY <1>2 DEF Distinct
  <2>1. i + 1 = j + 1
    BY <1>2, <1>3 DEF Once, Distinct
  <2> QED  BY <2>1
<1> QED  BY <1>2, <1>3, <1>4 DEF Once, Distinct

LEMMA SkipDeviceInv == RatesInv /\ list # <<>> /\ SkipDevice => RatesInv'
<1> SUFFICES ASSUME RatesInv, list # <<>>, SkipDevice PROVE RatesInv'
  OBVIOUS
<1> RatesTypes /\ Once /\ Kept /\ Growing /\ Timed /\ OwnRate
  BY DEF RatesInv
<1>1. /\ list' = Tail(list)
      /\ UNCHANGED <<sampler, now, counter, scanning, snapshot, total, prev,
                     prev_time, count, shown, was, listed, before>>
  BY DEF SkipDevice
<1>2. RatesTypes'
  BY <1>1, ListTail DEF RatesTypes, RatesTypeOK
<1>3. Once'
  <2>1. Distinct(list')
    BY <1>1, ListTail
  <2>2. \A i \in 1 .. Len(list') : ~Among(list'[i], listed)
    BY <1>1, ListTail
  <2> QED  BY <1>1, <2>1, <2>2 DEF Once, Distinct, Among
<1>4. Growing'
  <2>1. \A i \in 1 .. Len(list') : \E h \in 1 .. Len(list) : list'[i] = list[h]
    BY <1>1, ListTail
  <2> QED  BY <1>1, <2>1 DEF Growing
<1> QED  BY <1>1, <1>2, <1>3, <1>4 DEF RatesInv, Among, Kept, Timed, OwnRate, OwnGrowth,
                                       NotUnderstated, Measured, SameSlot

(* One object, whose counter is read as value, is measured and kept.       *)
LEMMA SampledInv ==
    ASSUME RatesInv, scanning, list # <<>>, count < Slots,
           NEW value \in Counts, NEW growth, NEW over, Sampled(value, growth, over),
           value <= counter[Head(list)], was[Head(list)].value <= value,
           over > 0 => growth = Growth(value, count),
           \/ sampler = "processes" /\ prev_time' = prev_time
           \/ sampler # "processes" /\ prev_time' = now /\ (over > 0 => over = now - prev_time)
    PROVE  RatesInv'
<1> RatesTypes /\ Once /\ Kept /\ Growing /\ Timed /\ OwnRate
  BY DEF RatesInv
<1> DEFINE o == Head(list)
<1>1. /\ o \in Objects /\ Tail(list) \in Seq(Objects) /\ Distinct(Tail(list))
      /\ ~Among(o, listed)
      /\ \A i \in 1 .. Len(Tail(list)) :
            /\ Tail(list)[i] # o
            /\ ~Among(Tail(list)[i], listed)
            /\ \E h \in 1 .. Len(list) : Tail(list)[i] = list[h]
  BY ListTail
<1>2. /\ shown' = [of |-> o, slot |-> count + 1, growth |-> growth, over |-> over,
                   own |-> value - was[o].value, since |-> now - was[o].time]
      /\ prev' = [prev EXCEPT ![count] = value]
      /\ count' = count + 1
      /\ was' = [was EXCEPT ![o] = [value |-> value, time |-> now]]
      /\ listed' = Append(listed, o) /\ list' = Tail(list)
      /\ UNCHANGED <<sampler, now, counter, scanning, snapshot, total, before>>
  BY DEF Sampled, KeepCounter
<1>3. value <= counter[o] /\ was[o].value <= value
  OBVIOUS
<1> HIDE DEF o
<1>4. /\ Slots \in Nat /\ MaxTime \in Nat /\ MaxCount \in Nat
      /\ count \in Nat /\ count < Slots /\ Len(listed) = count
      /\ listed \in Seq(Objects) /\ Len(before) \in Nat /\ before \in Seq(Objects)
      /\ now \in 1 .. MaxTime /\ prev_time \in 0 .. MaxTime
      /\ prev \in [0 .. Slots - 1 -> Counts] /\ was \in [Objects -> Samples]
      /\ value \in 0 .. MaxCount
  BY RatesAssumption DEF RatesTypes, RatesTypeOK, Counts
<1>5. /\ Len(listed') = count + 1 /\ listed' \in Seq(Objects)
      /\ \A i \in 1 .. count + 1 : listed'[i] = IF i = count + 1 THEN o ELSE listed[i]
  BY <1>1, <1>2, <1>4
<1>6. \A p \in Objects : was'[p] = IF p = o THEN [value |-> value, time |-> now] ELSE was[p]
  BY <1>1, <1>2, <1>4
<1>7. \A i \in 0 .. Slots - 1 : prev'[i] = IF i = count THEN value ELSE prev[i]
  BY <1>2, <1>4
<1>8. prev_time' \in 0 .. MaxTime
  BY <1>4
<1>9. RatesTypes'
  <2>1. was' \in [Objects -> Samples]
    <3>1. [value |-> value, time |-> now] \in Samples
      BY <1>4 DEF Samples
    <3> QED  BY <1>2, <1>4, <3>1
  <2>2. prev' \in [0 .. Slots - 1 -> Counts] /\ count' \in 0 .. Slots
    BY <1>2, <1>4
  <2> QED  BY <1>1, <1>2, <1>4, <1>5, <1>8, <2>1, <2>2 DEF RatesTypes, RatesTypeOK, Counts
<1>10. \A p \in Objects : ~Among(p, listed') => ~Among(p, listed) /\ p # o
  <2>1. 1 .. Len(listed') = 1 .. count + 1 /\ 1 .. Len(listed) = 1 .. count
    BY <1>4, <1>5
  <2> SUFFICES ASSUME NEW p \in Objects, ~Among(p, listed')
               PROVE  ~Among(p, listed) /\ p # o
    OBVIOUS
  <2>2. \A i \in 1 .. count + 1 : listed'[i] # p
    BY <2>1 DEF Among
  <2>3. p # o
    BY <1>4, <1>5, <2>2
  <2>4. \A i \in 1 .. count : i \in 1 .. count + 1 /\ listed'[i] = listed[i]
    BY <1>4, <1>5
  <2>5. ~Among(p, listed)
    BY <2>1, <2>2, <2>4 DEF Among
  <2> QED  BY <2>3, <2>5
<1>11. Once'
  <2>1. Distinct(listed')
    <3> SUFFICES ASSUME NEW i \in 1 .. count + 1, NEW j \in 1 .. count + 1,
                        listed'[i] = listed'[j]
                 PROVE  i = j
      BY <1>5 DEF Distinct
    <3>1. \A h \in 1 .. count : listed[h] # o
      BY <1>1, <1>4 DEF Among
    <3>2. \A h, k \in 1 .. count : listed[h] = listed[k] => h = k
      BY <1>4 DEF Once, Distinct
    <3> QED  BY <1>4, <1>5, <3>1, <3>2
  <2>2. ASSUME NEW i \in 1 .. Len(list') PROVE ~Among(list[i], listed)'
    <3>1. list'[i] \in Objects /\ list'[i] # o /\ ~Among(list'[i], listed)
      BY <1>1, <1>2, <2>2
    <3>2. ~Among(list'[i], listed')
      BY <1>4, <1>5, <3>1 DEF Among
    <3> QED  BY <3>2 DEF Among
  <2> QED  BY <1>1, <1>2, <2>1, <2>2 DEF Once, Distinct
<1>12. Kept'
  <2>1. ASSUME NEW i \in 1 .. Len(listed') PROVE prev'[i - 1] = was'[listed'[i]].value
    <3>1. i \in 1 .. count + 1 /\ i - 1 \in 0 .. Slots - 1
      BY <1>4, <1>5, <2>1
    <3>2. CASE i = count + 1
      <4>1. i - 1 = count /\ listed'[i] = o
        BY <1>4, <1>5, <3>1, <3>2
      <4>2. prev'[i - 1] = value
        BY <1>7, <3>1, <4>1
      <4> QED  BY <1>1, <1>6, <4>1, <4>2
    <3>3. CASE i # count + 1
      <4>1. i \in 1 .. count /\ i - 1 # count
        BY <1>4, <3>1, <3>3
      <4>2. listed[i] # o /\ listed[i] \in Objects
        BY <1>1, <1>4, <4>1 DEF Among
      <4>3. prev[i - 1] = was[listed[i]].value
        BY <1>4, <4>1 DEF Kept
      <4> QED  BY <1>5, <1>6, <1>7, <3>1, <3>3, <4>1, <4>2, <4>3
    <3> QED  BY <3>2, <3>3
  <2>2. ASSUME NEW i \in 1 .. Len(before), count + 1 < i, i <= Slots, before[i] # o,
               ~Among(before[i], listed)
        PROVE  prev'[i - 1] = was'[before[i]].value
    <3>1. /\ count < i /\ i - 1 \in 0 .. Slots - 1 /\ i - 1 # count
          /\ before[i] \in Objects
      BY <1>4, <2>2
    <3>2. prev[i - 1] = was[before[i]].value
      BY <2>2, <3>1 DEF Kept
    <3> QED  BY <1>6, <1>7, <2>2, <3>1, <3>2
  <2>3. \A i \in 1 .. Len(before) : before[i] \in Objects
    BY <1>4
  <2>4. \A i \in 1 .. Len(before) :
           count + 1 < i /\ i <= Slots /\ ~Among(before[i], listed')
              => prev'[i - 1] = was'[before[i]].value
    BY <1>10, <2>2, <2>3
  <2> QED  BY <1>2, <2>1, <2>4 DEF Kept, Among
<1>13. Growing'
  <2>1. \A p \in Objects : was'[p].value <= counter[p]
    BY <1>3, <1>6 DEF Growing
  <2>2. ASSUME scanning, sampler # "processes", NEW i \in 1 .. Len(list')
        PROVE  was'[list'[i]].value <= snapshot[list'[i]]
    <3>1. list'[i] # o /\ list'[i] \in Objects
      BY <1>1, <1>2, <2>2
    <3>2. PICK h \in 1 .. Len(list) : list'[i] = list[h]
      BY <1>1, <1>2, <2>2
    <3> QED  BY <1>6, <2>2, <3>1, <3>2 DEF Growing
  <2> QED  BY <1>2, <2>1, <2>2 DEF Growing
<1>14. Timed'
  <2>1. \A p \in Objects : was[p].time \in Int /\ was[p].time <= now
    BY <1>4 DEF Timed, Samples
  <2>2. \A p \in Objects : was'[p].time <= now
    BY <1>4, <1>6, <2>1
  <2>3. Len(listed') = 1 => listed'[1] = o
    BY <1>4, <1>5
  <2>4. was'[o].time = now /\ count' # 0
    BY <1>1, <1>2, <1>4, <1>6
  <2> QED  BY <1>2, <2>2, <2>3, <2>4 DEF Timed
<1>15. OwnRate'
  <2>1. /\ shown'.slot = count + 1 /\ shown'.of = o /\ shown'.growth = growth
        /\ shown'.over = over /\ shown'.own = value - was[o].value
        /\ shown'.since = now - was[o].time
    BY <1>2
  <2>2. SUFFICES ASSUME over > 0, count + 1 \in DOMAIN before, before[count + 1] = o
                 PROVE  /\ growth = value - was[o].value
                        /\ sampler # "processes" =>
                             /\ over <= now - was[o].time
                             /\ Len(before) = 1 /\ count + 1 = 1 => over = now - was[o].time
    <3>1. Measured' /\ SameSlot'
            => over > 0 /\ count + 1 \in DOMAIN before /\ before[count + 1] = o
      BY <1>2, <2>1 DEF Measured, SameSlot
    <3>2. sampler' = sampler /\ before' = before
      BY <1>2
    <3> QED  BY <2>1, <3>1, <3>2 DEF OwnRate, OwnGrowth, NotUnderstated
  <2>3. count + 1 \in 1 .. Len(before) /\ count + 1 <= Slots
    BY <1>4, <2>2
  <2>4. prev[(count + 1) - 1] = was[o].value
    BY <1>1, <1>4, <2>2, <2>3 DEF Kept
  <2>5. growth = (value - was[o].value) % Width
    BY <1>4, <2>2, <2>4 DEF Growth
  <2>6. was[o].value \in 0 .. MaxCount /\ was[o].time \in Int
    BY <1>1, <1>4 DEF Samples, Counts
  <2>7. value - was[o].value \in 0 .. MaxCount
    BY <1>3, <1>4, <2>6
  <2>8. growth = value - was[o].value
    BY <2>5, <2>7, NoWrap
  <2>9. ASSUME sampler # "processes"
        PROVE  /\ over <= now - was[o].time
               /\ Len(before) = 1 /\ count + 1 = 1 => over = now - was[o].time
    <3>1. over = now - prev_time
      BY <2>2, <2>9
    <3>2. was[o].time <= prev_time
      BY <1>1, <2>9 DEF Timed
    <3>3. Len(before) = 1 /\ count + 1 = 1 => prev_time = was[o].time
      <4>1. count + 1 = 1 => count = 0 /\ before[1] = o
        BY <1>4, <2>2
      <4> QED  BY <2>9, <4>1 DEF Timed
    <3> QED  BY <1>4, <2>6, <3>1, <3>2, <3>3
  <2> QED  BY <2>8, <2>9
<1> QED  BY <1>9, <1>11, <1>12, <1>13, <1>14, <1>15 DEF RatesInv

LEMMA SampleProcessInv == RatesInv /\ SampleProcess => RatesInv'
<1> SUFFICES ASSUME RatesInv, SampleProcess PROVE RatesInv'
  OBVIOUS
<1> RatesTypes /\ Once /\ Kept /\ Growing /\ Timed /\ OwnRate
  BY DEF RatesInv
<1>1. sampler = "processes" /\ scanning /\ list # <<>> /\ count < Slots /\ prev_time' = prev_time
  BY DEF SampleProcess, Looking
<1> DEFINE value == counter[Head(list)]
<1>2. Head(list) \in Objects
  BY <1>1, ListTail
<1>3. /\ value \in Counts /\ value <= counter[Head(list)]
      /\ was[Head(list)].value <= value
  BY <1>2 DEF Counts, RatesTypes, RatesTypeOK, Growing
<1>4. CASE prev_time > 0 /\ total > prev_time
  <2>1. Sampled(value, Growth(value, count), total - prev_time)
    BY <1>4 DEF SampleProcess
  <2> HIDE DEF value
  <2> QED  BY <1>1, <1>3, <2>1, SampledInv
<1>5. CASE ~(prev_time > 0 /\ total > prev_time)
  <2>1. Sampled(value, 0, 0)
    BY <1>5 DEF SampleProcess
  <2>2. ~(0 > 0)
    OBVIOUS
  <2> HIDE DEF value
  <2> QED  BY <1>1, <1>3, <2>1, <2>2, SampledInv
<1> QED  BY <1>4, <1>5

(* One device, or the page faults, once the snapshot is taken.             *)
LEMMA DeviceInv ==
    ASSUME RatesInv, scanning, list # <<>>, count < Slots, sampler # "processes",
           prev_time' = now,
           IF prev_time > 0
           THEN Sampled(snapshot[Head(list)], Growth(snapshot[Head(list)], count), now - prev_time)
           ELSE Sampled(snapshot[Head(list)], 0, 0)
    PROVE  RatesInv'
<1> RatesTypes /\ Once /\ Kept /\ Growing /\ Timed /\ OwnRate
  BY DEF RatesInv
<1> DEFINE value == snapshot[Head(list)]
<1>1. Head(list) \in Objects
  BY ListTail
<1>2. was[Head(list)].value <= value
  <2>1. 1 \in 1 .. Len(list) /\ Head(list) = list[1]
    BY DEF RatesTypes
  <2> QED  BY <2>1 DEF Growing
<1>3. value \in Counts /\ value <= counter[Head(list)]
  BY <1>1 DEF Counts, RatesTypes, RatesTypeOK, Growing
<1>4. CASE prev_time > 0
  <2>1. Sampled(value, Growth(value, count), now - prev_time)
    BY <1>4
  <2> HIDE DEF value
  <2> QED  BY <1>2, <1>3, <2>1, SampledInv
<1>5. CASE ~(prev_time > 0)
  <2>1. Sampled(value, 0, 0)
    BY <1>5
  <2>2. ~(0 > 0)
    OBVIOUS
  <2> HIDE DEF value
  <2> QED  BY <1>2, <1>3, <2>1, <2>2, SampledInv
<1> QED  BY <1>4, <1>5

LEMMA RatesStepInv == RatesInv /\ [RatesNext]_rates_vars => RatesInv'
<1> SUFFICES ASSUME RatesInv, [RatesNext]_rates_vars PROVE RatesInv'
  OBVIOUS
<1>1. CASE UNCHANGED rates_vars
  BY <1>1 DEF rates_vars, RatesInv, RatesTypes, RatesTypeOK, Once, Among, Distinct, Kept,
              Growing, Timed, OwnRate, OwnGrowth, NotUnderstated, Measured, SameSlot
<1>2. CASE Tick
  BY <1>2, TickInv
<1>3. CASE \E o \in Objects : Work(o)
  BY <1>3, WorkInv
<1>4. CASE \E s \in Listings, ticks \in IF sampler = "processes" THEN {0, now} ELSE {0} :
              BeginScan(s, ticks)
  <2>1. 0 \in 0 .. MaxTime /\ now \in 0 .. MaxTime
    BY RatesAssumption DEF RatesInv, RatesTypes, RatesTypeOK
  <2>2. PICK s \in Listings, ticks \in 0 .. MaxTime : BeginScan(s, ticks)
    BY <1>4, <2>1
  <2> QED  BY <2>2, BeginScanInv
<1>5. CASE SampleProcess
  BY <1>5, SampleProcessInv
<1>6. CASE get_io_performance \/ get_network_performance
  <2>1. sampler # "processes" /\ scanning /\ list # <<>> /\ count < Slots
    BY <1>6 DEF get_io_performance, get_network_performance, Looking
  <2>2. CASE SkipDevice
    BY <2>1, <2>2, SkipDeviceInv
  <2>3. CASE SampleDevice
    BY <2>1, <2>3, DeviceInv DEF SampleDevice, KeepTime
  <2> QED  BY <1>6, <2>2, <2>3 DEF get_io_performance, get_network_performance
<1>7. CASE get_memory_performance
  <2>1. sampler # "processes" /\ scanning /\ list # <<>> /\ count < Slots
    BY <1>7 DEF get_memory_performance, Looking
  <2> QED  BY <1>7, <2>1, DeviceInv DEF get_memory_performance, KeepTime
<1>8. CASE EndScan
  BY <1>8, EndScanInv
<1>9. CASE \E ticks \in {0, now} : OpendirFails(ticks)
  <2>1. 0 \in 0 .. MaxTime /\ now \in 0 .. MaxTime
    BY RatesAssumption DEF RatesInv, RatesTypes, RatesTypeOK
  <2>2. PICK ticks \in 0 .. MaxTime : OpendirFails(ticks)
    BY <1>9, <2>1
  <2> QED  BY <2>2, OpendirFailsInv
<1> QED  BY <1>1, <1>2, <1>3, <1>4, <1>5, <1>6, <1>7, <1>8, <1>9 DEF RatesNext

-----------------------------------------------------------------------------
(* Benchmarks: the inductive invariant.                                    *)

Names == {"other", "sysfetch_total", Programs[1], Programs[2]}
Benchmark == [name : Names, start_time : Nat, duration : Int]
Full == Len(benchmarks) >= MaxBenchmarks
Has(p) == Entries(benchmarks, Programs[p]) # {}
Begun(table, name) == table[Min(Entries(table, name))].start_time
FirstStart(p) == Begun(benchmarks, Programs[p])

BenchTypes ==
    /\ benchmarks \in Seq(Benchmark) /\ Len(benchmarks) <= MaxBenchmarks
    /\ clock \in Nat
    /\ program \in 0 .. 3 /\ run \in 1 .. Runs
    /\ times \in [1 .. 2 -> [1 .. Runs -> Int]]
    /\ verdict \in {Unset, 0, 1}
    /\ comparisons \in Nat
    /\ took \in [1 .. 2 -> SUBSET RunTimes] /\ \A p \in 1 .. 2 : IsFiniteSet(took[p])

(* A run of program p was made, in this comparison or one before.          *)
Ran(p) ==
    \/ comparisons > 1
    \/ comparisons = 1 /\ (program = 0 \/ p < program \/ (p = program /\ run > 1))

(* A program that ran has an entry, unless the table was full by then.     *)
Room ==
    /\ \A i \in 1 .. Len(benchmarks) : benchmarks[i].start_time <= clock
    /\ program # 0 => comparisons > 0 /\ verdict = Unset
    /\ comparisons = 0 => verdict = Unset
    /\ program = 3 => run = 1
    /\ \A p \in 1 .. 2 : /\ Ran(p) => Has(p) \/ Full
                         /\ Has(p) => Ran(p)
    /\ Has(2) => Has(1)

(* The first n durations of program p rise in steps of d from an offset.   *)
Linear(p, n, b, d) == \A i \in 1 .. n : times[p][i] = b + i * d

(* If every run of the programs takes d1 and d2: the second program's      *)
(* first entry begins when the first program has run, and the durations of *)
(* both have the same offset, the time since the first comparison.         *)
Only(d1, d2) == took[1] \subseteq {d1} /\ took[2] \subseteq {d2}
Apart(d1) == Has(2) => FirstStart(2) = FirstStart(1) + Runs * d1
Offset(b, d1, d2) ==
    /\ comparisons = 1 => b = 0
    /\ program = 1 /\ run > 1 =>
         Linear(1, run - 1, b, d1) /\ clock = FirstStart(1) + b + (run - 1) * d1
    /\ program = 2 =>
         /\ Linear(1, Runs, b, d1)
         /\ Has(2) => Linear(2, run - 1, b, d2)
         /\ clock = FirstStart(1) + b + Runs * d1 + (run - 1) * d2
    /\ program = 3 =>
         /\ Linear(1, Runs, b, d1)
         /\ Has(2) => Linear(2, Runs, b, d2)
Alike ==
    \A d1, d2 \in Nat :
        Only(d1, d2) /\ Has(1) => Apart(d1) /\ \E b \in Nat : Offset(b, d1, d2)

BenchInv == BenchTypes /\ Room /\ Alike /\ VerdictRight

-----------------------------------------------------------------------------
(* Benchmarks: sums.                                                       *)

Sums(sum, ts, n) ==
    /\ sum \in [0 .. n -> Int] /\ sum[0] = 0
    /\ \A i \in 1 .. n : sum[i] = sum[i - 1] + ts[i]

(* The sums exist: there is no least number of terms without.              *)
LEMMA SumsExist ==
    ASSUME NEW ts \in [1 .. Runs -> Int]
    PROVE  \E sum : Sums(sum, ts, Runs)
<1>1. Runs \in Nat \ {0}
  BY BenchmarksAssumption
<1> DEFINE T == {n \in 0 .. Runs : ~\E sum : Sums(sum, ts, n)}
<1>2. ASSUME T # {} PROVE FALSE
  <2>1. T \in SUBSET Nat
    BY <1>1
  <2>2. PICK n \in T : \A m \in T : n <= m
    <3> HIDE DEF T
    <3> QED  BY <1>2, <2>1, LeastOf
  <2>3. CASE n = 0
    <3>1. Sums([i \in 0 .. 0 |-> 0], ts, 0)
      BY DEF Sums
    <3> QED  BY <2>2, <2>3, <3>1
  <2>4. CASE n # 0
    <3>1. n \in 1 .. Runs /\ n - 1 \in 0 .. Runs
      BY <1>1, <2>2, <2>4
    <3>2. PICK sum : Sums(sum, ts, n - 1)
      BY <2>2, <3>1
    <3> DEFINE more == [i \in 0 .. n |-> IF i = n THEN sum[n - 1] + ts[n] ELSE sum[i]]
    <3>3. sum \in [0 .. n - 1 -> Int] /\ ts[n] \in Int
      BY <3>1, <3>2 DEF Sums
    <3>4. \A i \in 0 .. n : more[i] = IF i = n THEN sum[n - 1] + ts[n] ELSE sum[i]
      OBVIOUS
    <3>5. more \in [0 .. n -> Int]
      <4>1. \A i \in 0 .. n : (IF i = n THEN sum[n - 1] + ts[n] ELSE sum[i]) \in Int
        BY <1>1, <3>1, <3>3
      <4> QED  BY <4>1
    <3> HIDE DEF more
    <3>6. more[0] = 0
      BY <3>1, <3>2, <3>4 DEF Sums
    <3>7. \A i \in 1 .. n : more[i] = more[i - 1] + ts[i]
      <4> TAKE i \in 1 .. n
      <4>1. i - 1 \in 0 .. n /\ i - 1 # n /\ i \in 0 .. n
        BY <1>1, <3>1
      <4>2. CASE i = n
        BY <3>4, <4>1, <4>2
      <4>3. CASE i # n
        <5>1. i \in 1 .. n - 1
          BY <1>1, <3>1, <4>3
        <5>2. sum[i] = sum[i - 1] + ts[i]
          BY <3>2, <5>1 DEF Sums
        <5> QED  BY <3>4, <4>1, <4>3, <5>2
      <4> QED  BY <4>2, <4>3
    <3>8. Sums(more, ts, n)
      BY <3>5, <3>6, <3>7 DEF Sums
    <3> QED  BY <2>2, <3>8
  <2> QED  BY <2>3, <2>4
<1> QED  BY <1>1, <1>2

LEMMA TotalSums ==
    ASSUME NEW ts \in [1 .. Runs -> Int]
    PROVE  \E sum : Sums(sum, ts, Runs) /\ Total(ts) = sum[Runs]
<1> DEFINE IsSum(f) == f = [i \in 0 .. Runs |-> IF i = 0 THEN 0 ELSE f[i - 1] + ts[i]]
           sum == CHOOSE f : IsSum(f)
<1>1. Runs \in Nat \ {0}
  BY BenchmarksAssumption
<1>2. PICK f : Sums(f, ts, Runs)
  BY SumsExist
<1>3. f \in [0 .. Runs -> Int]
  BY <1>2 DEF Sums
<1>4. \A i \in 0 .. Runs : f[i] = IF i = 0 THEN 0 ELSE f[i - 1] + ts[i]
  BY <1>1, <1>2 DEF Sums
<1>5. IsSum(f)
  BY <1>3, <1>4
<1>6. IsSum(sum)
  BY <1>5
<1> HIDE DEF sum
<1>7. \A i \in 0 .. Runs : sum[i] = IF i = 0 THEN 0 ELSE sum[i - 1] + ts[i]
  BY <1>6
<1>8. \A i \in 0 .. Runs : sum[i] = f[i]
  <2> DEFINE T == {i \in 0 .. Runs : sum[i] # f[i]}
  <2> SUFFICES ASSUME T # {} PROVE FALSE
    OBVIOUS
  <2>1. T \in SUBSET Nat
    BY <1>1
  <2>2. PICK n \in T : \A m \in T : n <= m
    <3> HIDE DEF T
    <3> QED  BY <2>1, LeastOf
  <2>3. n # 0
    BY <1>4, <1>7, <2>2
  <2>4. n - 1 \in 0 .. Runs /\ n - 1 < n /\ n \in Int
    BY <1>1, <2>2, <2>3
  <2>5. sum[n - 1] = f[n - 1]
    BY <2>2, <2>4
  <2> QED  BY <1>4, <1>7, <2>2, <2>3, <2>5
<1>9. DOMAIN sum = 0 .. Runs /\ sum = [i \in 0 .. Runs |-> sum[i]]
  BY <1>6
<1>10. sum = f
  BY <1>3, <1>8, <1>9
<1> QED  BY <1>2, <1>10 DEF Total, sum

(* Sums compare as their terms do.                                         *)
LEMMA TotalLess ==
    ASSUME NEW ts \in [1 .. Runs -> Int], NEW us \in [1 .. Runs -> Int],
           \A i \in 1 .. Runs : ts[i] < us[i]
    PROVE  Total(ts) < Total(us)
<1>1. Runs \in Nat \ {0}
  BY BenchmarksAssumption
<1>2. PICK f : Sums(f, ts, Runs) /\ Total(ts) = f[Runs]
  BY TotalSums
<1>3. PICK g : Sums(g, us, Runs) /\ Total(us) = g[Runs]
  BY TotalSums
<1> DEFINE T == {n \in 1 .. Runs : ~(f[n] < g[n])}
<1>4. ASSUME T # {} PROVE FALSE
  <2>1. T \in SUBSET Nat
    BY <1>1
  <2>2. PICK n \in T : \A m \in T : n <= m
    <3> HIDE DEF T
    <3> QED  BY <1>4, <2>1, LeastOf
  <2>3. n \in 1 .. Runs /\ ~(f[n] < g[n]) /\ n - 1 \in 0 .. Runs /\ n \in 0 .. Runs
    BY <1>1, <2>2
  <2>4. f[n - 1] <= g[n - 1]
    <3>1. CASE n = 1
      BY <1>2, <1>3, <3>1 DEF Sums
    <3>2. CASE n # 1
      <4>1. n - 1 \in 1 .. Runs /\ ~(n <= n - 1)
        BY <1>1, <2>3, <3>2
      <4>2. f[n - 1] < g[n - 1]
        BY <2>2, <4>1
      <4>3. f[n - 1] \in Int /\ g[n - 1] \in Int
        BY <1>2, <1>3, <2>3 DEF Sums
      <4> QED  BY <4>2, <4>3
    <3> QED  BY <3>1, <3>2
  <2>5. f[n] = f[n - 1] + ts[n] /\ g[n] = g[n - 1] + us[n] /\ ts[n] < us[n]
    BY <1>2, <1>3, <2>3 DEF Sums
  <2>6. /\ f[n] \in Int /\ f[n - 1] \in Int /\ g[n] \in Int /\ g[n - 1] \in Int
        /\ ts[n] \in Int /\ us[n] \in Int
    BY <1>2, <1>3, <2>3 DEF Sums
  <2> QED  BY <2>3, <2>4, <2>5, <2>6
<1>5. Runs \in 1 .. Runs
  BY <1>1
<1> QED  BY <1>2, <1>3, <1>4, <1>5

LEMMA ProductLess ==
    ASSUME NEW i \in Nat \ {0}, NEW d1 \in Nat, NEW d2 \in Nat
    PROVE  /\ i * d1 \in Nat /\ i * d2 \in Nat
           /\ d1 < d2 => i * d1 < i * d2
  OBVIOUS

(* Two programs whose durations have the same offset compare as their runs.*)
LEMMA LinearCompare ==
    ASSUME BenchTypes, NEW b \in Nat, NEW d1 \in Nat, NEW d2 \in Nat,
           Linear(1, Runs, b, d1), Linear(2, Runs, b, d2)
    PROVE  Total(times[1]) < Total(times[2]) <=> d1 < d2
<1>1. Runs \in Nat \ {0}
  BY BenchmarksAssumption
<1>2. times[1] \in [1 .. Runs -> Int] /\ times[2] \in [1 .. Runs -> Int]
  BY DEF BenchTypes
<1>3. \A i \in 1 .. Runs : times[1][i] = b + i * d1 /\ times[2][i] = b + i * d2
  BY DEF Linear
<1>4. \A i \in 1 .. Runs : i \in Nat \ {0}
  BY <1>1
<1>5. CASE d1 < d2
  <2>1. ASSUME NEW i \in 1 .. Runs PROVE times[1][i] < times[2][i]
    <3>1. i * d1 \in Nat /\ i * d2 \in Nat /\ i * d1 < i * d2
      BY <1>4, <1>5, ProductLess
    <3> QED  BY <1>3, <3>1
  <2> QED  BY <1>2, <1>5, <2>1, TotalLess
<1>6. CASE d1 = d2
  <2>1. \A i \in 1 .. Runs : times[1][i] = times[2][i]
    BY <1>3, <1>6
  <2>2. times[1] = times[2]
    <3>1. /\ times[1] = [i \in 1 .. Runs |-> times[1][i]]
          /\ times[2] = [i \in 1 .. Runs |-> times[2][i]]
      BY <1>2
    <3> QED  BY <2>1, <3>1, Zenon
  <2>3. ~(Total(times[1]) < Total(times[2]))
    <3>1. PICK f : Sums(f, times[1], Runs) /\ Total(times[1]) = f[Runs]
      BY <1>2, TotalSums
    <3>2. f[Runs] \in Int
      BY <1>1, <3>1 DEF Sums
    <3> QED  BY <2>2, <3>1, <3>2
  <2> QED  BY <1>6, <2>3
<1>7. CASE d2 < d1
  <2>1. ASSUME NEW i \in 1 .. Runs PROVE times[2][i] < times[1][i]
    <3>1. i * d1 \in Nat /\ i * d2 \in Nat /\ i * d2 < i * d1
      BY <1>4, <1>7, ProductLess
    <3> QED  BY <1>3, <3>1
  <2>2. Total(times[2]) < Total(times[1])
    BY <1>2, <2>1, TotalLess
  <2>3. Total(times[1]) \in Int /\ Total(times[2]) \in Int
    <3>1. PICK f : Sums(f, times[1], Runs) /\ Total(times[1]) = f[Runs]
      BY <1>2, TotalSums
    <3>2. PICK g : Sums(g, times[2], Runs) /\ Total(times[2]) = g[Runs]
      BY <1>2, TotalSums
    <3> QED  BY <1>1, <3>1, <3>2 DEF Sums
  <2> QED  BY <1>7, <2>2, <2>3
<1> QED  BY <1>5, <1>6, <1>7

-----------------------------------------------------------------------------
(* Benchmarks: the table.                                                  *)

(* The first entry of a name exists, and an entry it is.                   *)
LEMMA FirstEntry ==
    ASSUME NEW table \in Seq(Benchmark), NEW name, Entries(table, name) # {}
    PROVE  /\ Min(Entries(table, name)) \in Entries(table, name)
           /\ Min(Entries(table, name)) \in 1 .. Len(table)
           /\ \A i \in Entries(table, name) : Min(Entries(table, name)) <= i
<1>1. Entries(table, name) \subseteq 1 .. Len(table) /\ Len(table) \in Nat
  BY DEF Entries
<1>2. Entries(table, name) \in SUBSET Nat
  BY <1>1
<1>3. \E n \in Entries(table, name) : \A m \in Entries(table, name) : n <= m
  BY <1>2, LeastOf
<1> QED  BY <1>1, <1>3 DEF Min

(* A later entry of a name is not the first.                               *)
LEMMA SameFirst ==
    ASSUME NEW table \in Seq(Benchmark), NEW name, Entries(table, name) # {},
           NEW other \in Seq(Benchmark),
           \A i \in Entries(other, name) :
              i \in Entries(table, name) \/ \A h \in Entries(table, name) : h < i,
           Entries(table, name) \subseteq Entries(other, name)
    PROVE  Min(Entries(other, name)) = Min(Entries(table, name))
<1>1. Entries(other, name) # {}
  OBVIOUS
<1>2. /\ Min(Entries(table, name)) \in Entries(other, name)
      /\ Min(Entries(table, name)) \in 1 .. Len(table) /\ Len(table) \in Nat
      /\ \A i \in Entries(table, name) : Min(Entries(table, name)) <= i
      /\ Min(Entries(table, name)) \in Entries(table, name)
  BY FirstEntry
<1>3. /\ Min(Entries(other, name)) \in Entries(other, name)
      /\ Min(Entries(other, name)) \in 1 .. Len(other) /\ Len(other) \in Nat
      /\ \A i \in Entries(other, name) : Min(Entries(other, name)) <= i
  BY <1>1, FirstEntry
<1>4. Min(Entries(other, name)) <= Min(Entries(table, name))
  BY <1>2, <1>3
<1>5. Min(Entries(table, name)) <= Min(Entries(other, name))
  BY <1>2, <1>3
<1> QED  BY <1>2, <1>3, <1>4, <1>5

LEMMA StartKeeps ==
    ASSUME NEW table \in Seq(Benchmark), Len(table) <= MaxBenchmarks,
           NEW name \in Names, NEW t \in Nat,
           NEW begun, begun = start_benchmark(table, name, t)
    PROVE  /\ begun \in Seq(Benchmark) /\ Len(begun) <= MaxBenchmarks
           /\ Len(table) >= MaxBenchmarks => begun = table
           /\ \A i \in 1 .. Len(begun) :
                 begun[i].start_time = t \/ (i \in 1 .. Len(table) /\ begun[i] = table[i])
           /\ \A n : Entries(table, n) # {} =>
                        Entries(begun, n) # {} /\ Begun(begun, n) = Begun(table, n)
           /\ \A n : n # name /\ Entries(table, n) = {} => Entries(begun, n) = {}
           /\ Entries(table, name) = {} /\ Len(table) < MaxBenchmarks =>
                 Entries(begun, name) # {} /\ Begun(begun, name) = t
<1> DEFINE new == [name |-> name, start_time |-> t, duration |-> 0]
<1>1. Len(table) \in Nat /\ MaxBenchmarks \in Nat /\ new \in Benchmark
  BY BenchmarksAssumption DEF Benchmark
<1>2. CASE Len(table) >= MaxBenchmarks
  <2>1. begun = table
    BY <1>2 DEF start_benchmark
  <2> QED  BY <1>1, <1>2, <2>1
<1>3. CASE ~(Len(table) >= MaxBenchmarks)
  <2>1. begun = Append(table, new)
    BY <1>3 DEF start_benchmark
  <2>2. new.name = name /\ new.start_time = t
    OBVIOUS
  <2> HIDE DEF new
  <2>3. /\ begun \in Seq(Benchmark) /\ Len(begun) = Len(table) + 1
        /\ \A i \in 1 .. Len(table) + 1 :
              begun[i] = IF i = Len(table) + 1 THEN new ELSE table[i]
    BY <1>1, <2>1
  <2>4. \A n : Entries(begun, n) = IF n = name THEN Entries(table, n) \cup {Len(table) + 1}
                                  ELSE Entries(table, n)
    <3> TAKE n
    <3>1. DOMAIN begun = 1 .. Len(table) + 1 /\ DOMAIN table = 1 .. Len(table)
      BY <2>3
    <3>2. \A i : i \in 1 .. Len(table) + 1
                   <=> i \in 1 .. Len(table) \/ i = Len(table) + 1
      BY <1>1
    <3>3. Len(table) + 1 \notin 1 .. Len(table)
      BY <1>1
    <3> QED  BY <2>2, <2>3, <3>1, <3>2, <3>3 DEF Entries
  <2>5. \A n : \A i \in Entries(table, n) : i \in 1 .. Len(table) /\ i < Len(table) + 1
    BY <1>1 DEF Entries
  <2>6. ASSUME NEW n, Entries(table, n) # {}
        PROVE  Entries(begun, n) # {} /\ Begun(begun, n) = Begun(table, n)
    <3>1. Entries(table, n) \subseteq Entries(begun, n)
      BY <2>4
    <3>2. \A i \in Entries(begun, n) :
             i \in Entries(table, n) \/ \A h \in Entries(table, n) : h < i
      BY <2>4, <2>5
    <3>3. Min(Entries(begun, n)) = Min(Entries(table, n))
      BY <2>3, <2>6, <3>1, <3>2, SameFirst
    <3>4. Min(Entries(table, n)) \in 1 .. Len(table)
      BY <2>6, FirstEntry
    <3> QED  BY <1>1, <2>3, <2>6, <3>1, <3>3, <3>4 DEF Begun
  <2>7. ASSUME Entries(table, name) = {}
        PROVE  Entries(begun, name) # {} /\ Begun(begun, name) = t
    <3>1. Entries(begun, name) = {Len(table) + 1}
      BY <2>4, <2>7
    <3>2. Min(Entries(begun, name)) = Len(table) + 1
      BY <2>3, <3>1, FirstEntry
    <3> QED  BY <1>1, <2>2, <2>3, <3>1, <3>2 DEF Begun
  <2>8. \A i \in 1 .. Len(begun) :
           begun[i].start_time = t \/ (i \in 1 .. Len(table) /\ begun[i] = table[i])
    <3> TAKE i \in 1 .. Len(begun)
    <3>1. i \in 1 .. Len(table) \/ i = Len(table) + 1
      BY <1>1, <2>3
    <3>2. i \in 1 .. Len(table) => i # Len(table) + 1
      BY <1>1
    <3>3. begun[i] = IF i = Len(table) + 1 THEN new ELSE table[i]
      BY <1>1, <2>3
    <3> QED  BY <2>2, <3>1, <3>2, <3>3
  <2>9. Len(begun) <= MaxBenchmarks
    BY <1>1, <1>3, <2>3
  <2> QED  BY <1>3, <2>3, <2>4, <2>6, <2>7, <2>8, <2>9
<1> QED  BY <1>2, <1>3

LEMMA EndKeeps ==
    ASSUME NEW table \in Seq(Benchmark), NEW name, NEW t \in Nat,
           NEW ended, ended = end_benchmark(table, name, t)
    PROVE  /\ ended \in Seq(Benchmark) /\ Len(ended) = Len(table)
           /\ \A i \in 1 .. Len(table) : ended[i].start_time = table[i].start_time
           /\ \A n : Entries(ended, n) = Entries(table, n)
           /\ \A n : Entries(table, n) # {} => Begun(ended, n) = Begun(table, n)
           /\ Entries(table, name) # {} =>
                 ended[Min(Entries(ended, name))].duration = t - Begun(table, name)
<1> DEFINE k == Min(Entries(table, name))
<1>1. CASE Entries(table, name) = {}
  <2>1. ended = table
    BY <1>1 DEF end_benchmark
  <2> QED  BY <1>1, <2>1
<1>2. CASE Entries(table, name) # {}
  <2>1. k \in 1 .. Len(table) /\ Len(table) \in Nat
    BY <1>2, FirstEntry
  <2>2. ended = [table EXCEPT ![k].duration = t - table[k].start_time]
    BY <1>2 DEF end_benchmark
  <2>3. Begun(table, name) = table[k].start_time
    BY DEF Begun
  <2> HIDE DEF k
  <2>4. \A i \in 1 .. Len(table) : table[i] \in Benchmark
    OBVIOUS
  <2> DEFINE e == [table[k] EXCEPT !.duration = t - table[k].start_time]
  <2>5. /\ e \in Benchmark /\ e.name = table[k].name /\ e.start_time = table[k].start_time
        /\ e.duration = t - table[k].start_time
    <3>1. table[k] \in Benchmark
      BY <2>1, <2>4
    <3> QED  BY <3>1 DEF Benchmark
  <2>6. ended = [table EXCEPT ![k] = e]
    BY <2>2
  <2> HIDE DEF e
  <2>7. /\ ended \in Seq(Benchmark) /\ Len(ended) = Len(table)
        /\ \A i \in 1 .. Len(table) : ended[i] = IF i = k THEN e ELSE table[i]
    BY <2>1, <2>5, <2>6
  <2>8. \A n : Entries(ended, n) = Entries(table, n)
    <3> TAKE n
    <3>1. DOMAIN ended = 1 .. Len(table) /\ DOMAIN table = 1 .. Len(table)
      BY <2>7
    <3> QED  BY <2>5, <2>7, <3>1 DEF Entries
  <2>9. \A i \in 1 .. Len(table) : ended[i].start_time = table[i].start_time
    BY <2>5, <2>7
  <2>10. ASSUME NEW n, Entries(table, n) # {}
         PROVE  Begun(ended, n) = Begun(table, n)
    <3>1. Min(Entries(table, n)) \in 1 .. Len(table)
      BY <2>10, FirstEntry
    <3> QED  BY <2>8, <2>9, <3>1 DEF Begun
  <2>11. ended[Min(Entries(ended, name))].duration = t - table[k].start_time
    BY <2>1, <2>5, <2>7, <2>8 DEF k
  <2> QED  BY <1>2, <2>3, <2>7, <2>8, <2>9, <2>10, <2>11
<1> QED  BY <1>1, <1>2

-----------------------------------------------------------------------------
(* Benchmarks: the steps.                                                  *)

LEMMA BenchInitInv == BenchInit => BenchInv
<1> SUFFICES ASSUME BenchInit PROVE BenchInv
  OBVIOUS
<1>1. /\ benchmarks = <<>> /\ clock = 0 /\ program = 0 /\ run = 1 /\ times = NoTimes
      /\ verdict = Unset /\ comparisons = 0 /\ took = [p \in 1 .. 2 |-> {}]
  BY DEF BenchInit
<1>2. Runs \in Nat \ {0} /\ MaxBenchmarks \in Nat
  BY BenchmarksAssumption
<1>3. \A n : Entries(benchmarks, n) = {}
  BY <1>1 DEF Entries
<1>4. BenchTypes
  <2>1. IsFiniteSet({})
    BY FS_EmptySet
  <2>2. NoTimes \in [1 .. 2 -> [1 .. Runs -> Int]]
    BY DEF NoTimes, Unset
  <2>3. benchmarks \in Seq(Benchmark) /\ Len(benchmarks) = 0
    BY <1>1
  <2>4. took \in [1 .. 2 -> SUBSET RunTimes] /\ \A p \in 1 .. 2 : IsFiniteSet(took[p])
    BY <1>1, <2>1
  <2> QED  BY <1>1, <1>2, <2>2, <2>3, <2>4 DEF BenchTypes, Unset
<1>5. \A p \in 1 .. 2 : ~Has(p) /\ ~Ran(p)
  BY <1>1, <1>3 DEF Has, Ran
<1>6. Room
  BY <1>1, <1>5 DEF Room
<1> QED  BY <1>1, <1>4, <1>5, <1>6 DEF BenchInv, Alike, VerdictRight

(* An entry of another name leaves those of the programs alone.            *)
LEMMA OtherEntry ==
    ASSUME BenchTypes, Room, NEW name \in {"other", "sysfetch_total"}, NEW t \in Nat, clock <= t,
           benchmarks' = start_benchmark(benchmarks, name, t)
    PROVE  /\ benchmarks' \in Seq(Benchmark) /\ Len(benchmarks') <= MaxBenchmarks
           /\ \A i \in 1 .. Len(benchmarks') : benchmarks'[i].start_time <= t
           /\ Full => Full'
           /\ \A p \in 1 .. 2 : /\ Has(p)' <=> Has(p)
                                /\ Has(p) => FirstStart(p)' = FirstStart(p)
<1>1. PICK begun : begun = benchmarks'
  OBVIOUS
<1>2. name \in Names /\ \A p \in 1 .. 2 : Programs[p] # name
  BY DEF Names, Programs
<1>3. /\ benchmarks \in Seq(Benchmark) /\ Len(benchmarks) <= MaxBenchmarks /\ clock \in Nat
      /\ Len(benchmarks) \in Nat /\ MaxBenchmarks \in Nat
  BY BenchmarksAssumption DEF BenchTypes
<1>4. /\ begun \in Seq(Benchmark) /\ Len(begun) <= MaxBenchmarks
      /\ Len(benchmarks) >= MaxBenchmarks => begun = benchmarks
      /\ \A i \in 1 .. Len(begun) :
            \/ begun[i].start_time = t
            \/ i \in 1 .. Len(benchmarks) /\ begun[i] = benchmarks[i]
      /\ \A n : Entries(benchmarks, n) # {} =>
                   Entries(begun, n) # {} /\ Begun(begun, n) = Begun(benchmarks, n)
      /\ \A n : n # name /\ Entries(benchmarks, n) = {} => Entries(begun, n) = {}
  <2>1. begun = start_benchmark(benchmarks, name, t)
    BY <1>1
  <2> QED  BY <1>2, <1>3, <2>1, StartKeeps
<1>5. ASSUME NEW i \in 1 .. Len(begun) PROVE begun[i].start_time <= t
  <2>1. CASE begun[i].start_time = t
    BY <2>1
  <2>2. CASE i \in 1 .. Len(benchmarks) /\ begun[i] = benchmarks[i]
    <3>1. benchmarks[i].start_time \in Nat /\ benchmarks[i].start_time <= clock
      <4>1. benchmarks[i] \in Benchmark
        BY <1>3, <2>2
      <4> QED  BY <2>2, <4>1 DEF Room, Benchmark
    <3> QED  BY <1>3, <2>2, <3>1
  <2> QED  BY <1>4, <2>1, <2>2
<1>6. ASSUME NEW p \in 1 .. 2
      PROVE  /\ Entries(begun, Programs[p]) # {} <=> Entries(benchmarks, Programs[p]) # {}
             /\ Entries(benchmarks, Programs[p]) # {} =>
                   Begun(begun, Programs[p]) = Begun(benchmarks, Programs[p])
  BY <1>2, <1>4
<1>7. Full => Full'
  BY <1>1, <1>4 DEF Full
<1> QED  BY <1>1, <1>4, <1>5, <1>6, <1>7 DEF Has, FirstStart, Begun

LEMMA OtherBenchmarkInv == BenchInv /\ OtherBenchmark => BenchInv'
<1> SUFFICES ASSUME BenchInv, OtherBenchmark PROVE BenchInv'
  OBVIOUS
<1> BenchTypes /\ Room /\ Alike /\ VerdictRight
  BY DEF BenchInv
<1>1. /\ program = 0 /\ comparisons = 0
      /\ benchmarks' = start_benchmark(benchmarks, "other", clock)
      /\ UNCHANGED <<clock, program, run, times, verdict, comparisons, took>>
  BY DEF OtherBenchmark
<1>2. clock \in Nat /\ clock <= clock
  BY DEF BenchTypes
<1>3. /\ benchmarks' \in Seq(Benchmark) /\ Len(benchmarks') <= MaxBenchmarks
      /\ \A i \in 1 .. Len(benchmarks') : benchmarks'[i].start_time <= clock
      /\ Full => Full'
      /\ \A p \in 1 .. 2 : /\ Has(p)' <=> Has(p)
                           /\ Has(p) => FirstStart(p)' = FirstStart(p)
  BY <1>1, <1>2, OtherEntry
<1>4. BenchTypes'
  BY <1>1, <1>3 DEF BenchTypes
<1>5. \A p \in 1 .. 2 : ~Ran(p) /\ ~Ran(p)' /\ ~Has(p) /\ ~Has(p)'
  BY <1>1, <1>3 DEF Ran, Room
<1>6. Room'
  BY <1>1, <1>3, <1>5 DEF Room
<1>7. Alike'
  BY <1>5 DEF Alike
<1>8. VerdictRight'
  BY <1>1 DEF Room, VerdictRight
<1> QED  BY <1>4, <1>6, <1>7, <1>8 DEF BenchInv

LEMMA BeginComparisonInv ==
    ASSUME BenchInv, NEW pause \in {0} \cup RunTimes, BeginComparison(pause)
    PROVE  BenchInv'
<1> BenchTypes /\ Room /\ Alike /\ VerdictRight
  BY DEF BenchInv
<1>1. /\ program = 0 /\ comparisons' = comparisons + 1 /\ clock' = clock + pause
      /\ benchmarks' = start_benchmark(benchmarks, "sysfetch_total", clock')
      /\ program' = 1 /\ run' = 1 /\ times' = NoTimes /\ verdict' = Unset /\ took' = took
  BY DEF BeginComparison
<1>2. /\ clock \in Nat /\ pause \in Nat /\ clock' \in Nat /\ clock <= clock'
      /\ comparisons \in Nat /\ Runs \in Nat \ {0}
  BY <1>1, BenchmarksAssumption DEF BenchTypes
<1>3. /\ benchmarks' \in Seq(Benchmark) /\ Len(benchmarks') <= MaxBenchmarks
      /\ \A i \in 1 .. Len(benchmarks') : benchmarks'[i].start_time <= clock'
      /\ Full => Full'
      /\ \A p \in 1 .. 2 : /\ Has(p)' <=> Has(p)
                           /\ Has(p) => FirstStart(p)' = FirstStart(p)
  BY <1>1, <1>2, OtherEntry
<1>4. BenchTypes'
  <2>1. NoTimes \in [1 .. 2 -> [1 .. Runs -> Int]]
    BY DEF NoTimes, Unset
  <2> QED  BY <1>1, <1>2, <1>3, <2>1 DEF BenchTypes
<1>5. \A p \in 1 .. 2 : Ran(p)' <=> Ran(p)
  BY <1>1, <1>2 DEF Ran
<1>6. Room'
  BY <1>1, <1>2, <1>3, <1>5 DEF Room
<1>7. Alike'
  <2> SUFFICES ASSUME NEW d1 \in Nat, NEW d2 \in Nat, Only(d1, d2)', Has(1)'
               PROVE  Apart(d1)' /\ \E b \in Nat : Offset(b, d1, d2)'
    BY DEF Alike
  <2>1. Only(d1, d2) /\ Has(1)
    BY <1>1, <1>3 DEF Only
  <2>2. Apart(d1)'
    <3>1. Apart(d1)
      BY <2>1 DEF Alike
    <3> QED  BY <1>3, <2>1, <3>1 DEF Apart
  <2>3. Offset(0, d1, d2)'
    BY <1>1 DEF Offset
  <2> QED  BY <2>2, <2>3
<1>8. VerdictRight'
  BY <1>1 DEF VerdictRight
<1> QED  BY <1>4, <1>6, <1>7, <1>8 DEF BenchInv

(* A run of a program: what it does to the table and the durations.        *)
LEMMA RunTable ==
    ASSUME BenchTypes, Room, NEW d \in RunTimes, Run(d)
    PROVE  /\ program \in 1 .. 2
           /\ benchmarks' \in Seq(Benchmark) /\ Len(benchmarks') <= MaxBenchmarks
           /\ \A i \in 1 .. Len(benchmarks') : benchmarks'[i].start_time <= clock
           /\ Full => Full'
           /\ \A p \in 1 .. 2 : Has(p) => Has(p)' /\ FirstStart(p)' = FirstStart(p)
           /\ \A p \in 1 .. 2 : p # program \/ Full => (Has(p)' <=> Has(p))
           /\ ~Has(program) /\ ~Full =>
                 /\ Entries(benchmarks', Programs[program]) # {}
                 /\ Begun(benchmarks', Programs[program]) = clock
           /\ times' \in [1 .. 2 -> [1 .. Runs -> Int]]
           /\ \A p \in 1 .. 2, i \in 1 .. Runs :
                 times'[p][i] =
                    IF p = program /\ i = run /\ Entries(benchmarks', Programs[program]) # {}
                    THEN (clock + d) - Begun(benchmarks', Programs[program])
                    ELSE times[p][i]
<1>0. PICK name, end : name = Programs[program] /\ end = clock + d
  OBVIOUS
<1>1. program \in 1 .. 2
  BY DEF Run
<1>2. /\ name \in Names
      /\ \A p \in 1 .. 2 : p # program => Programs[p] # name
  BY <1>0, <1>1 DEF Names, Programs
<1>3. /\ benchmarks \in Seq(Benchmark) /\ Len(benchmarks) <= MaxBenchmarks /\ clock \in Nat
      /\ Len(benchmarks) \in Nat /\ MaxBenchmarks \in Nat /\ d \in Nat /\ end \in Nat
      /\ times \in [1 .. 2 -> [1 .. Runs -> Int]] /\ run \in 1 .. Runs
  BY <1>0, BenchmarksAssumption DEF BenchTypes
<1>4. PICK begun : begun = start_benchmark(benchmarks, name, clock)
  OBVIOUS
<1>5. PICK ended : ended = end_benchmark(begun, name, end)
  OBVIOUS
<1>6. /\ benchmarks' = ended
      /\ times' = IF Entries(ended, name) = {} THEN times
                  ELSE [times EXCEPT ![program][run] = ended[Min(Entries(ended, name))].duration]
  BY <1>0, <1>4, <1>5 DEF Run
<1>7. /\ begun \in Seq(Benchmark) /\ Len(begun) <= MaxBenchmarks
      /\ Len(benchmarks) >= MaxBenchmarks => begun = benchmarks
      /\ \A i \in 1 .. Len(begun) :
            \/ begun[i].start_time = clock
            \/ i \in 1 .. Len(benchmarks) /\ begun[i] = benchmarks[i]
      /\ \A n : Entries(benchmarks, n) # {} =>
                   Entries(begun, n) # {} /\ Begun(begun, n) = Begun(benchmarks, n)
      /\ \A n : n # name /\ Entries(benchmarks, n) = {} => Entries(begun, n) = {}
      /\ Entries(benchmarks, name) = {} /\ Len(benchmarks) < MaxBenchmarks =>
            Entries(begun, name) # {} /\ Begun(begun, name) = clock
  BY <1>2, <1>3, <1>4, StartKeeps
<1>8. /\ ended \in Seq(Benchmark) /\ Len(ended) = Len(begun)
      /\ \A i \in 1 .. Len(begun) : ended[i].start_time = begun[i].start_time
      /\ \A n : Entries(ended, n) = Entries(begun, n)
      /\ \A n : Entries(begun, n) # {} => Begun(ended, n) = Begun(begun, n)
      /\ Entries(begun, name) # {} =>
            ended[Min(Entries(ended, name))].duration = end - Begun(begun, name)
  BY <1>3, <1>5, <1>7, EndKeeps
<1>9. ASSUME NEW i \in 1 .. Len(begun) PROVE begun[i].start_time <= clock
  <2>1. CASE begun[i].start_time = clock
    BY <1>3, <2>1
  <2>2. CASE i \in 1 .. Len(benchmarks) /\ begun[i] = benchmarks[i]
    BY <2>2 DEF Room
  <2> QED  BY <1>7, <2>1, <2>2
<1>10. Full => Full' /\ begun = benchmarks
  BY <1>6, <1>7, <1>8 DEF Full
<1>11. /\ \A p \in 1 .. 2 : Has(p) => Has(p)' /\ FirstStart(p)' = FirstStart(p)
       /\ \A p \in 1 .. 2 : p # program \/ Full => (Has(p)' <=> Has(p))
  <2>1. ASSUME NEW n, Entries(benchmarks, n) # {}
        PROVE  Entries(ended, n) # {} /\ Begun(ended, n) = Begun(benchmarks, n)
    BY <1>7, <1>8, <2>1
  <2>2. ASSUME NEW n, n # name \/ Full, Entries(ended, n) # {}
        PROVE  Entries(benchmarks, n) # {}
    BY <1>7, <1>8, <1>10, <2>2
  <2>3. \A p \in 1 .. 2 : p # program => Programs[p] # name
    BY <1>2
  <2> QED  BY <1>6, <2>1, <2>2, <2>3 DEF Has, FirstStart, Begun
<1>12. ASSUME Entries(benchmarks, name) = {}, ~Full
       PROVE  Entries(ended, name) # {} /\ Begun(ended, name) = clock
  <2>1. Len(benchmarks) < MaxBenchmarks
    BY <1>3, <1>12 DEF Full
  <2> QED  BY <1>7, <1>8, <1>12, <2>1
<1>13. /\ times' \in [1 .. 2 -> [1 .. Runs -> Int]]
       /\ \A p \in 1 .. 2, i \in 1 .. Runs :
             times'[p][i] = IF p = program /\ i = run /\ Entries(ended, name) # {}
                            THEN end - Begun(ended, name) ELSE times[p][i]
  <2>1. CASE Entries(ended, name) = {}
    BY <1>3, <1>6, <2>1
  <2>2. CASE Entries(ended, name) # {}
    <3>1. end - Begun(ended, name) \in Int
      <4>1. Min(Entries(ended, name)) \in 1 .. Len(ended)
        BY <1>8, <2>2, FirstEntry
      <4>2. ended[Min(Entries(ended, name))] \in Benchmark
        BY <1>8, <4>1
      <4> QED  BY <1>3, <4>2 DEF Begun, Benchmark
    <3>2. times' = [times EXCEPT ![program][run] = end - Begun(ended, name)]
      BY <1>6, <1>8, <2>2
    <3> QED  BY <1>1, <1>3, <2>2, <3>1, <3>2
  <2> QED  BY <2>1, <2>2
<1>14. Len(benchmarks') <= MaxBenchmarks
       /\ \A i \in 1 .. Len(benchmarks') : benchmarks'[i].start_time <= clock
  BY <1>6, <1>7, <1>8, <1>9
<1>15. ~Has(program) /\ ~Full =>
          /\ Entries(benchmarks', Programs[program]) # {}
          /\ Begun(benchmarks', Programs[program]) = clock
  BY <1>0, <1>6, <1>12 DEF Has
<1>16. \A p \in 1 .. 2, i \in 1 .. Runs :
          times'[p][i] =
             IF p = program /\ i = run /\ Entries(benchmarks', Programs[program]) # {}
             THEN (clock + d) - Begun(benchmarks', Programs[program])
             ELSE times[p][i]
  <2>1. /\ Entries(benchmarks', Programs[program]) = Entries(ended, name)
        /\ Begun(benchmarks', Programs[program]) = Begun(ended, name)
        /\ clock + d = end
    BY <1>0, <1>6
  <2> TAKE p \in 1 .. 2, i \in 1 .. Runs
  <2>2. CASE p = program /\ i = run /\ Entries(ended, name) # {}
    <3>1. times'[p][i] = end - Begun(ended, name)
      BY <1>13, <2>2
    <3> QED  BY <2>1, <2>2, <3>1
  <2>3. CASE ~(p = program /\ i = run /\ Entries(ended, name) # {})
    <3>1. times'[p][i] = times[p][i]
      BY <1>13, <2>3
    <3> QED  BY <2>1, <2>3, <3>1
  <2> QED  BY <2>2, <2>3
<1>17. benchmarks' \in Seq(Benchmark) /\ times' \in [1 .. 2 -> [1 .. Runs -> Int]]
  BY <1>6, <1>8, <1>13
<1> QED  BY <1>1, <1>10, <1>11, <1>14, <1>15, <1>16, <1>17

LEMMA OneMore ==
    ASSUME NEW i \in Nat \ {0}, NEW d \in Nat
    PROVE  /\ i * d \in Nat /\ (i - 1) * d \in Nat
           /\ i * d = (i - 1) * d + d
  OBVIOUS

(* The durations of program p that a run at the right time leaves behind.  *)
LEMMA LinearStep ==
    ASSUME BenchTypes, Room, NEW d \in RunTimes, Run(d), NEW b \in Nat, d \in Nat,
           Linear(program, run - 1, b, d), NEW start \in Nat,
           Entries(benchmarks', Programs[program]) # {},
           Begun(benchmarks', Programs[program]) = start,
           clock = start + b + (run - 1) * d
    PROVE  /\ \A i \in 1 .. run : times'[program][i] = b + i * d
           /\ clock' = start + b + run * d
<1>1. /\ run \in 1 .. Runs /\ Runs \in Nat /\ clock \in Nat /\ clock' = clock + d
      /\ program \in 1 .. 2
  BY BenchmarksAssumption DEF BenchTypes, Run
<1>2. run * d \in Nat /\ (run - 1) * d \in Nat /\ run * d = (run - 1) * d + d
  BY <1>1, OneMore
<1>3. clock' = start + b + run * d
  BY <1>1, <1>2
<1>4. (clock + d) - start = b + run * d
  BY <1>1, <1>2
<1>5. \A i \in 1 .. Runs :
         times'[program][i] = IF i = run THEN (clock + d) - start ELSE times[program][i]
  BY <1>1, RunTable
<1>6. ASSUME NEW i \in 1 .. run PROVE times'[program][i] = b + i * d
  <2>1. i \in 1 .. Runs /\ (i # run => i \in 1 .. run - 1)
    BY <1>1
  <2>2. CASE i = run
    BY <1>4, <1>5, <2>1, <2>2
  <2>3. CASE i # run
    BY <1>5, <2>1, <2>3 DEF Linear
  <2> QED  BY <2>2, <2>3
<1> QED  BY <1>3, <1>6

LEMMA RunAlike ==
    ASSUME BenchInv, NEW d \in RunTimes, Run(d), Room'
    PROVE  Alike'
<1> BenchTypes /\ Room /\ Alike /\ VerdictRight
  BY DEF BenchInv
<1> SUFFICES ASSUME NEW d1 \in Nat, NEW d2 \in Nat, Only(d1, d2)', Has(1)'
             PROVE  Apart(d1)' /\ \E b \in Nat : Offset(b, d1, d2)'
  BY DEF Alike
<1>1. /\ program \in 1 .. 2
      /\ \A p \in 1 .. 2 : Has(p) => Has(p)' /\ FirstStart(p)' = FirstStart(p)
      /\ \A p \in 1 .. 2 : p # program \/ Full => (Has(p)' <=> Has(p))
      /\ ~Has(program) /\ ~Full =>
            /\ Entries(benchmarks', Programs[program]) # {}
            /\ Begun(benchmarks', Programs[program]) = clock
      /\ \A p \in 1 .. 2, i \in 1 .. Runs : p # program => times'[p][i] = times[p][i]
  BY RunTable
<1>2. /\ took' = [took EXCEPT ![program] = took[program] \cup {d}]
      /\ run' = IF run = Runs THEN 1 ELSE run + 1
      /\ program' = IF run = Runs THEN program + 1 ELSE program
      /\ comparisons' = comparisons
  BY DEF Run
<1>3. took[1] \in SUBSET RunTimes /\ took[2] \in SUBSET RunTimes /\ DOMAIN took = 1 .. 2
  BY DEF BenchTypes
<1>4. Only(d1, d2) /\ d = IF program = 1 THEN d1 ELSE d2
  <2>1. /\ took'[program] = took[program] \cup {d}
        /\ \A p \in 1 .. 2 : p # program => took'[p] = took[p]
    BY <1>1, <1>2, <1>3
  <2>2. took'[1] \subseteq {d1} /\ took'[2] \subseteq {d2}
    BY DEF Only
  <2>3. CASE program = 1
    BY <2>1, <2>2, <2>3 DEF Only
  <2>4. CASE program = 2
    BY <2>1, <2>2, <2>4 DEF Only
  <2> QED  BY <1>1, <2>3, <2>4
<1>5. /\ run \in 1 .. Runs /\ Runs \in Nat \ {0} /\ clock \in Nat /\ comparisons \in Nat
      /\ benchmarks \in Seq(Benchmark)
  BY BenchmarksAssumption DEF BenchTypes
<1>6. \A p \in 1 .. 2 : Has(p) => FirstStart(p) \in Nat /\ FirstStart(p) <= clock
  <2> SUFFICES ASSUME NEW p \in 1 .. 2, Has(p)
               PROVE  FirstStart(p) \in Nat /\ FirstStart(p) <= clock
    OBVIOUS
  <2>1. Min(Entries(benchmarks, Programs[p])) \in 1 .. Len(benchmarks)
    BY <1>5, FirstEntry DEF Has
  <2>2. benchmarks[Min(Entries(benchmarks, Programs[p]))] \in Benchmark
    BY <1>5, <2>1
  <2> QED  BY <2>1, <2>2 DEF FirstStart, Begun, Benchmark, Room
<1>7. \A p \in 1 .. 2 :
         /\ Has(p)' <=> Entries(benchmarks', Programs[p]) # {}
         /\ FirstStart(p)' = Begun(benchmarks', Programs[p])
  BY DEF Has, FirstStart, Begun
<1>8. ASSUME NEW p \in 1 .. 2, p = program, Has(p)', ~Has(p)
      PROVE  comparisons = 1 /\ run = 1 /\ FirstStart(p)' = clock
  <2>1. ~Full
    BY <1>1, <1>8
  <2>2. ~Ran(p)
    BY <1>8, <2>1 DEF Room
  <2>3. comparisons > 0
    BY <1>1 DEF Room
  <2>4. FirstStart(p)' = clock
    BY <1>1, <1>7, <1>8, <2>1
  <2> QED  BY <1>1, <1>5, <1>8, <2>2, <2>3, <2>4 DEF Ran
<1>9. CASE program = 1
  <2>1. Apart(d1)'
    <3> SUFFICES ASSUME Has(2)' PROVE FirstStart(2)' = FirstStart(1)' + Runs * d1
      BY DEF Apart
    <3>1. Has(2) /\ Has(1)
      BY <1>1, <1>9 DEF Room
    <3> QED  BY <1>1, <1>4, <3>1 DEF Alike, Apart
  <2>2. PICK start \in Nat : start = Begun(benchmarks', Programs[1])
    BY <1>1, <1>5, <1>6, <1>7, <1>8, <1>9
  <2>3. PICK b \in Nat : /\ comparisons = 1 => b = 0
                         /\ Linear(1, run - 1, b, d1)
                         /\ clock = start + b + (run - 1) * d1
    <3>1. CASE ~Has(1)
      <4>1. run = 1 /\ start = clock
        BY <1>1, <1>7, <1>8, <1>9, <2>2, <3>1
      <4>2. Linear(1, run - 1, 0, d1)
        BY <1>5, <4>1 DEF Linear
      <4>3. clock = start + 0 + (run - 1) * d1
        BY <1>5, <4>1
      <4> QED  BY <4>2, <4>3
    <3>2. CASE Has(1) /\ run = 1
      <4>1. start = FirstStart(1) /\ clock - start \in Nat
        BY <1>1, <1>5, <1>6, <1>7, <2>2, <3>2
      <4>2. comparisons > 1
        <5>1. Ran(1)
          BY <3>2 DEF Room
        <5> QED  BY <1>5, <1>9, <3>2, <5>1 DEF Ran
      <4>3. Linear(1, run - 1, clock - start, d1)
        BY <1>5, <3>2 DEF Linear
      <4>4. clock = start + (clock - start) + (run - 1) * d1
        BY <1>5, <2>2, <3>2
      <4> QED  BY <1>5, <4>1, <4>2, <4>3, <4>4
    <3>3. CASE Has(1) /\ run # 1
      <4>1. run > 1 /\ start = FirstStart(1)
        BY <1>1, <1>5, <1>7, <2>2, <3>3
      <4>2. PICK b \in Nat : Offset(b, d1, d2)
        BY <1>4, <3>3 DEF Alike
      <4> QED  BY <1>9, <4>1, <4>2 DEF Offset
    <3> QED  BY <3>1, <3>2, <3>3
  <2>4. /\ \A i \in 1 .. run : times'[1][i] = b + i * d1
        /\ clock' = start + b + run * d1
    BY <1>4, <1>7, <1>9, <2>2, <2>3, LinearStep
  <2>5. FirstStart(1)' = start
    BY <1>7, <2>2
  <2>6. CASE run # Runs
    <3>1. program' = 1 /\ run' = run + 1 /\ run' - 1 = run
      BY <1>2, <1>5, <1>9, <2>6
    <3>2. Linear(1, run - 1, b, d1)'
      BY <2>4, <3>1 DEF Linear
    <3>3. clock' = FirstStart(1)' + b + (run' - 1) * d1
      BY <2>4, <2>5, <3>1
    <3> QED  BY <1>2, <2>1, <2>3, <3>1, <3>2, <3>3 DEF Offset
  <2>7. CASE run = Runs
    <3>1. program' = 2 /\ run' = 1 /\ run' - 1 = 0
      BY <1>2, <1>9, <2>7
    <3>2. 0 * d2 = 0
      OBVIOUS
    <3>3. clock' = start + b + Runs * d1 + 0
      BY <1>5, <2>2, <2>3, <2>4, <2>7, OneMore
    <3>4. Linear(1, Runs, b, d1)'
      BY <2>4, <2>7 DEF Linear
    <3>5. Linear(2, run - 1, b, d2)'
      BY <3>1 DEF Linear
    <3> QED  BY <1>2, <2>1, <2>3, <2>5, <3>1, <3>2, <3>3, <3>4, <3>5 DEF Offset
  <2> QED  BY <2>6, <2>7
<1>10. CASE program = 2
  <2>1. Has(1) /\ FirstStart(1)' = FirstStart(1)
    BY <1>1, <1>10
  <2>2. Apart(d1) /\ \E b \in Nat : Offset(b, d1, d2)
    BY <1>4, <2>1 DEF Alike
  <2>3. PICK b \in Nat : Offset(b, d1, d2)
    BY <2>2
  <2>4. /\ comparisons = 1 => b = 0
        /\ Linear(1, Runs, b, d1) /\ (Has(2) => Linear(2, run - 1, b, d2))
        /\ clock = FirstStart(1) + b + Runs * d1 + (run - 1) * d2
    BY <1>10, <2>3 DEF Offset
  <2>5. FirstStart(1) \in Nat /\ Runs * d1 \in Nat /\ run * d2 \in Nat /\ (run - 1) * d2 \in Nat
    BY <1>5, <1>6, <2>1, OneMore
  <2>6. Has(2)' => FirstStart(2)' = FirstStart(1) + Runs * d1 /\ Linear(2, run - 1, b, d2)
    <3>1. CASE Has(2)
      BY <1>1, <2>1, <2>2, <2>4, <3>1 DEF Apart
    <3>2. CASE Has(2)' /\ ~Has(2)
      <4>1. run = 1 /\ b = 0 /\ FirstStart(2)' = clock
        BY <1>1, <1>7, <1>8, <1>10, <2>4, <3>2
      <4>2. (run - 1) * d2 = 0
        BY <4>1
      <4>3. Linear(2, run - 1, b, d2)
        BY <4>1 DEF Linear
      <4> QED  BY <1>5, <2>4, <2>5, <4>1, <4>2, <4>3
    <3> QED  BY <3>1, <3>2
  <2>7. Apart(d1)'
    BY <2>1, <2>6 DEF Apart
  <2>8. /\ clock' = FirstStart(1) + b + Runs * d1 + run * d2
        /\ Has(2)' => \A i \in 1 .. run : times'[2][i] = b + i * d2
    <3>1. run * d2 = (run - 1) * d2 + d2 /\ clock' = clock + d /\ d = d2
      BY <1>4, <1>5, <1>10, OneMore DEF Run
    <3>2. clock' = FirstStart(1) + b + Runs * d1 + run * d2
      BY <1>5, <2>4, <2>5, <3>1
    <3>3. ASSUME Has(2)' PROVE \A i \in 1 .. run : times'[2][i] = b + i * d2
      <4>1. PICK start \in Nat : start = FirstStart(1) + Runs * d1
        BY <2>5
      <4>2. Begun(benchmarks', Programs[2]) = start
        BY <1>7, <2>6, <3>3, <4>1
      <4>3. clock = start + b + (run - 1) * d2
        BY <2>4, <2>5, <4>1
      <4> QED  BY <1>4, <1>7, <1>10, <2>6, <3>3, <4>2, <4>3, LinearStep
    <3> QED  BY <3>2, <3>3
  <2>9. Linear(1, Runs, b, d1)'
    BY <1>1, <1>10, <2>4 DEF Linear
  <2>10. CASE run # Runs
    <3>1. program' = 2 /\ run' = run + 1 /\ run' - 1 = run
      BY <1>2, <1>5, <1>10, <2>10
    <3>2. Has(2)' => Linear(2, run - 1, b, d2)'
      BY <2>8, <3>1 DEF Linear
    <3> QED  BY <1>2, <2>1, <2>4, <2>7, <2>8, <2>9, <3>1, <3>2 DEF Offset
  <2>11. CASE run = Runs
    <3>1. program' = 3
      BY <1>2, <1>10, <2>11
    <3>2. Has(2)' => Linear(2, Runs, b, d2)'
      BY <2>8, <2>11 DEF Linear
    <3> QED  BY <1>2, <2>4, <2>7, <2>9, <3>1, <3>2 DEF Offset
  <2> QED  BY <2>10, <2>11
<1> QED  BY <1>1, <1>9, <1>10

LEMMA RunInv == ASSUME BenchInv, NEW d \in RunTimes, Run(d) PROVE BenchInv'
<1> BenchTypes /\ Room /\ Alike /\ VerdictRight
  BY DEF BenchInv
<1>1. /\ program \in 1 .. 2
      /\ benchmarks' \in Seq(Benchmark) /\ Len(benchmarks') <= MaxBenchmarks
      /\ \A i \in 1 .. Len(benchmarks') : benchmarks'[i].start_time <= clock
      /\ Full => Full'
      /\ \A p \in 1 .. 2 : Has(p) => Has(p)'
      /\ \A p \in 1 .. 2 : p # program \/ Full => (Has(p)' <=> Has(p))
      /\ ~Has(program) /\ ~Full => Entries(benchmarks', Programs[program]) # {}
      /\ times' \in [1 .. 2 -> [1 .. Runs -> Int]]
  BY RunTable
<1>2. /\ took' = [took EXCEPT ![program] = took[program] \cup {d}]
      /\ run' = IF run = Runs THEN 1 ELSE run + 1
      /\ program' = IF run = Runs THEN program + 1 ELSE program
      /\ clock' = clock + d /\ UNCHANGED <<verdict, comparisons>>
  BY DEF Run
<1>3. /\ run \in 1 .. Runs /\ Runs \in Nat \ {0} /\ clock \in Nat /\ d \in Nat
      /\ comparisons \in Nat /\ RunTimes \subseteq Nat
      /\ took \in [1 .. 2 -> SUBSET RunTimes] /\ \A p \in 1 .. 2 : IsFiniteSet(took[p])
  BY BenchmarksAssumption DEF BenchTypes
<1>4. BenchTypes'
  <2>1. took' \in [1 .. 2 -> SUBSET RunTimes]
    BY <1>1, <1>2, <1>3
  <2>2. ASSUME NEW p \in 1 .. 2 PROVE IsFiniteSet(took'[p])
    <3>1. took'[p] \in {took[p], took[p] \cup {d}}
      BY <1>1, <1>2, <1>3
    <3>2. IsFiniteSet(took[p])
      BY <1>3
    <3>3. IsFiniteSet(took[p] \cup {d})
      BY <3>2, FS_AddElement
    <3> QED  BY <3>1, <3>2, <3>3
  <2>3. run' \in 1 .. Runs /\ program' \in 0 .. 3 /\ clock' \in Nat
    BY <1>1, <1>2, <1>3
  <2> QED  BY <1>1, <1>2, <2>1, <2>2, <2>3 DEF BenchTypes
<1>5. /\ comparisons > 0 /\ verdict = Unset
      /\ \A p \in 1 .. 2 : (Ran(p) => Has(p) \/ Full) /\ (Has(p) => Ran(p))
      /\ Has(2) => Has(1)
  BY <1>1 DEF Room
<1>6. Room'
  <2>1. \A i \in 1 .. Len(benchmarks') : benchmarks'[i].start_time <= clock'
    <3> TAKE i \in 1 .. Len(benchmarks')
    <3>1. benchmarks'[i] \in Benchmark /\ benchmarks'[i].start_time <= clock
      BY <1>1
    <3> QED  BY <1>2, <1>3, <3>1 DEF Benchmark
  <2>2. ASSUME NEW p \in 1 .. 2
        PROVE  Ran(p)' <=> Ran(p) \/ p = program
    BY <1>1, <1>2, <1>3, <1>5 DEF Ran
  <2>3. ASSUME NEW p \in 1 .. 2
        PROVE  (Ran(p)' => Has(p)' \/ Full') /\ (Has(p)' => Ran(p)')
    <3>1. p = program /\ ~Has(p) /\ ~Full => Has(p)'
      BY <1>1 DEF Has
    <3> QED  BY <1>1, <1>5, <2>2, <3>1
  <2>4. Has(2)' => Has(1)'
    <3>1. CASE Has(2)
      BY <1>1, <1>5, <3>1
    <3>2. CASE ~Has(2) /\ Has(2)'
      <4>1. program = 2 /\ ~Full
        BY <1>1, <3>2
      <4>2. Ran(1)
        BY <1>3, <1>5, <4>1 DEF Ran
      <4> QED  BY <1>1, <1>5, <4>1, <4>2
    <3> QED  BY <3>1, <3>2
  <2>5. program' = 3 => run' = 1
    BY <1>1, <1>2
  <2> QED  BY <1>2, <1>5, <2>1, <2>3, <2>4, <2>5 DEF Room
<1>7. Alike'
  BY <1>6, RunAlike
<1>8. VerdictRight'
  BY <1>2, <1>5 DEF VerdictRight
<1> QED  BY <1>4, <1>6, <1>7, <1>8 DEF BenchInv

(* A program all of whose runs took the same time.                         *)
LEMMA ConstantTime ==
    ASSUME BenchTypes, NEW p \in 1 .. 2, Constant(p)
    PROVE  \E d \in Nat : took[p] = {d} /\ Max(took[p]) = d
<1>1. took[p] \in SUBSET Nat /\ IsFiniteSet(took[p])
  BY BenchmarksAssumption DEF BenchTypes
<1>2. PICK d : took[p] = {d}
  BY <1>1, FS_Singleton DEF Constant
<1>3. d \in Nat
  BY <1>1, <1>2
<1>4. Max({d}) = d
  BY <1>3 DEF Max
<1> QED  BY <1>2, <1>3, <1>4

LEMMA EndComparisonInv ==
    ASSUME BenchInv, NEW guess \in {0, 1}, EndComparison(guess)
    PROVE  BenchInv'
<1> BenchTypes /\ Room /\ Alike /\ VerdictRight
  BY DEF BenchInv
<1>1. /\ program = 3 /\ program' = 0
      /\ UNCHANGED <<benchmarks, clock, run, times, comparisons, took>>
  BY DEF EndComparison
<1>2. verdict' = IF \E p \in 1 .. 2 : \E i \in 1 .. Runs : times[p][i] = Unset
                 THEN guess
                 ELSE IF Total(times[1]) < Total(times[2]) THEN 1 ELSE 0
  BY DEF EndComparison
<1>3. comparisons > 0 /\ run = 1 /\ comparisons \in Nat
  BY <1>1 DEF Room, BenchTypes
<1>4. BenchTypes'
  BY <1>1, <1>2 DEF BenchTypes
<1>5. \A p \in 1 .. 2 : (Has(p)' <=> Has(p)) /\ (Ran(p)' <=> Ran(p))
  BY <1>1, <1>3 DEF Has, Ran
<1>6. Room'
  BY <1>1, <1>3, <1>5 DEF Room, Full
<1>7. Alike'
  <2> SUFFICES ASSUME NEW d1 \in Nat, NEW d2 \in Nat, Only(d1, d2)', Has(1)'
               PROVE  Apart(d1)' /\ \E b \in Nat : Offset(b, d1, d2)'
    BY DEF Alike
  <2>1. PICK b \in Nat : Offset(b, d1, d2)
    BY <1>1, <1>5 DEF Alike, Only
  <2>2. Offset(b, d1, d2)'
    BY <1>1, <2>1 DEF Offset
  <2>3. Apart(d1)
    BY <1>1, <1>5 DEF Alike, Only
  <2> QED  BY <1>1, <1>5, <2>2, <2>3 DEF Apart, FirstStart, Begun
<1>8. VerdictRight'
  <2> SUFFICES ASSUME HadRoom, Constant(1), Constant(2)
               PROVE  verdict' = 1 <=> Max(took[1]) < Max(took[2])
    BY <1>1 DEF VerdictRight, HadRoom, Constant
  <2>1. PICK d1 \in Nat : took[1] = {d1} /\ Max(took[1]) = d1
    BY ConstantTime
  <2>2. PICK d2 \in Nat : took[2] = {d2} /\ Max(took[2]) = d2
    BY ConstantTime
  <2>3. Only(d1, d2) /\ Has(1) /\ Has(2)
    BY <2>1, <2>2 DEF Only, HadRoom, Has
  <2>4. PICK b \in Nat : Offset(b, d1, d2)
    BY <2>3 DEF Alike
  <2>5. Linear(1, Runs, b, d1) /\ Linear(2, Runs, b, d2)
    BY <1>1, <2>3, <2>4 DEF Offset
  <2>6. ASSUME NEW p \in 1 .. 2, NEW i \in 1 .. Runs PROVE times[p][i] # Unset
    <3>1. i \in Nat \ {0}
      BY BenchmarksAssumption
    <3>2. i * d1 \in Nat /\ i * d2 \in Nat
      BY <3>1, ProductLess
    <3>3. times[p][i] \in {b + i * d1, b + i * d2}
      BY <2>5 DEF Linear
    <3> QED  BY <3>2, <3>3 DEF Unset
  <2>7. Total(times[1]) < Total(times[2]) <=> d1 < d2
    BY <2>5, LinearCompare
  <2> QED  BY <1>2, <2>1, <2>2, <2>6, <2>7
<1> QED  BY <1>4, <1>6, <1>7, <1>8 DEF BenchInv

LEMMA BenchStepInv == BenchInv /\ [BenchNext]_bench_vars => BenchInv'
<1> SUFFICES ASSUME BenchInv, [BenchNext]_bench_vars PROVE BenchInv'
  OBVIOUS
<1>1. CASE UNCHANGED bench_vars
  <2> BenchTypes /\ Room /\ Alike /\ VerdictRight
    BY DEF BenchInv
  <2>1. UNCHANGED <<benchmarks, clock, program, run, times, verdict, comparisons, took>>
    BY <1>1 DEF bench_vars
  <2>2. BenchTypes' /\ Room' /\ VerdictRight'
    BY <2>1 DEF BenchTypes, Room, Ran, Has, Full, VerdictRight, HadRoom, Constant
  <2>3. Alike'
    <3> SUFFICES ASSUME NEW d1 \in Nat, NEW d2 \in Nat, Only(d1, d2)', Has(1)'
                 PROVE  Apart(d1)' /\ \E b \in Nat : Offset(b, d1, d2)'
      BY DEF Alike
    <3>1. Apart(d1) /\ \E b \in Nat : Offset(b, d1, d2)
      BY <2>1 DEF Alike, Only, Has
    <3>2. Apart(d1)'
      BY <2>1, <3>1 DEF Apart, Has, FirstStart, Begun
    <3>3. PICK b \in Nat : Offset(b, d1, d2)
      BY <3>1
    <3>4. Offset(b, d1, d2)'
      BY <2>1, <3>3 DEF Offset, Linear, Has, FirstStart, Begun
    <3> QED  BY <3>2, <3>4
  <2> QED  BY <2>2, <2>3 DEF BenchInv
<1>2. CASE OtherBenchmark
  BY <1>2, OtherBenchmarkInv
<1>3. CASE \E pause \in {0} \cup RunTimes : BeginComparison(pause)
  BY <1>3, BeginComparisonInv
<1>4. CASE \E d \in RunTimes : Run(d)
  BY <1>4, RunInv
<1>5. CASE \E guess \in {0, 1} : EndComparison(guess)
  BY <1>5, EndComparisonInv
<1> QED  BY <1>1, <1>2, <1>3, <1>4, <1>5 DEF BenchNext

LEMMA BenchTyped == BenchInv => BenchTypeOK
  BY DEF BenchInv, BenchTypes, BenchTypeOK

-----------------------------------------------------------------------------
(* The theorems.                                                           *)

MeasurementsInv == RatesInv /\ SamplingInv /\ BenchInv

LEMMA InitMeasures == Init => MeasurementsInv
  BY RatesInitInv, SamplingInitInv, BenchInitInv DEF Init, MeasurementsInv

LEMMA NextMeasures == MeasurementsInv /\ [Next]_vars => MeasurementsInv'
<1> SUFFICES ASSUME MeasurementsInv, [Next]_vars PROVE MeasurementsInv'
  OBVIOUS
<1>1. /\ [RatesNext]_rates_vars /\ [SamplingNext]_sampling_vars /\ [BenchNext]_bench_vars
  BY DEF Next, vars
<1> QED  BY <1>1, RatesStepInv, SamplingStepInv, BenchStepInv DEF MeasurementsInv

(* What is kept of the counters, the ring buffers and the table of         *)
(* benchmarks in every state of every part.                                *)
THEOREM MeasurementsInvariance == Spec => []MeasurementsInv
  BY InitMeasures, NextMeasures, PTL DEF Spec

(* The counters, positions and indices of get_processes, the performance   *)
(* functions, get_cpu_info, get_mem_info and the benchmarks keep to their  *)
(* types and arrays.                                                       *)
THEOREM TypeCorrect == Spec => []TypeOK
<1>1. MeasurementsInv => TypeOK
  BY SamplingTyped, BenchTyped DEF MeasurementsInv, RatesInv, RatesTypes, TypeOK
<1> QED  BY <1>1, MeasurementsInvariance, PTL

(* A rate is an object's own growth over its own time as long as the       *)
(* listing does not move it (get_processes, get_io_performance,            *)
(* get_network_performance, get_memory_performance).                       *)
THEOREM RatesAreOwn == Spec => []OwnRate
<1>1. MeasurementsInv => OwnRate
  BY DEF MeasurementsInv, RatesInv
<1> QED  BY <1>1, MeasurementsInvariance, PTL

(* The columns of draw_cpu_graph and draw_mem_graph are the last samples   *)
(* of update_history in their order, for every length of the ring buffer   *)
(* and every narrower graph.                                               *)
THEOREM GraphsOrdered == Spec => []GraphsInOrder
<1>1. MeasurementsInv => GraphsInOrder
  BY ColumnsInOrder DEF MeasurementsInv
<1> QED  BY <1>1, MeasurementsInvariance, PTL

(* get_cpu_info and get_mem_info compute percentages, whatever CPUs come   *)
(* and go, as long as no CPU needs the row that is not there.              *)
THEOREM UsageIsPercentage == Spec => []UsageInRange
<1>1. MeasurementsInv => UsageInRange
  BY DEF MeasurementsInv, SamplingInv
<1> QED  BY <1>1, MeasurementsInvariance, PTL

(* compare_with_fastfetch ranks two programs with steady run times right,  *)
(* for every number of runs, in the first and in repeated comparisons,     *)
(* although end_benchmark adds earlier runs to every duration.             *)
THEOREM VerdictsRight == Spec => []VerdictRight
<1>1. MeasurementsInv => VerdictRight
  BY DEF MeasurementsInv, BenchInv
<1> QED  BY <1>1, MeasurementsInvariance, PTL

=============================================================================
