--------------------------- MODULE HostLayoutProofs ---------------------------
(* Proofs about HostLayout, for every machine and every number of cores. *)
EXTENDS HostLayout, TLAPS

\* Two indices give the same core only if both are past the end.
LEMMA CoreAtInjective ==
    ASSUME NEW i \in Nat, NEW j \in Nat, i # j, CoreAt(i) = CoreAt(j)
    PROVE  CoreAt(i) = NoCore
<1>1. CASE Len(Numa) > 1
  <2>1. /\ (i % 2) + 1 \in {1, 2} /\ (j % 2) + 1 \in {1, 2}
        /\ i \div 2 \in Nat /\ j \div 2 \in Nat
        /\ (i % 2) + 1 = (j % 2) + 1 => i \div 2 # j \div 2
    OBVIOUS
  <2> DEFINE a == (i % 2) + 1
             b == (j % 2) + 1
             p == i \div 2
             q == j \div 2
  <2>2. a \in DOMAIN Numa /\ b \in DOMAIN Numa
    BY <1>1, <2>1, NumaAssumption
  <2>3. Numa[a] \in Seq(Nat \ {0}) /\ Numa[b] \in Seq(Nat \ {0})
    BY <2>2, NumaAssumption
  <2>4. CoreAt(i) = Entry(Numa[a], p) /\ CoreAt(j) = Entry(Numa[b], q)
    BY <1>1 DEF CoreAt
  <2>5. a = b => p # q
    BY <2>1
  <2>6. p \in Nat /\ q \in Nat
    BY <2>1
  <2> HIDE DEF a, b, p, q
  <2>7. CASE p < Len(Numa[a]) /\ q < Len(Numa[b])
    <3>1. p + 1 \in DOMAIN Numa[a] /\ q + 1 \in DOMAIN Numa[b]
      BY <2>3, <2>6, <2>7
    <3>2. Numa[a][p + 1] = Numa[b][q + 1]
      BY <2>4, <2>7 DEF Entry
    <3>3. a = b /\ p + 1 = q + 1
      BY <2>2, <3>1, <3>2, NumaAssumption
    <3>4. QED
      BY <2>5, <2>6, <3>3
  <2>8. CASE ~(p < Len(Numa[a])) \/ ~(q < Len(Numa[b]))
    <3>1. CoreAt(i) = NoCore \/ CoreAt(j) = NoCore
      BY <2>4, <2>8 DEF Entry
    <3>2. QED
      BY <3>1
  <2>9. QED
    BY <2>7, <2>8
<1>2. CASE ~(Len(Numa) > 1)
  <2>1. 1 \in DOMAIN Numa /\ Numa[1] \in Seq(Nat \ {0})
    BY NumaAssumption
  <2>2. CoreAt(i) = Entry(Numa[1], i) /\ CoreAt(j) = Entry(Numa[1], j)
    BY <1>2 DEF CoreAt
  <2>3. CASE i < Len(Numa[1]) /\ j < Len(Numa[1])
    <3>1. i + 1 \in DOMAIN Numa[1] /\ j + 1 \in DOMAIN Numa[1]
      BY <2>1, <2>3
    <3>2. Numa[1][i + 1] = Numa[1][j + 1]
      BY <2>2, <2>3 DEF Entry
    <3>3. i + 1 = j + 1
      BY <2>1, <3>1, <3>2, NumaAssumption
    <3>4. QED
      BY <3>3
  <2>4. CASE ~(i < Len(Numa[1])) \/ ~(j < Len(Numa[1]))
    BY <2>2, <2>4 DEF Entry
  <2>5. QED
    BY <2>3, <2>4
<1>3. QED
  BY <1>1, <1>2

\* Core 0 is never handed out.
LEMMA CoreAtNotZero ==
    ASSUME NEW i \in Nat
    PROVE  CoreAt(i) # 0
<1>1. CASE Len(Numa) > 1
  <2>1. (i % 2) + 1 \in DOMAIN Numa /\ i \div 2 \in Nat
    BY <1>1, NumaAssumption
  <2>2. Numa[(i % 2) + 1] \in Seq(Nat \ {0})
    BY <2>1, NumaAssumption
  <2>3. CoreAt(i) = Entry(Numa[(i % 2) + 1], i \div 2)
    BY <1>1 DEF CoreAt
  <2>4. QED
    BY <2>1, <2>2, <2>3 DEF Entry, NoCore
<1>2. CASE ~(Len(Numa) > 1)
  <2>1. Numa[1] \in Seq(Nat \ {0})
    BY NumaAssumption
  <2>2. CoreAt(i) = Entry(Numa[1], i)
    BY <1>2 DEF CoreAt
  <2>3. QED
    BY <2>1, <2>2 DEF Entry, NoCore
<1>3. QED
  BY <1>1, <1>2

\* The ranges of core indices of two containers do not meet.
LEMMA IndicesApart ==
    ASSUME NEW a \in Container, NEW b \in Container, a # b
    PROVE  /\ CoreIndices(a) \subseteq Nat
           /\ CoreIndices(a) \cap CoreIndices(b) = {}
<1>1. /\ DriveCores \in Nat /\ DriveCores > 0
      /\ ComputeCores \in Nat /\ ComputeCores > 0
      /\ FrontendCores \in Nat
  BY CoresAssumption
<1>2. /\ CoreIndices("drives0") = 0 .. (DriveCores - 1)
      /\ CoreIndices("compute0") = DriveCores .. (DriveCores + ComputeCores - 1)
  BY <1>1 DEF CoreIndices, CoreIdxBegin, Cores
<1>3. FrontendCores > 0 =>
        CoreIndices("frontend0") =
            (DriveCores + ComputeCores) .. (DriveCores + ComputeCores + FrontendCores - 1)
  BY <1>1 DEF CoreIndices, CoreIdxBegin, Cores
<1>4. QED
  BY <1>1, <1>2, <1>3 DEF Container

\* get_core_ids and getNetStrForDpdk keep the containers of a host apart, whatever
\* its NUMA nodes and whatever number of cores each container asks for.
THEOREM LayoutUnshared ==
    ASSUME NEW joins \in BOOLEAN, NEW isBM \in BOOLEAN
    PROVE  Unshared(Layout(joins, isBM), isBM)
<1>1. ASSUME NEW a \in Container, NEW b \in Container, a # b
      PROVE  get_core_ids(a) \cap get_core_ids(b) \subseteq {NoCore}
  <2>1. SUFFICES ASSUME NEW i \in CoreIndices(a), NEW j \in CoreIndices(b),
                        CoreAt(i) = CoreAt(j)
                 PROVE  CoreAt(i) = NoCore
    BY DEF get_core_ids
  <2>2. i \in Nat /\ j \in Nat /\ i # j
    BY <1>1, IndicesApart
  <2>3. QED
    BY <2>1, <2>2, CoreAtInjective
<1>2. ASSUME NEW a \in Container, NEW b \in Container, a # b, ~isBM
      PROVE  Nics(a, joins, isBM) \cap Nics(b, joins, isBM) = {}
  BY <1>2, CoresAssumption DEF Nics, NicRange, Container
<1>3. ASSUME NEW c \in Container
      PROVE  0 \notin get_core_ids(c)
  <2>1. CoreIndices(c) \subseteq Nat
    BY CoresAssumption DEF CoreIndices, CoreIdxBegin, Cores, Container
  <2>2. QED
    BY <2>1, CoreAtNotZero DEF get_core_ids
<1>4. ASSUME NEW c \in Container, ~isBM
      PROVE  0 \notin Nics(c, joins, isBM)
  BY <1>4, CoresAssumption DEF Nics, NicRange, Container
<1>5. QED
  BY <1>1, <1>2, <1>3, <1>4 DEF Unshared, Layout

=============================================================================
