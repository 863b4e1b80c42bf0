------------------------------ MODULE HostLayout ------------------------------
(***************************************************************************)
(* Which cores and network interfaces a deploy or join script gives to     *)
(* each Weka container of a backend: get_core_ids and getNetStrForDpdk of  *)
(* bash_functions/get_bash_function.go, called once per container by       *)
(* deploy/deploy_backend.go and join/join.go.                              *)
(***************************************************************************)
EXTENDS Integers, Sequences

CONSTANTS
    Numa,           \* per NUMA node, the core ids the scripts may use, in order
    DriveCores, ComputeCores,
    FrontendCores,  \* 0: no frontend container
    NicsNum         \* interfaces of a host that is deployed, interface 0 included

\* The first thread of every core but core 0, each in one node.  The scripts number
\* the cores of two nodes alternately, so both must be as large as what they take.
ASSUME NumaAssumption ==
    /\ Numa \in Seq(Seq(Nat \ {0})) /\ Numa # << >>
    /\ \A a, b \in DOMAIN Numa : \A i \in DOMAIN Numa[a], j \in DOMAIN Numa[b] :
          Numa[a][i] = Numa[b][j] => a = b /\ i = j

ASSUME CoresAssumption ==
    /\ {DriveCores, ComputeCores} \subseteq Nat \ {0}
    /\ FrontendCores \in Nat /\ NicsNum \in Nat

\* The containers of a backend, in the order the scripts set them up.
Container == {"drives0", "compute0"} \cup IF FrontendCores > 0 THEN {"frontend0"} ELSE {}

-----------------------------------------------------------------------------
(* Cores.                                                                  *)

Cores(c) == CASE c = "drives0" -> DriveCores
              [] c = "compute0" -> ComputeCores
              [] c = "frontend0" -> FrontendCores

\* Past the end of a list the shell finds the empty string.
NoCore == -1
Entry(list, i) == IF i < Len(list) THEN list[i + 1] ELSE NoCore

\* The core with index i.  With several NUMA nodes only the first two are used.
CoreAt(i) ==
    IF Len(Numa) > 1 THEN Entry(Numa[(i % 2) + 1], i \div 2) ELSE Entry(Numa[1], i)

\* Mutant: every container starts from the first core.
CoreIdxBegin_Kept(c) == 0

\* core_idx_begin when get_core_ids is called for c: each call moves it on.
CoreIdxBegin(c) == CASE c = "drives0" -> 0
                     [] c = "compute0" -> DriveCores
                     [] c = "frontend0" -> DriveCores + ComputeCores

\* The first core is taken whatever the number asked for.
CoreIndices(c) == {CoreIdxBegin(c)} \cup CoreIdxBegin(c) .. (CoreIdxBegin(c) + Cores(c) - 1)

get_core_ids(c) == {CoreAt(i) : i \in CoreIndices(c)}

-----------------------------------------------------------------------------
(* Interfaces, as indices of all_interfaces.                               *)

\* A frontend gets the interfaces that are left when it is deployed, one when it joins.
NicRange(c, joins) ==
    CASE c = "drives0" -> <<1, 1 + DriveCores>>
      [] c = "compute0" -> <<1 + DriveCores, 1 + DriveCores + ComputeCores>>
      [] c = "frontend0" -> <<1 + DriveCores + ComputeCores,
                              IF joins THEN 1 + DriveCores + ComputeCores + 1 ELSE NicsNum>>

\* getNetStrForDpdk: on bare metal the interfaces are counted from the first.
Nics(c, joins, isBM) ==
    LET i == NicRange(c, joins)[1]
        j == NicRange(c, joins)[2]
    IN  IF isBM THEN 0 .. (j - i - 1) ELSE i .. (j - 1)

\* What one host is given.
Layout(joins, isBM) ==
    [c \in Container |-> [cores |-> get_core_ids(c), nics |-> Nics(c, joins, isBM)]]

\* No two containers of a host share a core, or an interface unless it is bare metal,
\* and core 0 and interface 0 are left to the system.
Unshared(layout, isBM) ==
    /\ \A a, b \in Container : a # b =>
          /\ layout[a].cores \cap layout[b].cores \subseteq {NoCore}
          /\ ~isBM => layout[a].nics \cap layout[b].nics = {}
    /\ \A c \in Container : 0 \notin layout[c].cores /\ (~isBM => 0 \notin layout[c].nics)

=============================================================================
