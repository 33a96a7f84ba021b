---------------------------- MODULE SnifferProofs ----------------------------
(***************************************************************************)
(* Proofs about how app/test-sniffer comes up (SnifferSetup) and reports   *)
(* its statistics (PortStats), for any ports, lcores, sockets, queues,     *)
(* counters, events and resets.  Where the workers of the program run is   *)
(* SnifferWorkerProofs.                                                    *)
(***************************************************************************)
EXTENDS PortStats, SnifferSetup, FiniteSetTheorems, TLAPS

-----------------------------------------------------------------------------
(* Statistics.  What a counter lags behind the events is at least what the *)
(* next Report would add to it: this is what makes XstatsSound inductive,  *)
(* since the growth of a counter since the last snapshot, not the counter  *)
(* itself, is what ReportXstats adds.  Only while there was no reset are   *)
(* snapshot, counter and device linked exactly.                            *)

(* The extended statistics of field f of port p. *)
XstatOK(p, f) ==
  /\ xcounter[p][f] + Growth(hw[p][f], prevVals[p][f]) <= total[p][f]
  /\ prevVals[p][f] <= xcounter[p][f]
  /\ prevVals[p][f] <= total[p][f]
  /\ resets = 0 => /\ prevVals[p][f] = xcounter[p][f]
                   /\ prevVals[p][f] <= hw[p][f]
                   /\ curVals[p][f] <= prevVals[p][f]

(* The snapshots of the basic ones. *)
BasicOK(p, f) ==
  /\ prevStats[p][f] <= total[p][f]
  /\ resets = 0 => /\ prevStats[p][f] <= hw[p][f]
                   /\ curStats[p][f] <= prevStats[p][f]

FieldOK(p, f) == hw[p][f] <= total[p][f] /\ XstatOK(p, f) /\ BasicOK(p, f)

StatsInv == TypeOK /\ \A p \in Ports, f \in Fields : FieldOK(p, f)

(* Before the first tick everything is zero. *)
LEMMA InitEstablishes == StatsInit => StatsInv
<1> SUFFICES ASSUME StatsInit PROVE StatsInv
  OBVIOUS
<1>1. TypeOK
  BY PortStatsAssumption DEF StatsInit, TypeOK, Counters, Zero, Ports
<1>2. ASSUME NEW p \in Ports, NEW f \in Fields PROVE FieldOK(p, f)
  BY DEF StatsInit, FieldOK, XstatOK, BasicOK, Growth, Zero
<1>3. QED
  BY <1>1, <1>2 DEF StatsInv

(* An event on a device adds at most one to what Report will see. *)
LEMMA TrafficKeeps ==
  ASSUME StatsInv, NEW q \in Ports, NEW g \in Fields, Traffic(q, g)
  PROVE  StatsInv'
<1> USE DEF StatsInv, TypeOK, Counters
<1>1. hw' \in Counters /\ total' \in Counters
  BY DEF Traffic
<1>2. UNCHANGED <<resets, phase, port, diffStats, prevStats, curStats, counter, dropped,
                  prevVals, curVals, xcounter>>
  BY DEF Traffic, basicVars, xVars
<1>3. ASSUME NEW p \in Ports, NEW f \in Fields PROVE FieldOK(p, f)'
  <2>1. \/ hw'[p][f] = hw[p][f] /\ total'[p][f] = total[p][f]
        \/ hw'[p][f] = hw[p][f] + 1 /\ total'[p][f] = total[p][f] + 1
    BY DEF Traffic
  <2>2. FieldOK(p, f)
    OBVIOUS
  <2>3. QED
    BY <1>1, <1>2, <2>1, <2>2 DEF FieldOK, XstatOK, BasicOK, Growth
<1>4. QED
  BY <1>1, <1>2, <1>3

(* A reset takes away what Report had not seen yet and adds nothing. *)
LEMMA StatsResetKeeps ==
  ASSUME StatsInv, NEW q \in Ports, StatsReset(q)
  PROVE  StatsInv'
<1> USE PortStatsAssumption DEF StatsInv, TypeOK, Counters
<1>1. hw' \in Counters /\ resets' \in 0..MaxResets /\ resets' # 0
  BY DEF StatsReset, Zero
<1>2. UNCHANGED <<total, phase, port, diffStats, prevStats, curStats, counter, dropped,
                  prevVals, curVals, xcounter>>
  BY DEF StatsReset, basicVars, xVars
<1>3. ASSUME NEW p \in Ports, NEW f \in Fields PROVE FieldOK(p, f)'
  <2>1. hw'[p][f] = hw[p][f] \/ hw'[p][f] = 0
    BY DEF StatsReset, Zero
  <2>2. FieldOK(p, f)
    OBVIOUS
  <2>3. QED
    BY <1>1, <1>2, <2>1, <2>2 DEF FieldOK, XstatOK, BasicOK, Growth
<1>4. QED
  BY <1>1, <1>2, <1>3

(* The start of a Report and a failed read touch no snapshot and no counter. *)
LEMMA ReportKeeps ==
  ASSUME StatsInv, Report \/ ReadFails
  PROVE  StatsInv'
<1> USE PortStatsAssumption DEF StatsInv, TypeOK, Counters
<1>1. phase' \in {"tick", "basic", "xstats"} /\ port' \in Ports /\ diffStats' \in [Fields -> Nat]
  <2>1. CASE Report
    BY <2>1 DEF Report, Ports, Zero
  <2>2. CASE ReadFails
    BY <2>2 DEF ReadFails, basicVars
  <2>3. QED
    BY <2>1, <2>2
<1>2. UNCHANGED <<hw, total, resets, prevStats, curStats, counter, dropped,
                  prevVals, curVals, xcounter>>
  BY DEF Report, ReadFails, hwVars, basicVars, xVars
<1>3. ASSUME NEW p \in Ports, NEW f \in Fields PROVE FieldOK(p, f)'
  BY <1>2 DEF FieldOK, XstatOK, BasicOK, Growth
<1>4. QED
  BY <1>1, <1>2, <1>3

(* The basic part of Report swaps the snapshots of one port. *)
LEMMA ReportBasicKeeps ==
  ASSUME StatsInv, ReportBasic
  PROVE  StatsInv'
<1> USE PortStatsAssumption DEF StatsInv, TypeOK, Counters
<1>1. diffStats' \in [Fields -> Nat]
  BY DEF ReportBasic, Diff
<1>2. /\ prevStats' \in Counters /\ curStats' \in Counters /\ counter' \in Counters
      /\ dropped' \in Counters /\ phase' \in {"tick", "basic", "xstats"}
  BY <1>1 DEF ReportBasic
<1>3. UNCHANGED <<hw, total, resets, port, prevVals, curVals, xcounter>>
  BY DEF ReportBasic, hwVars, xVars
<1>4. ASSUME NEW p \in Ports, NEW f \in Fields PROVE FieldOK(p, f)'
  <2>1. \/ prevStats'[p][f] = prevStats[p][f] /\ curStats'[p][f] = curStats[p][f]
        \/ prevStats'[p][f] = hw[p][f] /\ curStats'[p][f] = prevStats[p][f]
    BY DEF ReportBasic
  <2>2. FieldOK(p, f)
    OBVIOUS
  <2>3. QED
    BY <1>2, <1>3, <2>1, <2>2 DEF FieldOK, XstatOK, BasicOK, Growth
<1>5. QED
  BY <1>1, <1>2, <1>3, <1>4

(* The extended part adds the growth since the last snapshot and takes a   *)
(* new one, after which the growth is zero.                                *)
LEMMA ReportXstatsKeeps ==
  ASSUME StatsInv, ReportXstats
  PROVE  StatsInv'
<1> USE PortStatsAssumption DEF StatsInv, TypeOK, Counters
<1>1. /\ prevVals' \in Counters /\ curVals' \in Counters /\ xcounter' \in Counters
      /\ phase' \in {"tick", "basic", "xstats"}
  BY DEF ReportXstats, Growth
<1>2. port' \in Ports
  BY DEF ReportXstats, Ports
<1>3. UNCHANGED <<hw, total, resets, diffStats, prevStats, curStats, counter, dropped>>
  BY DEF ReportXstats, hwVars, basicVars
<1>4. ASSUME NEW p \in Ports, NEW f \in Fields PROVE FieldOK(p, f)'
  <2>1. \/ /\ prevVals'[p][f] = prevVals[p][f] /\ curVals'[p][f] = curVals[p][f]
           /\ xcounter'[p][f] = xcounter[p][f]
        \/ /\ prevVals'[p][f] = hw[p][f] /\ curVals'[p][f] = prevVals[p][f]
           /\ xcounter'[p][f] = xcounter[p][f] + Growth(hw[p][f], prevVals[p][f])
    BY DEF ReportXstats
  <2>2. FieldOK(p, f)
    OBVIOUS
  <2>3. /\ hw[p][f] \in Nat /\ total[p][f] \in Nat
        /\ xcounter[p][f] \in Nat /\ prevVals[p][f] \in Nat /\ curVals[p][f] \in Nat
    OBVIOUS
  <2>4. XstatOK(p, f)'
    BY <1>3, <2>1, <2>2, <2>3 DEF FieldOK, XstatOK, Growth
  <2>5. QED
    BY <1>3, <2>2, <2>4 DEF FieldOK, BasicOK
<1>5. QED
  BY <1>1, <1>2, <1>3, <1>4

(* The invariant holds whatever reads fail and whenever devices are reset. *)
THEOREM Inductive == StatsSpec => []StatsInv
<1>1. StatsInv /\ [StatsNext]_statsVars => StatsInv'
  <2> SUFFICES ASSUME StatsInv, [StatsNext]_statsVars PROVE StatsInv'
    OBVIOUS
  <2>1. CASE UNCHANGED statsVars
    <3>1. UNCHANGED <<hw, total, resets, phase, port, diffStats, prevStats, curStats,
                      counter, dropped, prevVals, curVals, xcounter>>
      BY <2>1 DEF statsVars, hwVars, basicVars, xVars
    <3>2. ASSUME NEW p \in Ports, NEW f \in Fields PROVE FieldOK(p, f)'
      BY <3>1 DEF StatsInv, FieldOK, XstatOK, BasicOK, Growth
    <3>3. QED
      BY <3>1, <3>2 DEF StatsInv, TypeOK, Counters
  <2>2. QED
    BY <2>1, TrafficKeeps, StatsResetKeeps, ReportKeeps, ReportBasicKeeps,
       ReportXstatsKeeps DEF StatsNext
<1>2. QED
  BY <1>1, InitEstablishes, PTL DEF StatsSpec

(* Counters and snapshots stay natural numbers: no subtraction of Diff or  *)
(* of the extended part ever goes below zero.                              *)
THEOREM TypeCorrect == StatsSpec => []TypeOK
  BY Inductive, PTL DEF StatsInv

(* The extended counters never run ahead of the events of their port. *)
THEOREM XstatsSoundThm == StatsSpec => []XstatsSound
<1>1. StatsInv => XstatsSound
  <2> SUFFICES ASSUME StatsInv, NEW p \in Ports, NEW f \in Fields
               PROVE  /\ xcounter[p][f] <= total[p][f]
                      /\ prevVals[p][f] <= xcounter[p][f]
                      /\ resets = 0 => prevVals[p][f] = xcounter[p][f]
    BY DEF XstatsSound
  <2>1. /\ xcounter[p][f] \in Nat /\ total[p][f] \in Nat
        /\ hw[p][f] \in Nat /\ prevVals[p][f] \in Nat
    BY DEF StatsInv, TypeOK, Counters
  <2>2. FieldOK(p, f)
    BY DEF StatsInv
  <2>3. QED
    BY <2>1, <2>2 DEF FieldOK, XstatOK, Growth
<1>2. QED
  BY <1>1, Inductive, PTL

(* Swapping keeps the two snapshots in the order they were taken. *)
THEOREM SnapshotsOrderedThm == StatsSpec => []SnapshotsOrdered
<1>1. StatsInv => SnapshotsOrdered
  BY DEF StatsInv, SnapshotsOrdered, FieldOK, XstatOK, BasicOK
<1>2. QED
  BY <1>1, Inductive, PTL

-----------------------------------------------------------------------------
(* The first port *)

(* A counter of the first port and its snapshot. *)
FirstOK(f) ==
  /\ counter[1][f] + Growth(hw[1][f], prevStats[1][f]) <= total[1][f]
  /\ resets = 0 => counter[1][f] + dropped[1][f] = prevStats[1][f]

(* diffStats is zero when Diff is called for the first port. *)
FirstInv ==
  /\ phase = "basic" /\ port = 1 => diffStats = Zero
  /\ \A f \in Fields : FirstOK(f)

(* The basic counters of the first port miss what came before their first  *)
(* snapshot that is not zero, and nothing else: what is wrong with those   *)
(* of the other ports is only that Diff leaves them the delta of the port  *)
(* before.                                                                 *)
THEOREM FirstPortSoundThm == StatsSpec => []FirstPortSound
<1>0. 1 \in Ports
  BY PortStatsAssumption DEF Ports
<1>1. StatsInit => FirstInv
  BY <1>0 DEF StatsInit, FirstInv, FirstOK, Growth, Zero
<1>2. StatsInv /\ FirstInv /\ [StatsNext]_statsVars => FirstInv'
  <2> SUFFICES ASSUME StatsInv, FirstInv, [StatsNext]_statsVars PROVE FirstInv'
    OBVIOUS
  <2> USE <1>0 DEF StatsInv, TypeOK, Counters
  <2>1. ASSUME NEW q \in Ports, NEW g \in Fields, Traffic(q, g) PROVE FirstInv'
    <3>1. UNCHANGED <<phase, port, diffStats, counter, dropped, prevStats, resets>>
      BY <2>1 DEF Traffic, basicVars
    <3>2. ASSUME NEW f \in Fields PROVE FirstOK(f)'
      <4>1. \/ hw'[1][f] = hw[1][f] /\ total'[1][f] = total[1][f]
            \/ hw'[1][f] = hw[1][f] + 1 /\ total'[1][f] = total[1][f] + 1
        BY <2>1 DEF Traffic
      <4>2. FieldOK(1, f) /\ FirstOK(f)
        BY DEF FirstInv
      <4>3. QED
        BY <3>1, <4>1, <4>2 DEF FieldOK, BasicOK, FirstOK, Growth
    <3>3. QED
      BY <3>1, <3>2 DEF FirstInv
  <2>2. ASSUME NEW q \in Ports, StatsReset(q) PROVE FirstInv'
    <3>1. UNCHANGED <<phase, port, diffStats, counter, prevStats, total>> /\ resets' # 0
      BY <2>2 DEF StatsReset, basicVars
    <3>2. ASSUME NEW f \in Fields PROVE FirstOK(f)'
      <4>1. hw'[1][f] = hw[1][f] \/ hw'[1][f] = 0
        BY <2>2 DEF StatsReset, Zero
      <4>2. FirstOK(f)
        BY DEF FirstInv
      <4>3. QED
        BY <3>1, <4>1, <4>2 DEF FirstOK, Growth
    <3>3. QED
      BY <3>1, <3>2 DEF FirstInv
  <2>3. CASE Report \/ ReadFails
    <3>1. UNCHANGED <<hw, total, resets, counter, dropped, prevStats>>
      BY <2>3 DEF Report, ReadFails, hwVars, basicVars
    <3>2. phase' = "basic" => diffStats' = Zero
      BY <2>3 DEF Report, ReadFails
    <3>3. QED
      BY <3>1, <3>2 DEF FirstInv, FirstOK, Growth
  <2>4. CASE ReportBasic
    <3>1. UNCHANGED <<hw, total, resets>> /\ phase' = "xstats"
      BY <2>4 DEF ReportBasic, hwVars
    <3>2. ASSUME NEW f \in Fields PROVE FirstOK(f)'
      <4>1. FirstOK(f)
        BY DEF FirstInv
      <4>2. CASE port # 1
        <5>1. /\ counter'[1] = counter[1] /\ prevStats'[1] = prevStats[1]
              /\ dropped'[1] = dropped[1]
          BY <2>4, <4>2 DEF ReportBasic
        <5>2. QED
          BY <3>1, <4>1, <5>1 DEF FirstOK, Growth
      <4>3. CASE port = 1
        <5>1. counter'[1][f] = counter[1][f] + diffStats'[f] /\ prevStats'[1][f] = hw[1][f]
          BY <2>4, <4>3 DEF ReportBasic
        <5>0. dropped'[1][f] = IF prevStats[1][f] = 0 THEN dropped[1][f] + hw[1][f] ELSE dropped[1][f]
          BY <2>4, <4>3 DEF ReportBasic
        <5>d. diffStats'[f] = IF hw[1][f] > prevStats[1][f] /\ prevStats[1][f] # 0
                              THEN hw[1][f] - prevStats[1][f] ELSE 0
          BY <2>4, <4>3 DEF ReportBasic, Diff, FirstInv, Zero
        <5>f. /\ FieldOK(1, f) /\ hw[1][f] \in Nat /\ prevStats[1][f] \in Nat
              /\ counter[1][f] \in Nat /\ dropped[1][f] \in Nat
          OBVIOUS
        <5>r. resets = 0 => prevStats[1][f] <= hw[1][f]
          BY <5>f DEF FieldOK, BasicOK
        <5>2. diffStats'[f] \in Nat /\ diffStats'[f] <= Growth(hw[1][f], prevStats[1][f])
          BY <2>4, <4>3 DEF ReportBasic, Diff, FirstInv, Zero, Growth
        <5>3. QED
          BY <3>1, <4>1, <5>0, <5>1, <5>d, <5>f, <5>r, <5>2 DEF FirstOK, Growth
      <4>4. QED
        BY <4>2, <4>3
    <3>3. QED
      BY <3>1, <3>2 DEF FirstInv
  <2>5. CASE ReportXstats
    <3>1. UNCHANGED <<hw, total, resets, diffStats, counter, dropped, prevStats>>
      BY <2>5 DEF ReportXstats, hwVars, basicVars
    <3>2. phase' = "basic" => port' # 1
      BY <2>5 DEF ReportXstats, Ports
    <3>3. QED
      BY <3>1, <3>2 DEF FirstInv, FirstOK, Growth
  <2>6. CASE UNCHANGED statsVars
    BY <2>6 DEF statsVars, hwVars, basicVars, FirstInv, FirstOK, Growth
  <2>7. QED
    BY <2>1, <2>2, <2>3, <2>4, <2>5, <2>6 DEF StatsNext
<1>3. StatsInv /\ FirstInv => FirstPortSound
  <2> SUFFICES ASSUME StatsInv, FirstInv, NEW f \in Fields
               PROVE  /\ counter[1][f] <= total[1][f]
                      /\ resets = 0 => counter[1][f] + dropped[1][f] = prevStats[1][f]
    BY DEF FirstPortSound
  <2>1. /\ counter[1][f] \in Nat /\ total[1][f] \in Nat
        /\ hw[1][f] \in Nat /\ prevStats[1][f] \in Nat
    BY <1>0 DEF StatsInv, TypeOK, Counters
  <2>2. QED
    BY <2>1 DEF FirstInv, FirstOK, Growth
<1>4. QED
  BY <1>1, <1>2, <1>3, Inductive, PTL DEF StatsSpec
-----------------------------------------------------------------------------
(* Bringing the ports up.  newApp is a row of loops over ports, queues and *)
(* lcores; the invariant says for each loop what the rounds so far have    *)
(* achieved and what no later round may undo.                              *)

Listing == {"mempool", "list"}
Configuring == {"isolate", "configure", "promisc", "rxq", "txq", "hairpin", "start", "rss"}
Distributed == {"distribute", "flows", "running"}
Configured == {"stats", "dissect"} \cup Distributed

PortQueue == [Pid : PortIds, RxQid : Nat]

SetupTypeOK ==
  /\ machine \in Machine
  /\ pc \in Listing \cup Configuring \cup Configured \cup {"failed"}
  /\ at \in Nat /\ qid \in Nat
  /\ ports \in Seq(PortIds)
  /\ pools \in SUBSET PortIds
  /\ dev \in [PortIds -> Device]

(* The ports below n that are attached. *)
Below(n) == {p \in machine.attached : p < n}

(* The list of ports and the mempools, when the loops have come to n. *)
Listed(n) ==
  /\ \A i \in 1..Len(ports) : ports[i] \in Below(n)
  /\ \A p \in Below(n) : \E i \in 1..Len(ports) : ports[i] = p
  /\ \A i, j \in 1..Len(ports) : ports[i] = ports[j] => i = j

ListInv ==
  /\ pc = "mempool" => Listed(0) /\ Below(at) \subseteq pools /\ at <= CountTotal
  /\ pc = "list" => Listed(at) /\ at <= CountTotal
  /\ pc \in Configuring \cup Configured => Listed(CountTotal)
  /\ pc # "mempool" /\ pc # "failed" => Below(CountTotal) \subseteq pools
  /\ pc \in Configuring \ {"isolate"} => at \in 1..Len(ports)
  /\ pc \in {"isolate", "dissect", "distribute"} => at >= 1

(* How far Configure has come with a device. *)
Allotted(d) == d.nrx = machine.nrxq + machine.nhpq
RxReady(d, n) == 0..(n - 1) \subseteq d.rxq
TxReady(d, n) == 0..(n - 1) \subseteq d.txq
HairpinOK(d) == \A q \in d.hairpin : q >= machine.nrxq
Ready(d) ==
  /\ Allotted(d) /\ d.promisc /\ d.started /\ HairpinOK(d)
  /\ RxReady(d, machine.nrxq) /\ TxReady(d, machine.ntxq)

(* What the steps so far have done to the device Configure is at. *)
Stage(d) ==
  /\ pc # "rss" => ~d.started
  /\ pc \in {"promisc", "rxq", "txq", "hairpin", "start"} => Allotted(d)
  /\ pc \in {"rxq", "txq", "hairpin", "start"} => d.promisc
  /\ pc = "rxq" => qid <= machine.nrxq /\ RxReady(d, qid)
  /\ pc \in {"txq", "hairpin", "start"} => RxReady(d, machine.nrxq)
  /\ pc = "txq" => qid <= machine.ntxq /\ TxReady(d, qid)
  /\ pc \in {"hairpin", "start"} => TxReady(d, machine.ntxq)
  /\ pc = "start" => HairpinOK(d)
  /\ pc = "rss" => Ready(d)

DevInv ==
  /\ pc \in Listing => \A p \in PortIds : ~dev[p].started
  /\ pc \in Configuring =>
       /\ \A i \in 1..Len(ports) : i < at => Ready(dev[ports[i]])
       /\ \A i \in 1..Len(ports) : i > at => ~dev[ports[i]].started
  /\ pc = "isolate" => \A i \in 1..Len(ports) : i = at => ~dev[ports[i]].started
  /\ pc \in Configuring \ {"isolate"} => Stage(dev[pid])
  /\ pc \in Configured => \A i \in 1..Len(ports) : Ready(dev[ports[i]])

(* The lcores that are free are workers, each once and on its own socket.  *)
FreeInv(s) ==
  /\ lcoreMap[s] \in Seq(Workers)
  /\ \A i \in 1..Len(lcoreMap[s]) :
       LcoreToSocket(lcoreMap[s][i]) = s /\ lcoreMap[s][i] \notin DOMAIN table
  /\ \A i, j \in 1..Len(lcoreMap[s]) : lcoreMap[s][i] = lcoreMap[s][j] => i = j

MapInv ==
  /\ pc \in Listing \cup Configuring \cup {"stats"} => lcoreMap = [s \in {} |-> <<>>]
  /\ pc = "dissect" =>
       \A s \in DOMAIN lcoreMap : \A i \in 1..Len(lcoreMap[s]) :
         \E j \in 1..Len(LcoresWorker) : j < at /\ lcoreMap[s][i] = LcoresWorker[j]
  /\ pc \in {"dissect", "distribute"} => \A s \in DOMAIN lcoreMap : FreeInv(s)

(* Lcore l serves queue q of port p. *)
Serves(l, p, q) ==
  /\ table[l] = [Pid |-> p, RxQid |-> q]
  /\ LcoreToSocket(l) = machine.socket[p]

(* The first n ports are served, and nothing else. *)
Served(n) ==
  /\ \A i \in 1..Len(ports) : i <= n =>
       \A q \in 0..(dev[ports[i]].nrx - 1) : \E l \in DOMAIN table : Serves(l, ports[i], q)
  /\ \A l \in DOMAIN table : \E i \in 1..Len(ports) : \E q \in 0..(dev[ports[i]].nrx - 1) :
       /\ i <= n
       /\ table[l] = [Pid |-> ports[i], RxQid |-> q]
  /\ \A k, l \in DOMAIN table : table[k] = table[l] => k = l

TableInv ==
  /\ pc \notin Distributed \cup {"failed"} => table = [l \in {} |-> <<>>]
  /\ pc = "distribute" => Served(at - 1)
  /\ pc \in {"flows", "running"} => Served(Len(ports))

SetupInv ==
  SetupTypeOK /\ ListInv /\ DevInv /\ MapInv /\ TableInv /\ StartedReady

(* rte_eth_dev_count_total is a number. *)
LEMMA AttachedFinite ==
  ASSUME machine \in Machine
  PROVE  /\ CountTotal \in Nat
         /\ machine.attached \subseteq PortIds /\ machine.attached \subseteq Nat
<1>1. machine.attached \subseteq PortIds
  BY DEF Machine
<1>2. IsFiniteSet(machine.attached)
  BY <1>1, SnifferSetupAssumption, FS_Subset
<1>3. QED
  BY <1>1, <1>2, SnifferSetupAssumption, FS_CardinalityType DEF CountTotal

(* Everything is closed when newApp starts. *)
LEMMA SetupInitEstablishes == Init => SetupInv
<1> SUFFICES ASSUME Init PROVE SetupInv
  OBVIOUS
<1> USE DEF Init
<1>1. SetupTypeOK
  BY DEF SetupTypeOK, Listing, Device, Closed
<1>2. machine.attached \in SUBSET Nat /\ Below(0) = {}
  BY AttachedFinite DEF Below
<1>3. ListInv
  BY <1>2, AttachedFinite DEF ListInv, Listed, Listing, Configuring, Configured, Distributed
<1>4. DevInv /\ StartedReady
  BY DEF DevInv, StartedReady, Listing, Configuring, Configured, Distributed, Closed
<1>5. MapInv /\ TableInv
  BY DEF MapInv, TableInv, Listing, Configuring, Distributed
<1>6. QED
  BY <1>1, <1>3, <1>4, <1>5 DEF SetupInv

(* A failed step leaves the devices as they are. *)
LEMMA FailKeeps ==
  ASSUME SetupInv, NEW e, Fail(e)
  PROVE  SetupInv'
<1>1. pc' = "failed" /\ UNCHANGED <<machine, at, qid, ports, pools, dev, lcoreMap, table>>
  BY DEF Fail, devVars, distVars
<1>2. SetupTypeOK' /\ StartedReady'
  BY <1>1 DEF SetupInv, SetupTypeOK, StartedReady
<1>3. ListInv' /\ DevInv' /\ MapInv' /\ TableInv'
  BY <1>1 DEF ListInv, DevInv, MapInv, TableInv, Listing, Configuring, Configured, Distributed
<1>4. QED
  BY <1>2, <1>3 DEF SetupInv

(* The loops over the ids below CountTotal. *)
LEMMA NewMempoolPerPortKeeps ==
  ASSUME SetupInv, NewMempoolPerPort
  PROVE  SetupInv'
<1> USE DEF SetupInv
<1>t. CountTotal \in Nat /\ machine.attached \subseteq PortIds /\ machine.attached \subseteq Nat
  BY AttachedFinite DEF SetupTypeOK
<1>1. CASE \E e : Fail(e)
  BY <1>1, FailKeeps
<1>2. CASE /\ pc = "mempool" /\ at < CountTotal
           /\ pools' = IF IsValid(at) THEN pools \cup {at} ELSE pools
           /\ at' = at + 1
           /\ UNCHANGED <<machine, pc, qid, err, ports, dev, distVars, flows>>
  <2>u. UNCHANGED <<machine, pc, qid, ports, dev, lcoreMap, table>>
    BY <1>2 DEF distVars
  <2>1. SetupTypeOK'
    BY <1>2, <2>u, <1>t DEF SetupTypeOK, IsValid
  <2>2. Below(at + 1) \subseteq pools'
    BY <1>2, <1>t DEF ListInv, SetupTypeOK, Below, IsValid
  <2>3. ListInv'
    BY <1>2, <2>u, <2>2, <1>t
    DEF ListInv, Listed, Below, CountTotal, SetupTypeOK, Listing, Configuring, Configured, Distributed
  <2>4. DevInv' /\ StartedReady'
    BY <1>2, <2>u DEF DevInv, StartedReady, Listing, Configuring, Configured, Distributed
  <2>5. MapInv' /\ TableInv'
    BY <1>2, <2>u DEF MapInv, TableInv, Listing, Distributed
  <2>6. QED
    BY <2>1, <2>3, <2>4, <2>5
<1>3. CASE /\ pc = "mempool" /\ at = CountTotal /\ pc' = "list" /\ at' = 0
           /\ UNCHANGED <<machine, qid, err, ports, devVars, distVars, flows>>
  <2>u. UNCHANGED <<machine, qid, ports, pools, dev, lcoreMap, table>>
    BY <1>3 DEF distVars, devVars
  <2>1. SetupTypeOK'
    BY <1>3, <2>u DEF SetupTypeOK, Listing
  <2>2. ListInv'
    BY <1>3, <2>u, <1>t
    DEF ListInv, Listed, Below, CountTotal, SetupTypeOK, Listing, Configuring, Configured, Distributed
  <2>3. DevInv' /\ StartedReady'
    BY <1>3, <2>u DEF DevInv, StartedReady, Listing, Configuring, Configured, Distributed
  <2>4. MapInv' /\ TableInv'
    BY <1>3, <2>u DEF MapInv, TableInv, Listing, Distributed
  <2>5. QED
    BY <2>1, <2>2, <2>3, <2>4
<1>4. QED
  BY <1>1, <1>2, <1>3 DEF NewMempoolPerPort

(* One more id: the list grows by it when it is attached. *)
LEMMA ListedGrows ==
  ASSUME machine \in Machine, ports \in Seq(PortIds), machine' = machine,
         NEW n \in Nat, Listed(n),
         ports' = IF IsValid(n) THEN Append(ports, n) ELSE ports
  PROVE  ports' \in Seq(PortIds) /\ Listed(n + 1)'
<1>t. machine.attached \subseteq PortIds /\ machine.attached \subseteq Nat
  BY AttachedFinite
<1>1. CASE ~IsValid(n)
  <2>1. Below(n + 1) = Below(n)
    BY <1>1, <1>t DEF Below, IsValid
  <2>2. QED
    BY <1>1, <1>t, <2>1 DEF Listed, Below
<1>2. CASE IsValid(n)
  <2>1. Below(n + 1) = Below(n) \cup {n} /\ n \notin Below(n)
    BY <1>2, <1>t DEF Below, IsValid
  <2>2. /\ ports' \in Seq(PortIds) /\ Len(ports') = Len(ports) + 1
        /\ ports'[Len(ports) + 1] = n
        /\ \A i \in 1..Len(ports) : ports'[i] = ports[i]
        /\ Len(ports) \in Nat
    BY <1>2, <1>t DEF IsValid
  <2>d. \A i \in 1..Len(ports') : i \in 1..Len(ports) \/ i = Len(ports) + 1
    BY <2>2
  <2>i. \A i \in 1..Len(ports) : i \in 1..Len(ports')
    BY <2>2
  <2>3. \A i \in 1..Len(ports') : ports'[i] \in Below(n + 1)
    BY <2>1, <2>2, <2>d, <1>t DEF Listed
  <2>4. \A p \in Below(n + 1) : \E i \in 1..Len(ports') : ports'[i] = p
    <3>1. TAKE p \in Below(n + 1)
    <3>2. CASE p = n
      BY <3>2, <2>2
    <3>3. CASE p \in Below(n)
      BY <3>3, <2>2, <2>i, <1>t DEF Listed
    <3>4. QED
      BY <3>2, <3>3, <2>1
  <2>5. \A i, j \in 1..Len(ports') : ports'[i] = ports'[j] => i = j
    BY <2>1, <2>2, <2>d, <1>t DEF Listed
  <2>6. QED
    BY <2>2, <2>3, <2>4, <2>5 DEF Listed, Below
<1>3. QED
  BY <1>1, <1>2

(* ListPorts: the list has the attached ids so far, each once. *)
LEMMA ListPortsKeeps ==
  ASSUME SetupInv, ListPorts
  PROVE  SetupInv'
<1> USE DEF SetupInv
<1>t. /\ CountTotal \in Nat /\ machine.attached \subseteq PortIds
      /\ at \in Nat /\ pc = "list" /\ Listed(at) /\ at <= CountTotal
      /\ machine \in Machine /\ ports \in Seq(PortIds)
  BY AttachedFinite DEF SetupTypeOK, ListInv, ListPorts
<1>u. UNCHANGED <<machine, qid, pools, dev, lcoreMap, table>>
  BY DEF ListPorts, distVars, devVars
<1>4. StartedReady'
  BY <1>u DEF StartedReady
<1>5. MapInv' /\ TableInv'
  BY <1>u, <1>t DEF MapInv, TableInv, Listing, Configuring, Distributed, ListPorts
<1>1. CASE /\ at < CountTotal /\ at' = at + 1 /\ pc' = pc
           /\ ports' = IF IsValid(at) THEN Append(ports, at) ELSE ports
  <2>0. PICK n \in Nat : n = at
    BY <1>t
  <2>1. ports' \in Seq(PortIds) /\ Listed(n + 1)'
    BY <1>1, <1>u, <1>t, <2>0, ListedGrows
  <2>2. SetupTypeOK'
    BY <1>1, <1>t, <1>u, <2>1 DEF SetupTypeOK
  <2>3. Listed(at)' /\ CountTotal' = CountTotal
    BY <2>0, <2>1, <1>1, <1>u DEF CountTotal, Listed, Below
  <2>4. ListInv'
    BY <1>1, <1>t, <1>u, <2>3
    DEF ListInv, Below, CountTotal, Configuring, Configured, Distributed
  <2>5. DevInv'
    BY <1>1, <1>t, <1>u DEF DevInv, Listing, Configuring, Configured, Distributed
  <2>6. QED
    BY <2>2, <2>4, <2>5, <1>4, <1>5
<1>2. CASE at = CountTotal /\ pc' = "isolate" /\ at' = 1 /\ ports' = ports
  <2>1. SetupTypeOK'
    BY <1>2, <1>t, <1>u DEF SetupTypeOK, Configuring
  <2>2. ListInv'
    BY <1>2, <1>t, <1>u DEF ListInv, Listed, Below, CountTotal, Configuring, Configured, Distributed
  <2>3. DevInv'
    BY <1>2, <1>t, <1>u DEF DevInv, Listing, Configuring, Configured, Distributed
  <2>4. QED
    BY <2>1, <2>2, <2>3, <1>4, <1>5
<1>3. QED
  BY <1>1, <1>2 DEF ListPorts

(* The port Configure is at is one of the list, and only once. *)
LEMMA PidListed ==
  ASSUME SetupInv, pc \in Configuring \cup Configured, at \in 1..Len(ports)
  PROVE  /\ pid \in PortIds /\ pid \in pools
         /\ \A i \in 1..Len(ports) : ports[i] \in PortIds /\ (ports[i] = pid => i = at)
<1>1. Listed(CountTotal) /\ Below(CountTotal) \subseteq pools /\ ports \in Seq(PortIds)
  BY DEF SetupInv, ListInv, SetupTypeOK, Configuring, Configured, Distributed
<1>2. QED
  BY <1>1 DEF Listed, pid

(* A step of Configure that leaves d of the device keeps the invariant, if *)
(* d is what the next step starts from.                                    *)
LEMMA ConfigureStep ==
  ASSUME SetupInv, pc \in Configuring, at \in 1..Len(ports),
         pc' \in Configuring \ {"isolate"},
         UNCHANGED <<machine, at, ports, pools, lcoreMap, table>>, qid' \in Nat,
         NEW d \in Device, dev' = [dev EXCEPT ![pid] = d], Stage(d)'
  PROVE  SetupInv'
<1> USE DEF SetupInv
<1>1. /\ pid \in PortIds /\ pid \in pools
      /\ \A i \in 1..Len(ports) : ports[i] \in PortIds /\ (ports[i] = pid => i = at)
  BY PidListed
<1>t. dev \in [PortIds -> Device] /\ machine \in Machine
  BY DEF SetupTypeOK
<1>2. SetupTypeOK'
  BY <1>1 DEF SetupTypeOK
<1>3. ListInv'
  <2>1. Listed(CountTotal)' /\ (Below(CountTotal) \subseteq pools)'
    BY DEF ListInv, Listed, Below, CountTotal, Configuring, Configured, Distributed
  <2>2. QED
    BY <2>1 DEF ListInv, Configuring, Configured, Distributed
<1>4. MapInv' /\ TableInv'
  BY DEF MapInv, TableInv, Listing, Configuring, Distributed
<1>5. DevInv'
  <2>1. dev'[pid] = d /\ pid' = pid
    BY <1>1, <1>t DEF pid
  <2>2. \A i \in 1..Len(ports) : i # at => dev'[ports[i]] = dev[ports[i]]
    BY <1>1, <1>t
  <2>3. \A i \in 1..Len(ports) : i < at => Ready(dev[ports[i]])'
    BY <2>2, at \in 1..Len(ports)
    DEF DevInv, Ready, Allotted, RxReady, TxReady, HairpinOK
  <2>4. \A i \in 1..Len(ports) : i > at => ~dev'[ports[i]].started
    BY <2>2, at \in 1..Len(ports) DEF DevInv
  <2>5. Stage(dev[pid])'
    BY <2>1 DEF Stage, Ready, Allotted, RxReady, TxReady, HairpinOK
  <2>6. QED
    BY <2>3, <2>4, <2>5 DEF DevInv, Listing, Configuring, Configured, Distributed
<1>6. StartedReady'
  <2>1. d.started => /\ d.promisc /\ 0..(machine.nrxq - 1) \subseteq d.rxq
                     /\ 0..(machine.ntxq - 1) \subseteq d.txq
    BY DEF Stage, Ready, RxReady, TxReady
  <2>2. \A p \in PortIds : dev'[p] = IF p = pid THEN d ELSE dev[p]
    BY <1>1, <1>t
  <2>3. QED
    BY <2>1, <2>2, <1>1 DEF StartedReady
<1>7. QED
  BY <1>2, <1>3, <1>4, <1>5, <1>6

(* What every step of Configure finds. *)
LEMMA ConfigureFacts ==
  ASSUME SetupInv, pc \in Configuring \ {"isolate"}
  PROVE  /\ at \in 1..Len(ports) /\ qid \in Nat
         /\ dev \in [PortIds -> Device] /\ pid \in PortIds /\ dev[pid] \in Device
         /\ pid \in pools /\ Stage(dev[pid])
         /\ machine.nrxq \in Nat /\ machine.ntxq \in Nat /\ machine.nhpq \in Nat
<1>1. at \in 1..Len(ports) /\ Stage(dev[pid])
  BY DEF SetupInv, ListInv, DevInv
<1>2. pid \in PortIds /\ pid \in pools
  BY <1>1, PidListed
<1>3. qid \in Nat /\ dev \in [PortIds -> Device] /\ machine \in Machine
  BY DEF SetupInv, SetupTypeOK
<1>4. machine.nrxq \in Nat /\ machine.ntxq \in Nat /\ machine.nhpq \in Nat
  BY <1>3, SnifferSetupAssumption DEF Machine
<1>5. QED
  BY <1>1, <1>2, <1>3, <1>4

(* From one port to the next, or on to the statistics. *)
LEMMA IsolateKeeps ==
  ASSUME SetupInv, Isolate
  PROVE  SetupInv'
<1> USE DEF SetupInv
<1>t. pc = "isolate" /\ at \in Nat /\ at >= 1 /\ ports \in Seq(PortIds)
      /\ dev \in [PortIds -> Device]
  BY DEF Isolate, SetupTypeOK, ListInv
<1>1. CASE \E x : Fail(x)
  BY <1>1, FailKeeps
<1>2. CASE at <= Len(ports) /\ Goto("configure") /\ UNCHANGED <<qid, devVars, distVars>>
  <2>1. UNCHANGED <<machine, at, ports, qid, pools, dev, lcoreMap, table>> /\ pc' = "configure"
    BY <1>2 DEF Goto, devVars, distVars
  <2>2. at \in 1..Len(ports)
    BY <1>2, <1>t
  <2>3. pid \in PortIds /\ dev[pid] \in Device /\ ~dev[pid].started
    BY <1>t, <2>2 DEF DevInv, pid
  <2>4. PICK d \in Device : d = dev[pid]
    BY <2>3
  <2>5. Stage(d)'
    BY <2>1, <2>3, <2>4 DEF Stage
  <2>6. dev' = [dev EXCEPT ![pid] = d] /\ qid' \in Nat
    BY <2>1, <2>3, <2>4, <1>t DEF SetupTypeOK
  <2>7. QED
    BY <2>1, <2>2, <2>5, <2>6, <1>t, ConfigureStep DEF Configuring
<1>3. CASE at > Len(ports) /\ Goto("stats") /\ UNCHANGED <<qid, devVars, distVars>>
  <2>1. UNCHANGED <<machine, at, ports, qid, pools, dev, lcoreMap, table>> /\ pc' = "stats"
    BY <1>3 DEF Goto, devVars, distVars
  <2>2. SetupTypeOK' /\ StartedReady'
    BY <2>1 DEF SetupTypeOK, StartedReady, Configured
  <2>3. ListInv'
    BY <2>1, <1>t DEF ListInv, Listed, Below, CountTotal, Configuring, Configured, Distributed
  <2>4. MapInv' /\ TableInv'
    BY <2>1, <1>t DEF MapInv, TableInv, Listing, Configuring, Distributed
  <2>5. \A i \in 1..Len(ports) : i < at
    BY <1>3, <1>t
  <2>r. \A i \in 1..Len(ports) : Ready(dev[ports[i]])
    BY <2>5, <1>t DEF DevInv, Configuring
  <2>6. DevInv'
    BY <2>1, <2>r
    DEF DevInv, Ready, Allotted, RxReady, TxReady, HairpinOK, Listing, Configuring, Configured,
        Distributed
  <2>7. QED
    BY <2>2, <2>3, <2>4, <2>6
<1>4. QED
  BY <1>1, <1>2, <1>3 DEF Isolate

(* InfoGet and DevConfigure: the queues set up before are forgotten, but   *)
(* the device does not run yet.                                            *)
LEMMA DevConfigureKeeps ==
  ASSUME SetupInv, DevConfigure
  PROVE  SetupInv'
<1>t. pc = "configure" /\ pc \in Configuring \ {"isolate"}
  BY DEF DevConfigure, Configuring
<1>f. /\ at \in 1..Len(ports) /\ qid \in Nat
      /\ dev \in [PortIds -> Device] /\ pid \in PortIds /\ dev[pid] \in Device
      /\ pid \in pools /\ Stage(dev[pid])
      /\ machine.nrxq \in Nat /\ machine.ntxq \in Nat /\ machine.nhpq \in Nat
  BY <1>t, ConfigureFacts
<1>1. CASE \E x : Fail(x)
  BY <1>1, FailKeeps
<1>2. CASE ~\E x : Fail(x)
  <2>1. /\ UNCHANGED <<machine, at, ports, qid, pools, lcoreMap, table>> /\ pc' = "promisc"
        /\ dev' = [dev EXCEPT ![pid].nrx = machine.nrxq + machine.nhpq,
                              ![pid].ntx = machine.ntxq + machine.nhpq,
                              ![pid].rxq = {}, ![pid].txq = {}]
    BY <1>2 DEF DevConfigure, Goto, distVars
  <2>p. PICK a \in Nat, b \in Nat : /\ a = machine.nrxq + machine.nhpq
                                   /\ b = machine.ntxq + machine.nhpq
    BY <1>f
  <2> DEFINE R(d) == [d EXCEPT !.nrx = a, !.ntx = b, !.rxq = {}, !.txq = {}]
  <2>2. \A d \in Device : R(d) \in Device /\ R(d).started = d.started /\ R(d).nrx = a
    BY DEF Device
  <2>3. PICK d \in Device : d = R(dev[pid])
    BY <2>2, <1>f
  <2>4. d.nrx = machine.nrxq + machine.nhpq /\ ~d.started
    BY <2>p, <2>2, <2>3, <1>f, <1>t DEF Stage
  <2>5. dev' = [dev EXCEPT ![pid] = d]
    BY <2>p, <2>1, <2>3, <1>f
  <2>6. Stage(d)'
    BY <2>1, <2>4 DEF Stage, Allotted
  <2>7. QED
    BY <2>1, <2>5, <2>6, <1>f, <1>t, ConfigureStep DEF Configuring
<1>3. QED
  BY <1>1, <1>2

(* Promiscuous mode, before the first receive queue. *)
LEMMA PromiscEnableKeeps ==
  ASSUME SetupInv, PromiscEnable
  PROVE  SetupInv'
<1>t. pc = "promisc" /\ pc \in Configuring \ {"isolate"}
  BY DEF PromiscEnable, Configuring
<1>f. /\ at \in 1..Len(ports) /\ qid \in Nat
      /\ dev \in [PortIds -> Device] /\ pid \in PortIds /\ dev[pid] \in Device
      /\ pid \in pools /\ Stage(dev[pid])
      /\ machine.nrxq \in Nat /\ machine.ntxq \in Nat /\ machine.nhpq \in Nat
  BY <1>t, ConfigureFacts
<1>1. CASE \E x : Fail(x)
  BY <1>1, FailKeeps
<1>2. CASE ~\E x : Fail(x)
  <2>1. /\ UNCHANGED <<machine, at, ports, pools, lcoreMap, table>> /\ pc' = "rxq" /\ qid' = 0
        /\ dev' = [dev EXCEPT ![pid].promisc = TRUE]
    BY <1>2 DEF PromiscEnable, Goto, distVars
  <2> DEFINE R(d) == [d EXCEPT !.promisc = TRUE]
  <2>2. \A d \in Device : /\ R(d) \in Device /\ R(d).started = d.started
                          /\ R(d).nrx = d.nrx /\ R(d).promisc
    BY DEF Device
  <2>3. PICK d \in Device : d = R(dev[pid])
    BY <2>2, <1>f
  <2>4. d.nrx = dev[pid].nrx /\ ~d.started /\ d.promisc
    BY <2>2, <2>3, <1>f, <1>t DEF Stage
  <2>5. dev' = [dev EXCEPT ![pid] = d]
    BY <2>1, <2>3, <1>f
  <2>6. RxReady(d, 0)
    BY DEF RxReady
  <2>7. Stage(d)'
    BY <2>1, <2>4, <2>6, <1>f, <1>t DEF Stage, Allotted, RxReady
  <2>8. QED
    BY <2>1, <2>5, <2>7, <1>f, <1>t, ConfigureStep DEF Configuring
<1>3. QED
  BY <1>1, <1>2

(* One receive queue more, each with the mempool of its port. *)
LEMMA RxqSetupKeeps ==
  ASSUME SetupInv, RxqSetup
  PROVE  SetupInv'
<1>t. pc = "rxq" /\ pc \in Configuring \ {"isolate"}
  BY DEF RxqSetup, Configuring
<1>f. /\ at \in 1..Len(ports) /\ qid \in Nat
      /\ dev \in [PortIds -> Device] /\ pid \in PortIds /\ dev[pid] \in Device
      /\ pid \in pools /\ Stage(dev[pid])
      /\ machine.nrxq \in Nat /\ machine.ntxq \in Nat /\ machine.nhpq \in Nat
  BY <1>t, ConfigureFacts
<1>1. CASE \E x : Fail(x)
  BY <1>1, FailKeeps
<1>2. CASE /\ qid < machine.nrxq /\ pc' = "rxq" /\ qid' = qid + 1
           /\ UNCHANGED <<machine, at, ports, pools, lcoreMap, table>>
           /\ dev' = [dev EXCEPT ![pid].rxq = @ \cup {qid}]
  <2> DEFINE R(d) == [d EXCEPT !.rxq = @ \cup {qid}]
  <2>2. \A d \in Device : /\ R(d) \in Device /\ R(d).started = d.started
                          /\ R(d).nrx = d.nrx /\ R(d).promisc = d.promisc
                          /\ R(d).rxq = d.rxq \cup {qid} /\ R(d).txq = d.txq
    BY <1>f DEF Device
  <2>3. PICK d \in Device : d = R(dev[pid])
    BY <2>2, <1>f
  <2>4. /\ d.nrx = dev[pid].nrx /\ ~d.started /\ d.promisc
        /\ d.rxq = dev[pid].rxq \cup {qid} /\ d.txq = dev[pid].txq
    BY <2>2, <2>3, <1>f, <1>t DEF Stage
  <2>5. dev' = [dev EXCEPT ![pid] = d]
    BY <1>2, <2>3, <1>f
  <2>6. RxReady(d, qid + 1)
    <3>1. RxReady(dev[pid], qid)
      BY <1>f, <1>t DEF Stage
    <3>2. \A q \in 0..((qid + 1) - 1) : q \in 0..(qid - 1) \/ q = qid
      BY <1>f
    <3>3. QED
      BY <3>1, <3>2, <2>4 DEF RxReady
  <2>7. qid + 1 <= machine.nrxq /\ qid' \in Nat
    BY <1>2, <1>f
  <2>8. Stage(d)'
    BY <1>2, <2>4, <2>6, <2>7, <1>f, <1>t DEF Stage, Allotted, RxReady, TxReady
  <2>9. QED
    BY <1>2, <2>5, <2>7, <2>8, <1>f, <1>t, ConfigureStep DEF Configuring
<1>3. CASE /\ qid = machine.nrxq /\ pc' = "txq" /\ qid' = 0
           /\ UNCHANGED <<machine, at, ports, pools, lcoreMap, table>> /\ dev' = dev
  <2>1. PICK d \in Device : d = dev[pid]
    BY <1>f
  <2>2. dev' = [dev EXCEPT ![pid] = d]
    BY <1>3, <2>1, <1>f
  <2>3. RxReady(d, 0) /\ TxReady(d, 0)
    BY DEF RxReady, TxReady
  <2>4. Stage(d)'
    BY <1>3, <2>1, <2>3, <1>f, <1>t DEF Stage, Allotted, RxReady, TxReady
  <2>5. QED
    BY <1>3, <2>2, <2>4, <1>f, <1>t, ConfigureStep DEF Configuring
<1>4. QED
  BY <1>1, <1>2, <1>3 DEF RxqSetup, Goto, devVars, distVars

(* One transmit queue more. *)
LEMMA TxqSetupKeeps ==
  ASSUME SetupInv, TxqSetup
  PROVE  SetupInv'
<1>t. pc = "txq" /\ pc \in Configuring \ {"isolate"}
  BY DEF TxqSetup, Configuring
<1>f. /\ at \in 1..Len(ports) /\ qid \in Nat
      /\ dev \in [PortIds -> Device] /\ pid \in PortIds /\ dev[pid] \in Device
      /\ pid \in pools /\ Stage(dev[pid])
      /\ machine.nrxq \in Nat /\ machine.ntxq \in Nat /\ machine.nhpq \in Nat
  BY <1>t, ConfigureFacts
<1>1. CASE \E x : Fail(x)
  BY <1>1, FailKeeps
<1>2. CASE /\ qid < machine.ntxq /\ pc' = "txq" /\ qid' = qid + 1
           /\ UNCHANGED <<machine, at, ports, pools, lcoreMap, table>>
           /\ dev' = [dev EXCEPT ![pid].txq = @ \cup {qid}]
  <2> DEFINE R(d) == [d EXCEPT !.txq = @ \cup {qid}]
  <2>2. \A d \in Device : /\ R(d) \in Device /\ R(d).started = d.started
                          /\ R(d).nrx = d.nrx /\ R(d).promisc = d.promisc
                          /\ R(d).txq = d.txq \cup {qid} /\ R(d).rxq = d.rxq
    BY <1>f DEF Device
  <2>3. PICK d \in Device : d = R(dev[pid])
    BY <2>2, <1>f
  <2>4. /\ d.nrx = dev[pid].nrx /\ ~d.started /\ d.promisc
        /\ d.txq = dev[pid].txq \cup {qid} /\ d.rxq = dev[pid].rxq
    BY <2>2, <2>3, <1>f, <1>t DEF Stage
  <2>5. dev' = [dev EXCEPT ![pid] = d]
    BY <1>2, <2>3, <1>f
  <2>6. TxReady(d, qid + 1)
    <3>1. TxReady(dev[pid], qid)
      BY <1>f, <1>t DEF Stage
    <3>2. \A q \in 0..((qid + 1) - 1) : q \in 0..(qid - 1) \/ q = qid
      BY <1>f
    <3>3. QED
      BY <3>1, <3>2, <2>4 DEF TxReady
  <2>7. qid + 1 <= machine.ntxq /\ qid' \in Nat
    BY <1>2, <1>f
  <2>8. Stage(d)'
    BY <1>2, <2>4, <2>6, <2>7, <1>f, <1>t DEF Stage, Allotted, RxReady, TxReady
  <2>9. QED
    BY <1>2, <2>5, <2>7, <2>8, <1>f, <1>t, ConfigureStep DEF Configuring
<1>3. CASE /\ qid = machine.ntxq /\ pc' = "hairpin" /\ qid' = 0
           /\ UNCHANGED <<machine, at, ports, pools, lcoreMap, table>> /\ dev' = dev
  <2>1. PICK d \in Device : d = dev[pid]
    BY <1>f
  <2>2. dev' = [dev EXCEPT ![pid] = d]
    BY <1>3, <2>1, <1>f
  <2>3. RxReady(d, 0) /\ TxReady(d, 0)
    BY DEF RxReady, TxReady
  <2>4. Stage(d)'
    BY <1>3, <2>1, <2>3, <1>f, <1>t DEF Stage, Allotted, RxReady, TxReady
  <2>5. QED
    BY <1>3, <2>2, <2>4, <1>f, <1>t, ConfigureStep DEF Configuring
<1>4. QED
  BY <1>1, <1>2, <1>3 DEF TxqSetup, Goto, devVars, distVars

(* Hairpin queues lie behind the ordinary ones, however many were bound. *)
LEMMA HairpinQueueSetupKeeps ==
  ASSUME SetupInv, HairpinQueueSetup
  PROVE  SetupInv'
<1>t. pc = "hairpin" /\ pc \in Configuring \ {"isolate"}
  BY DEF HairpinQueueSetup, Configuring
<1>f. /\ at \in 1..Len(ports) /\ qid \in Nat
      /\ dev \in [PortIds -> Device] /\ pid \in PortIds /\ dev[pid] \in Device
      /\ pid \in pools /\ Stage(dev[pid])
      /\ machine.nrxq \in Nat /\ machine.ntxq \in Nat /\ machine.nhpq \in Nat
  BY <1>t, ConfigureFacts
<1>1. PICK n \in 0..machine.nhpq :
        dev' = [dev EXCEPT ![pid].hairpin = machine.nrxq..(machine.nrxq + n - 1)]
  BY DEF HairpinQueueSetup
<1>2. UNCHANGED <<machine, at, ports, pools, lcoreMap, table>> /\ pc' = "start" /\ qid' = qid
  BY DEF HairpinQueueSetup, Goto, distVars
<1>3. PICK H \in SUBSET Nat : H = machine.nrxq..(machine.nrxq + n - 1)
  <2>1. machine.nrxq..(machine.nrxq + n - 1) \subseteq Nat
    BY <1>f
  <2>2. QED
    BY <2>1
<1>4. \A q \in H : q >= machine.nrxq
  BY <1>3, <1>f
<1> DEFINE R(d) == [d EXCEPT !.hairpin = H]
<1>5. \A d \in Device : /\ R(d) \in Device /\ R(d).started = d.started /\ R(d).hairpin = H
                        /\ R(d).nrx = d.nrx /\ R(d).promisc = d.promisc
                        /\ R(d).rxq = d.rxq /\ R(d).txq = d.txq
  BY DEF Device
<1>6. PICK d \in Device : d = R(dev[pid])
  BY <1>5, <1>f
<1>7. /\ d.nrx = dev[pid].nrx /\ ~d.started /\ d.promisc /\ d.hairpin = H
      /\ d.rxq = dev[pid].rxq /\ d.txq = dev[pid].txq
  BY <1>5, <1>6, <1>f, <1>t DEF Stage
<1>8. dev' = [dev EXCEPT ![pid] = d]
  BY <1>1, <1>3, <1>6, <1>f
<1>9. Stage(d)'
  BY <1>2, <1>4, <1>7, <1>f, <1>t DEF Stage, Allotted, HairpinOK, RxReady, TxReady
<1>10. QED
  BY <1>2, <1>8, <1>9, <1>f, <1>t, ConfigureStep DEF Configuring

(* The device starts, with everything set up. *)
LEMMA StartKeeps ==
  ASSUME SetupInv, Start
  PROVE  SetupInv'
<1>t. pc = "start" /\ pc \in Configuring \ {"isolate"}
  BY DEF Start, Configuring
<1>f. /\ at \in 1..Len(ports) /\ qid \in Nat
      /\ dev \in [PortIds -> Device] /\ pid \in PortIds /\ dev[pid] \in Device
      /\ pid \in pools /\ Stage(dev[pid])
      /\ machine.nrxq \in Nat /\ machine.ntxq \in Nat /\ machine.nhpq \in Nat
  BY <1>t, ConfigureFacts
<1>1. CASE \E x : Fail(x)
  BY <1>1, FailKeeps
<1>2. CASE ~\E x : Fail(x)
  <2>1. /\ UNCHANGED <<machine, at, ports, pools, lcoreMap, table>> /\ pc' = "rss" /\ qid' = qid
        /\ dev' = [dev EXCEPT ![pid].started = TRUE]
    BY <1>2 DEF Start, Goto, distVars
  <2> DEFINE R(d) == [d EXCEPT !.started = TRUE]
  <2>2. \A d \in Device : /\ R(d) \in Device /\ R(d).started /\ R(d).hairpin = d.hairpin
                          /\ R(d).nrx = d.nrx /\ R(d).promisc = d.promisc
                          /\ R(d).rxq = d.rxq /\ R(d).txq = d.txq
    BY DEF Device
  <2>3. PICK d \in Device : d = R(dev[pid])
    BY <2>2, <1>f
  <2>4. /\ d.nrx = dev[pid].nrx /\ d.started /\ d.promisc = dev[pid].promisc
        /\ d.hairpin = dev[pid].hairpin
        /\ d.rxq = dev[pid].rxq /\ d.txq = dev[pid].txq
    BY <2>2, <2>3, <1>f
  <2>5. dev' = [dev EXCEPT ![pid] = d]
    BY <2>1, <2>3, <1>f
  <2>6. Ready(d)
    BY <2>4, <1>f, <1>t DEF Stage, Ready, Allotted, HairpinOK, RxReady, TxReady
  <2>7. Stage(d)'
    BY <2>1, <2>4, <2>6 DEF Stage, Ready, Allotted, HairpinOK, RxReady, TxReady
  <2>8. QED
    BY <2>1, <2>5, <2>7, <1>f, <1>t, ConfigureStep DEF Configuring
<1>3. QED
  BY <1>1, <1>2

(* The port is done, the next one has not been touched. *)
LEMMA RssConfigKeeps ==
  ASSUME SetupInv, RssConfig
  PROVE  SetupInv'
<1>t. pc = "rss" /\ pc \in Configuring \ {"isolate"}
  BY DEF RssConfig, Configuring
<1>f. /\ at \in 1..Len(ports) /\ qid \in Nat
      /\ dev \in [PortIds -> Device] /\ pid \in PortIds /\ dev[pid] \in Device
      /\ pid \in pools /\ Stage(dev[pid])
      /\ machine.nrxq \in Nat /\ machine.ntxq \in Nat /\ machine.nhpq \in Nat
  BY <1>t, ConfigureFacts
<1>1. CASE \E x : Fail(x)
  BY <1>1, FailKeeps
<1>2. CASE ~\E x : Fail(x)
  <2>1. /\ UNCHANGED <<machine, qid, ports, pools, dev, lcoreMap, table>>
        /\ pc' = "isolate" /\ at' = at + 1
    BY <1>2 DEF RssConfig, devVars, distVars
  <2>2. SetupTypeOK' /\ StartedReady'
    BY <2>1, <1>f DEF SetupInv, SetupTypeOK, StartedReady, Configuring
  <2>3. Listed(CountTotal)' /\ (Below(CountTotal) \subseteq pools)'
    BY <2>1, <1>t DEF SetupInv, ListInv, Listed, Below, CountTotal
  <2>4. ListInv'
    BY <2>1, <2>3, <1>f DEF ListInv, Configuring
  <2>5. MapInv' /\ TableInv'
    BY <2>1, <1>t DEF SetupInv, MapInv, TableInv, Listing, Configuring, Distributed
  <2>6. DevInv'
    <3>1. \A i \in 1..Len(ports) : i < at + 1 => i < at \/ i = at
      BY <1>f
    <3>2. \A i \in 1..Len(ports) : i > at + 1 \/ i = at + 1 => i > at
      BY <1>f
    <3>3. Ready(dev[pid])
      BY <1>f, <1>t DEF Stage
    <3>4. \A i \in 1..Len(ports) : i < at + 1 => Ready(dev[ports[i]])
      BY <3>1, <3>3, <1>t DEF SetupInv, DevInv, pid
    <3>5. \A i \in 1..Len(ports) : i > at + 1 \/ i = at + 1 => ~dev[ports[i]].started
      BY <3>2, <1>t DEF SetupInv, DevInv
    <3>6. \A i \in 1..Len(ports) : i < at + 1 => Ready(dev[ports[i]])'
      BY <3>4, <2>1 DEF Ready, Allotted, HairpinOK, RxReady, TxReady
    <3>7. QED
      BY <3>5, <3>6, <2>1 DEF DevInv, Listing, Configuring, Configured, Distributed
  <2>7. QED
    BY <2>2, <2>4, <2>5, <2>6 DEF SetupInv
<1>3. QED
  BY <1>1, <1>2

(* Once all ports are configured nothing touches the devices any more. *)
LEMMA ConfiguredStep ==
  ASSUME SetupInv, pc \in Configured, pc' \in Configured,
         UNCHANGED <<machine, ports, qid, pools, dev>>, at' \in Nat, at' >= 1
  PROVE  SetupTypeOK' /\ ListInv' /\ DevInv' /\ StartedReady'
<1> USE DEF SetupInv
<1>1. SetupTypeOK' /\ StartedReady'
  BY DEF SetupTypeOK, StartedReady
<1>2. Listed(CountTotal)' /\ (Below(CountTotal) \subseteq pools)'
  BY DEF ListInv, Listed, Below, CountTotal, Configured, Distributed
<1>3. ListInv'
  BY <1>2 DEF ListInv, Configuring, Configured, Distributed
<1>4. \A i \in 1..Len(ports) : Ready(dev[ports[i]])'
  BY DEF DevInv, Ready, Allotted, HairpinOK, RxReady, TxReady
<1>5. DevInv'
  BY <1>4 DEF DevInv, Listing, Configuring, Configured, Distributed
<1>6. QED
  BY <1>1, <1>3, <1>5

(* NewStats: the lcores are shared out from an empty map. *)
LEMMA NewStatsKeeps ==
  ASSUME SetupInv, NewStats
  PROVE  SetupInv'
<1>1. CASE \E x : Fail(x)
  BY <1>1, FailKeeps
<1>2. CASE ~\E x : Fail(x)
  <2>1. /\ UNCHANGED <<machine, qid, ports, pools, dev, lcoreMap, table>>
        /\ pc = "stats" /\ pc' = "dissect" /\ at' = 1
    BY <1>2 DEF NewStats, devVars, distVars
  <2>2. SetupTypeOK' /\ ListInv' /\ DevInv' /\ StartedReady'
    BY <2>1, ConfiguredStep DEF Configured
  <2>3. DOMAIN lcoreMap = {} /\ MapInv' /\ TableInv'
    BY <2>1 DEF SetupInv, MapInv, TableInv, Listing, Configuring, Distributed
  <2>4. QED
    BY <2>2, <2>3 DEF SetupInv
<1>3. QED
  BY <1>1, <1>2

(* dissectLcores: a worker that comes later is not in the map yet. *)
LEMMA dissectLcoresKeeps ==
  ASSUME SetupInv, dissectLcores
  PROVE  SetupInv'
<1>t. /\ pc = "dissect" /\ at \in Nat /\ at >= 1 /\ machine \in Machine
      /\ LcoresWorker \in Seq(Nat) /\ Len(LcoresWorker) \in Nat
      /\ \A i, j \in 1..Len(LcoresWorker) : LcoresWorker[i] = LcoresWorker[j] => i = j
      /\ \A i \in 1..Len(LcoresWorker) : LcoresWorker[i] \in Workers
      /\ DOMAIN table = {}
  BY SnifferSetupAssumption
  DEF dissectLcores, SetupInv, SetupTypeOK, ListInv, TableInv, Distributed, Workers, Range
<1>u. UNCHANGED <<machine, qid, ports, pools, dev, table>>
  BY DEF dissectLcores, devVars
<1>v. pc' \in {"dissect", "distribute"} /\ at' \in Nat /\ at' >= 1
  BY <1>t DEF dissectLcores
<1>1. SetupTypeOK' /\ ListInv' /\ DevInv' /\ StartedReady'
  BY <1>u, <1>v, <1>t, ConfiguredStep DEF Configured, Distributed
<1>2. CASE at <= Len(LcoresWorker) /\ pc' = pc /\ at' = at + 1
           /\ LET l == LcoresWorker[at] IN lcoreMap' = Affine(LcoreToSocket(l), l)
  <2>1. PICK l \in Workers : l = LcoresWorker[at]
    BY <1>2, <1>t
  <2>2. PICK s \in Sockets : s = LcoreToSocket(l)
    BY <1>t, <2>1 DEF LcoreToSocket, Machine
  <2>3. lcoreMap' = Affine(s, l)
    BY <1>2, <2>1, <2>2
  <2>4. DOMAIN lcoreMap' = DOMAIN lcoreMap \cup {s}
    BY <2>3 DEF Affine
  <2>5. \A t \in DOMAIN lcoreMap : t # s => lcoreMap'[t] = lcoreMap[t]
    BY <2>3 DEF Affine
  <2>6. /\ s \in DOMAIN lcoreMap => lcoreMap'[s] = Append(lcoreMap[s], l)
        /\ s \notin DOMAIN lcoreMap => lcoreMap'[s] = <<l>>
    BY <2>3 DEF Affine
  <2>7. \A t \in DOMAIN lcoreMap :
          /\ FreeInv(t)
          /\ \A i \in 1..Len(lcoreMap[t]) :
               \E j \in 1..Len(LcoresWorker) : j < at /\ lcoreMap[t][i] = LcoresWorker[j]
    BY <1>t DEF SetupInv, MapInv
  <2>8. at \in 1..Len(LcoresWorker)
    BY <1>2, <1>t
  <2>9. \A t \in DOMAIN lcoreMap : \A i \in 1..Len(lcoreMap[t]) : lcoreMap[t][i] # l
    BY <2>7, <2>8, <2>1, <1>t
  <2>10. ASSUME NEW t \in DOMAIN lcoreMap'
         PROVE  /\ FreeInv(t)'
                /\ \A i \in 1..Len(lcoreMap'[t]) :
                     \E j \in 1..Len(LcoresWorker) :
                       j < at + 1 /\ lcoreMap'[t][i] = LcoresWorker[j]
    <3>l. \A j \in 1..Len(LcoresWorker) : j < at => j < at + 1
      BY <1>t
    <3>1. CASE t # s
      <4>1. t \in DOMAIN lcoreMap /\ lcoreMap'[t] = lcoreMap[t]
        BY <3>1, <2>4, <2>5
      <4>2. QED
        BY <4>1, <2>7, <3>l, <1>u DEF FreeInv, LcoreToSocket
    <3>2. CASE t = s /\ s \notin DOMAIN lcoreMap
      <4>1. lcoreMap'[t] = <<l>> /\ l \in Workers
        BY <3>2, <2>6
      <4>2. FreeInv(t)'
        BY <4>1, <3>2, <2>2, <1>t, <1>u DEF FreeInv, LcoreToSocket
      <4>3. at < at + 1
        BY <1>t
      <4>4. QED
        BY <4>1, <4>2, <4>3, <2>1, <2>8
    <3>3. CASE t = s /\ s \in DOMAIN lcoreMap
      <4>1. PICK q \in Seq(Workers) : q = lcoreMap[s]
        BY <3>3, <2>7 DEF FreeInv
      <4>2. PICK r \in Seq(Workers) : r = lcoreMap'[s] /\ r = Append(q, l)
        BY <4>1, <3>3, <2>6
      <4>3. /\ Len(q) \in Nat /\ Len(r) = Len(q) + 1 /\ r[Len(q) + 1] = l
            /\ \A i \in 1..Len(q) : r[i] = q[i]
        BY <4>2
      <4>4. \A i \in 1..Len(r) : i \in 1..Len(q) \/ i = Len(q) + 1
        BY <4>3
      <4>5. /\ \A i \in 1..Len(q) : LcoreToSocket(q[i]) = s /\ q[i] # l
            /\ \A i, j \in 1..Len(q) : q[i] = q[j] => i = j
            /\ \A i \in 1..Len(q) :
                 \E j \in 1..Len(LcoresWorker) : j < at /\ q[i] = LcoresWorker[j]
        BY <4>1, <3>3, <2>7, <2>9 DEF FreeInv
      <4>6. \A i \in 1..Len(r) : LcoreToSocket(r[i]) = s
        BY <4>3, <4>4, <4>5, <2>2
      <4>7. \A i, j \in 1..Len(r) : r[i] = r[j] => i = j
        BY <4>3, <4>4, <4>5
      <4>8. FreeInv(t)'
        <5>1. lcoreMap'[t] = r /\ DOMAIN table' = {} /\ machine' = machine
          BY <4>2, <3>3, <1>t, <1>u
        <5>2. \A i \in 1..Len(r) : machine.lcoreSocket[r[i]] = t
          BY <4>6, <3>3 DEF LcoreToSocket
        <5>3. QED
          BY <5>1, <5>2, <4>2, <4>7 DEF FreeInv, LcoreToSocket
      <4>9. at < at + 1
        BY <1>t
      <4>10. \A i \in 1..Len(r) :
               \E j \in 1..Len(LcoresWorker) : j < at + 1 /\ r[i] = LcoresWorker[j]
        BY <4>3, <4>4, <4>5, <4>9, <3>l, <2>1, <2>8
      <4>11. QED
        BY <4>2, <4>8, <4>10, <3>3
    <3>4. QED
      BY <3>1, <3>2, <3>3
  <2>11. MapInv'
    BY <2>10, <1>2, <1>t DEF MapInv, Listing, Configuring
  <2>12. TableInv'
    BY <1>2, <1>t, <1>u DEF SetupInv, TableInv, Distributed
  <2>13. QED
    BY <1>1, <2>11, <2>12 DEF SetupInv
<1>3. CASE pc' = "distribute" /\ at' = 1 /\ lcoreMap' = lcoreMap
  <2>1. MapInv'
    BY <1>3, <1>t, <1>u DEF SetupInv, MapInv, FreeInv, LcoreToSocket, Listing, Configuring
  <2>2. \A i \in 1..Len(ports) : ~(i <= 1 - 1)
    OBVIOUS
  <2>3. TableInv'
    BY <1>3, <1>t, <1>u, <2>2 DEF TableInv, Distributed, Served
  <2>4. QED
    BY <1>1, <2>1, <2>3 DEF SetupInv
<1>4. QED
  BY <1>2, <1>3 DEF dissectLcores

(* One port more: each of its queues gets a free lcore of its own. *)
LEMMA AssignServes ==
  ASSUME NEW n \in Nat, NEW k, NEW q \in Seq(Workers), NEW ls \in Seq(Workers),
         NEW r \in Seq(Workers)
  PROVE  /\ SetupInv /\ pc = "distribute" /\ at \in 1..Len(ports)
         /\ UNCHANGED <<machine, ports, dev>> /\ at' = at + 1
         /\ n = dev[pid].nrx /\ 0 < n /\ n <= Len(q)
         /\ k \in DOMAIN lcoreMap /\ k = SocketID /\ q = lcoreMap[k]
         /\ Len(ls) = n /\ (\A i \in 1..n : ls[i] = q[i])
         /\ Len(r) = Len(q) - n /\ (\A i \in 1..Len(r) : r[i] = q[n + i])
         /\ table' = Assign(ls) /\ lcoreMap' = [lcoreMap EXCEPT ![k] = r]
         => Served(at - 1)' /\ \A s \in DOMAIN lcoreMap' : FreeInv(s)'
<1>h. HAVE /\ SetupInv /\ pc = "distribute" /\ at \in 1..Len(ports)
           /\ UNCHANGED <<machine, ports, dev>> /\ at' = at + 1
           /\ n = dev[pid].nrx /\ 0 < n /\ n <= Len(q)
           /\ k \in DOMAIN lcoreMap /\ k = SocketID /\ q = lcoreMap[k]
           /\ Len(ls) = n /\ (\A i \in 1..n : ls[i] = q[i])
           /\ Len(r) = Len(q) - n /\ (\A i \in 1..Len(r) : r[i] = q[n + i])
           /\ table' = Assign(ls) /\ lcoreMap' = [lcoreMap EXCEPT ![k] = r]
<1>p. /\ pid \in PortIds
      /\ \A i \in 1..Len(ports) : ports[i] \in PortIds /\ (ports[i] = pid => i = at)
  BY <1>h, PidListed DEF Configured, Distributed
<1>a. /\ at \in Nat /\ at >= 1 /\ Served(at - 1) /\ \A s \in DOMAIN lcoreMap : FreeInv(s)
  BY <1>h DEF SetupInv, SetupTypeOK, ListInv, MapInv, TableInv
<1>u. UNCHANGED <<machine, ports, dev>>
  BY <1>h
<1>n. PICK m \in Nat : m = Len(q) /\ n <= m /\ Len(r) = m - n
  BY <1>h
<1>e. (\A i \in 1..n : ls[i] = q[i]) /\ (\A i \in 1..Len(r) : r[i] = q[n + i])
  BY <1>h
<1>7. /\ \A i \in 1..m : LcoreToSocket(q[i]) = k /\ q[i] \notin DOMAIN table
      /\ \A i, j \in 1..m : q[i] = q[j] => i = j
  BY <1>h, <1>a, <1>n DEF FreeInv
<1>8. /\ \A i \in 1..n : i \in 1..m
      /\ \A i \in 1..(m - n) : n + i \in 1..m /\ n + i \notin 1..n
  BY <1>n
<1>9. /\ \A i \in 1..n : ls[i] \in Range(ls)
      /\ \A l \in Range(ls) : \E i \in 1..n : l = ls[i]
  <2>1. DOMAIN ls = 1..n
    BY <1>h
  <2>2. QED
    BY <2>1 DEF Range
<1>l. \A i, j \in 1..n : ls[i] = ls[j] => i = j
  BY <1>e, <1>7, <1>8
(* The lcore of queue i - 1 is the one at place i. *)
<1>10. \A i \in 1..n : (CHOOSE j \in 1..Len(ls) : ls[j] = ls[i]) = i
  BY <1>h, <1>l
<1>11. table' = Assign(ls) /\ lcoreMap' = [lcoreMap EXCEPT ![k] = r] /\ k \in DOMAIN lcoreMap
  BY <1>h
<1>12. DOMAIN table' = DOMAIN table \cup Range(ls)
  BY <1>11 DEF Assign
<1>13. \A i \in 1..n : table'[ls[i]] = [Pid |-> pid, RxQid |-> i - 1]
  BY <1>9, <1>10, <1>11 DEF Assign
<1>14. \A l \in DOMAIN table : l \notin Range(ls) /\ table'[l] = table[l]
  <2>1. \A l \in DOMAIN table : l \notin Range(ls)
    BY <1>e, <1>7, <1>8, <1>9
  <2>2. QED
    BY <2>1, <1>11 DEF Assign
<1>15. \A l \in DOMAIN table' : l \in DOMAIN table \/ \E i \in 1..n : l = ls[i]
  BY <1>9, <1>12
<1>16. Served(at - 1)'
  <2>o. PICK z \in Nat : z = at - 1 /\ z + 1 = at
    BY <1>a
  <2>m. Served(z)
    BY <2>o, <1>a
  <2>i. \A i \in 1..Len(ports) : /\ i <= at => i <= z \/ i = at
                                 /\ i <= z => i <= at /\ i # at
    BY <2>o, <1>a
  <2>1. ASSUME NEW i \in 1..Len(ports), i <= at, NEW x \in 0..(dev[ports[i]].nrx - 1)
        PROVE  \E l \in DOMAIN table' : Serves(l, ports[i], x)'
    <3>1. CASE i = at
      <4>1. x + 1 \in 1..n /\ (x + 1) - 1 = x
        <5>1. dev[ports[i]].nrx = n
          BY <3>1, <1>h DEF pid
        <5>2. QED
          BY <2>1, <5>1
      <4>2. ls[x + 1] \in DOMAIN table'
        BY <4>1, <1>9, <1>12
      <4>3. table'[ls[x + 1]] = [Pid |-> pid, RxQid |-> x]
        BY <4>1, <1>13
      <4>4. LcoreToSocket(ls[x + 1]) = k
        BY <4>1, <1>e, <1>7, <1>8
      <4>5. QED
        BY <4>2, <4>3, <4>4, <3>1, <1>h DEF Serves, LcoreToSocket, SocketID, pid
    <3>2. CASE i <= z
      <4>1. PICK l \in DOMAIN table : Serves(l, ports[i], x)
        BY <3>2, <2>1, <2>m DEF Served
      <4>2. QED
        BY <4>1, <1>12, <1>14, <1>u DEF Serves, LcoreToSocket
    <3>3. QED
      BY <3>1, <3>2, <2>1, <2>i
  <2>2. ASSUME NEW l \in DOMAIN table'
        PROVE  \E i \in 1..Len(ports) : \E x \in 0..(dev[ports[i]].nrx - 1) :
                 i <= at /\ table'[l] = [Pid |-> ports[i], RxQid |-> x]
    <3>1. CASE l \in DOMAIN table
      BY <3>1, <1>14, <2>m, <2>i DEF Served
    <3>2. CASE \E i \in 1..n : l = ls[i]
      <4>1. PICK i \in 1..n : l = ls[i]
        BY <3>2
      <4>2. i - 1 \in 0..(dev[ports[at]].nrx - 1) /\ at <= at
        <5>1. dev[ports[at]].nrx = n
          BY <1>h DEF pid
        <5>2. QED
          BY <5>1, <1>a
      <4>3. QED
        BY <4>1, <4>2, <1>13, <1>h DEF pid
    <3>3. QED
      BY <3>1, <3>2, <1>15
  <2>3. ASSUME NEW l \in DOMAIN table, NEW i \in 1..n
        PROVE  table'[l] # table'[ls[i]]
    <3>1. PICK j \in 1..Len(ports) : \E x : j <= z /\ table[l] = [Pid |-> ports[j], RxQid |-> x]
      BY <2>m DEF Served
    <3>2. ports[j] # pid
      BY <3>1, <2>i, <1>p
    <3>3. table'[l].Pid = ports[j] /\ table'[ls[i]].Pid = pid
      <4>1. PICK x : table[l] = [Pid |-> ports[j], RxQid |-> x]
        BY <3>1
      <4>2. table'[l] = [Pid |-> ports[j], RxQid |-> x]
        BY <4>1, <1>14
      <4>3. table'[ls[i]] = [Pid |-> pid, RxQid |-> i - 1]
        BY <1>13
      <4>4. QED
        BY <4>2, <4>3
    <3>4. QED
      BY <3>2, <3>3
  <2>4. ASSUME NEW g \in DOMAIN table', NEW l \in DOMAIN table', table'[g] = table'[l]
        PROVE  g = l
    <3>1. CASE g \in DOMAIN table /\ l \in DOMAIN table
      BY <3>1, <2>4, <1>14, <2>m DEF Served
    <3>2. CASE \E i, j \in 1..n : g = ls[i] /\ l = ls[j]
      <4>1. PICK i \in 1..n, j \in 1..n : g = ls[i] /\ l = ls[j]
        BY <3>2
      <4>2. i - 1 = j - 1
        <5>1. table'[g].RxQid = i - 1 /\ table'[l].RxQid = j - 1
          <6>1. /\ table'[g] = [Pid |-> pid, RxQid |-> i - 1]
                /\ table'[l] = [Pid |-> pid, RxQid |-> j - 1]
            BY <4>1, <1>13
          <6>2. QED
            BY <6>1
        <5>2. QED
          BY <5>1, <2>4
      <4>3. QED
        BY <4>1, <4>2
    <3>3. QED
      BY <3>1, <3>2, <2>3, <2>4, <1>15
  <2>5. QED
    <3>1. at' - 1 = at
      BY <1>h, <1>a
    <3>2. QED
      BY <2>1, <2>2, <2>4, <3>1, <1>u DEF Served
<1>17. ASSUME NEW s \in DOMAIN lcoreMap'
       PROVE  FreeInv(s)'
  <2>1. s \in DOMAIN lcoreMap /\ lcoreMap'[s] = IF s = k THEN r ELSE lcoreMap[s]
    BY <1>11
  <2>2. CASE s = k
    <3>1. \A i \in 1..Len(r) : /\ LcoreToSocket(r[i]) = k
                               /\ r[i] \notin DOMAIN table /\ r[i] \notin Range(ls)
      BY <1>n, <1>e, <1>7, <1>8, <1>9
    <3>2. \A i, j \in 1..Len(r) : r[i] = r[j] => i = j
      <4>1. \A i, j \in 1..Len(r) : r[i] = r[j] => n + i = n + j
        BY <1>n, <1>e, <1>7, <1>8
      <4>2. QED
        BY <4>1, <1>n
    <3>3. QED
      BY <2>1, <2>2, <3>1, <3>2, <1>12, <1>u DEF FreeInv, LcoreToSocket
  <2>3. CASE s # k
    <3>1. FreeInv(s) /\ lcoreMap'[s] = lcoreMap[s]
      BY <2>1, <2>3, <1>a
    <3>2. \A i \in 1..Len(lcoreMap[s]) : lcoreMap[s][i] \notin Range(ls)
      <4>1. \A l \in Range(ls) : LcoreToSocket(l) = k
        BY <1>e, <1>7, <1>8, <1>9
      <4>2. \A i \in 1..Len(lcoreMap[s]) : LcoreToSocket(lcoreMap[s][i]) = s
        BY <3>1 DEF FreeInv
      <4>3. QED
        BY <4>1, <4>2, <2>3
    <3>3. QED
      BY <3>1, <3>2, <1>12, <1>u DEF FreeInv, LcoreToSocket
  <2>4. QED
    BY <2>2, <2>3
<1>18. QED
  BY <1>16, <1>17

(* What distributeQueuesPort leaves in lcoreMap: lcores[nRx:]. *)
LEMMA RestOfSeq ==
  ASSUME NEW S, NEW q \in Seq(S), NEW n \in Nat, n <= Len(q)
  PROVE  /\ SubSeq(q, n + 1, Len(q)) \in Seq(S)
         /\ Len(SubSeq(q, n + 1, Len(q))) = Len(q) - n
         /\ \A i \in 1..(Len(q) - n) : SubSeq(q, n + 1, Len(q))[i] = q[n + i]
<1>1. PICK m \in Nat : m = Len(q) /\ n <= m
  OBVIOUS
<1>2. PICK a \in Nat \ {0} : a = n + 1 /\ a <= m + 1
  BY <1>1
<1>3. SubSeq(q, a, m) \in Seq(S)
  BY <1>1, <1>2
<1>4. PICK r \in Seq(S) : r = SubSeq(q, a, m)
  BY <1>3
<1>5. Len(r) = m - n
  BY <1>1, <1>2, <1>4
<1>6. ASSUME NEW i \in 1..Len(r) PROVE r[i] = q[n + i]
  <2>1. r[i] = q[a + i - 1]
    BY <1>1, <1>2, <1>4, <1>5
  <2>2. a + i - 1 = n + i
    BY <1>2, <1>5
  <2>3. QED
    BY <2>1, <2>2
<1>7. QED
  BY <1>1, <1>2, <1>4, <1>5, <1>6

(* distributeQueuesPort, or the end of its loop over the ports. *)
LEMMA DistributeQueuesKeeps ==
  ASSUME SetupInv, DistributeQueues
  PROVE  SetupInv'
<1>t. pc = "distribute" /\ at \in Nat /\ at >= 1 /\ ports \in Seq(PortIds)
  BY DEF SetupInv, SetupTypeOK, ListInv, DistributeQueues
<1>1. CASE \E x : Fail(x)
  BY <1>1, FailKeeps
<1>2. CASE /\ at <= Len(ports) /\ SocketID \in DOMAIN lcoreMap
           /\ dev[pid].nrx \in 1..Len(lcoreMap[SocketID])
           /\ table' = Assign(SubSeq(lcoreMap[SocketID], 1, dev[pid].nrx))
           /\ lcoreMap' = [lcoreMap EXCEPT ![SocketID] =
                             SubSeq(@, dev[pid].nrx + 1, Len(@))]
           /\ at' = at + 1 /\ pc' = pc
           /\ UNCHANGED <<machine, qid, ports, devVars>>
  <2>u. UNCHANGED <<machine, qid, ports, pools, dev>> /\ pc' = "distribute" /\ at' = at + 1
    BY <1>2, <1>t DEF devVars
  <2>1. SetupTypeOK' /\ ListInv' /\ DevInv' /\ StartedReady'
    BY <2>u, <1>t, ConfiguredStep DEF Configured, Distributed
  <2>2. PICK k \in DOMAIN lcoreMap : k = SocketID
    BY <1>2
  <2>3. PICK q \in Seq(Workers) : q = lcoreMap[k]
    BY <2>2, <1>t DEF SetupInv, MapInv, FreeInv
  <2>4. PICK n \in Nat : n = dev[pid].nrx /\ 0 < n /\ n <= Len(q)
    BY <1>2, <2>2, <2>3
  <2>5. PICK ls \in Seq(Workers) :
          ls = SubSeq(q, 1, n) /\ Len(ls) = n /\ \A i \in 1..n : ls[i] = q[i]
    <3>1. /\ SubSeq(q, 1, n) \in Seq(Workers) /\ Len(SubSeq(q, 1, n)) = n
          /\ \A i \in 1..n : SubSeq(q, 1, n)[i] = q[i]
      BY <2>4
    <3>2. QED
      BY <3>1
  <2>6. PICK r \in Seq(Workers) :
          /\ r = SubSeq(q, n + 1, Len(q)) /\ Len(r) = Len(q) - n
          /\ \A i \in 1..Len(r) : r[i] = q[n + i]
    <3>1. n <= Len(q)
      BY <2>4
    <3>2. /\ SubSeq(q, n + 1, Len(q)) \in Seq(Workers)
          /\ Len(SubSeq(q, n + 1, Len(q))) = Len(q) - n
          /\ \A i \in 1..(Len(q) - n) : SubSeq(q, n + 1, Len(q))[i] = q[n + i]
      BY <3>1, RestOfSeq, Zenon
    <3>3. QED
      BY <3>2
  <2>7. table' = Assign(ls)
    BY <1>2, <2>2, <2>3, <2>4, <2>5
  <2>8. lcoreMap' = [lcoreMap EXCEPT ![k] = r]
    BY <1>2, <2>2, <2>3, <2>4, <2>6
  <2>9. at \in 1..Len(ports)
    BY <1>2, <1>t
  <2>10. Served(at - 1)' /\ \A s \in DOMAIN lcoreMap' : FreeInv(s)'
    <3>1. /\ SetupInv /\ pc = "distribute" /\ at \in 1..Len(ports)
          /\ UNCHANGED <<machine, ports, dev>> /\ at' = at + 1
          /\ n = dev[pid].nrx /\ 0 < n /\ n <= Len(q)
          /\ k \in DOMAIN lcoreMap /\ k = SocketID /\ q = lcoreMap[k]
          /\ Len(ls) = n /\ (\A i \in 1..n : ls[i] = q[i])
          /\ Len(r) = Len(q) - n /\ (\A i \in 1..Len(r) : r[i] = q[n + i])
          /\ table' = Assign(ls) /\ lcoreMap' = [lcoreMap EXCEPT ![k] = r]
      BY <2>2, <2>3, <2>4, <2>5, <2>6, <2>7, <2>8, <2>9, <2>u, <1>t
    <3>2. QED
      BY <3>1, AssignServes, Zenon
  <2>11. MapInv' /\ TableInv'
    BY <2>10, <2>u DEF MapInv, TableInv, Listing, Configuring, Distributed
  <2>12. QED
    BY <2>1, <2>11 DEF SetupInv
<1>3. CASE /\ at > Len(ports) /\ at' = 1 /\ pc' = "flows"
           /\ UNCHANGED <<machine, qid, ports, devVars, distVars>>
  <2>u. UNCHANGED <<machine, qid, ports, pools, dev, lcoreMap, table>>
    BY <1>3 DEF devVars, distVars
  <2>1. SetupTypeOK' /\ ListInv' /\ DevInv' /\ StartedReady'
    BY <1>3, <2>u, <1>t, ConfiguredStep DEF Configured, Distributed
  <2>2. Served(at - 1)
    BY <1>t DEF SetupInv, TableInv
  <2>3. \A i \in 1..Len(ports) : i <= at - 1
    BY <1>3, <1>t
  <2>4. Served(Len(ports))
    BY <2>2, <2>3 DEF Served
  <2>5. Served(Len(ports))'
    BY <2>4, <2>u DEF Served, Serves, LcoreToSocket
  <2>6. MapInv' /\ TableInv'
    BY <2>5, <1>3 DEF MapInv, TableInv, Listing, Configuring, Distributed
  <2>7. QED
    BY <2>1, <2>6 DEF SetupInv
<1>4. QED
  BY <1>1, <1>2, <1>3 DEF DistributeQueues

(* The flow rules are the last step. *)
LEMMA CreateFlowsKeeps ==
  ASSUME SetupInv, CreateFlows
  PROVE  SetupInv'
<1>t. pc = "flows" /\ at \in Nat
  BY DEF SetupInv, SetupTypeOK, CreateFlows
<1>1. CASE \E x : Fail(x)
  BY <1>1, FailKeeps
<1>2. CASE ~\E x : Fail(x)
  <2>u. UNCHANGED <<machine, qid, ports, pools, dev, lcoreMap, table>>
    BY <1>2 DEF CreateFlows, devVars, distVars
  <2>v. pc' \in {"flows", "running"} /\ at' \in Nat
    BY <1>2, <1>t DEF CreateFlows
  <2>1. SetupTypeOK' /\ StartedReady'
    BY <2>u, <2>v DEF SetupInv, SetupTypeOK, StartedReady, Configured, Distributed
  <2>2. Listed(CountTotal)' /\ (Below(CountTotal) \subseteq pools)'
    BY <2>u, <1>t DEF SetupInv, ListInv, Listed, Below, CountTotal, Configured, Distributed
  <2>3. ListInv'
    BY <2>2, <2>v DEF ListInv, Configuring
  <2>4. \A i \in 1..Len(ports) : Ready(dev[ports[i]])'
    BY <2>u, <1>t
    DEF SetupInv, DevInv, Ready, Allotted, HairpinOK, RxReady, TxReady, Configured, Distributed
  <2>5. DevInv'
    BY <2>4, <2>u, <2>v DEF DevInv, Listing, Configuring
  <2>6. Served(Len(ports))'
    BY <2>u, <1>t DEF SetupInv, TableInv, Served, Serves, LcoreToSocket
  <2>7. MapInv' /\ TableInv'
    BY <2>6, <2>v DEF MapInv, TableInv, Listing, Configuring, Distributed
  <2>8. QED
    BY <2>1, <2>3, <2>5, <2>7 DEF SetupInv
<1>3. QED
  BY <1>1, <1>2

(* SetupInv is an invariant of newApp. *)
LEMMA SetupInvariant == Spec => []SetupInv
<1>1. Init => SetupInv
  BY SetupInitEstablishes
<1>2. SetupInv /\ [Next]_vars => SetupInv'
  <2> SUFFICES ASSUME SetupInv, [Next]_vars PROVE SetupInv'
    OBVIOUS
  <2>1. CASE Next
    BY <2>1, NewMempoolPerPortKeeps, ListPortsKeeps, IsolateKeeps, DevConfigureKeeps,
       PromiscEnableKeeps, RxqSetupKeeps, TxqSetupKeeps, HairpinQueueSetupKeeps, StartKeeps,
       RssConfigKeeps, NewStatsKeeps, dissectLcoresKeeps, DistributeQueuesKeeps,
       CreateFlowsKeeps
    DEF Next
  <2>2. CASE UNCHANGED vars
    <3>1. UNCHANGED <<machine, pc, at, qid, ports, pools, dev, lcoreMap, table>>
      BY <2>2 DEF vars, devVars, distVars
    <3>2. SetupTypeOK' /\ ListInv' /\ StartedReady'
      BY <3>1 DEF SetupInv, SetupTypeOK, ListInv, Listed, Below, CountTotal, StartedReady
    <3>3. DevInv'
      BY <3>1 DEF SetupInv, DevInv, Stage, Ready, Allotted, HairpinOK, RxReady, TxReady, pid
    <3>4. MapInv' /\ TableInv'
      BY <3>1 DEF SetupInv, MapInv, TableInv, FreeInv, Served, Serves, LcoreToSocket
    <3>5. QED
      BY <3>2, <3>3, <3>4 DEF SetupInv
  <2>3. QED
    BY <2>1, <2>2
<1>3. QED
  BY <1>1, <1>2, PTL DEF Spec

(* Port.Start is reached only behind DevConfigure, PromiscEnable and all   *)
(* RxqSetup and TxqSetup of EthdevConfig.Configure, each receive queue     *)
(* with the mempool NewMempoolPerPort made for its port.                   *)
THEOREM DevicesStartReady == Spec => []StartedReady
<1>1. SetupInv => StartedReady
  BY DEF SetupInv
<1>2. QED
  BY <1>1, SetupInvariant, PTL

(* DistributeQueues gives each receive queue of each port newApp knows of  *)
(* exactly one lcore, on the NUMA node of the port, for any machine.       *)
THEOREM QueuesAreServed == Spec => []AllQueuesServed
<1>1. SetupInv => AllQueuesServed
  <2>1. SUFFICES ASSUME SetupInv, pc = "running", NEW p \in machine.attached, p < CountTotal,
                        NEW q \in 0..(dev[p].nrx - 1)
                 PROVE  \E l \in DOMAIN table :
                          /\ table[l] = [Pid |-> p, RxQid |-> q]
                          /\ LcoreToSocket(l) = machine.socket[p]
                          /\ \A k \in DOMAIN table : table[k] = table[l] => k = l
    BY DEF AllQueuesServed
  <2>2. Listed(CountTotal) /\ Served(Len(ports)) /\ ports \in Seq(PortIds)
    BY <2>1 DEF SetupInv, SetupTypeOK, ListInv, TableInv, Configured, Distributed
  <2>3. PICK i \in 1..Len(ports) : ports[i] = p /\ i <= Len(ports)
    BY <2>1, <2>2 DEF Listed, Below
  <2>4. PICK l \in DOMAIN table : Serves(l, p, q)
    BY <2>1, <2>2, <2>3 DEF Served
  <2>5. QED
    BY <2>2, <2>4 DEF Served, Serves
<1>2. QED
  BY <1>1, SetupInvariant, PTL

(* LcoreFunc polls, and transmits on, queues that Configure set up on a    *)
(* device it started, or the ids behind them that DevConfigure allots to   *)
(* the hairpin queues, for any numbers of queues.                          *)
THEOREM WorkersPollReadyQueues == Spec => []PolledReady
<1>1. SetupInv => PolledReady
  <2>1. SUFFICES ASSUME SetupInv, pc = "running", NEW l \in DOMAIN table
                 PROVE  /\ dev[table[l].Pid].started
                        /\ \/ table[l].RxQid \in dev[table[l].Pid].rxq \ dev[table[l].Pid].hairpin
                           \/ table[l].RxQid \in machine.nrxq..(machine.nrxq + machine.nhpq - 1)
                        /\ \/ table[l].RxQid \in dev[table[l].Pid].txq
                           \/ table[l].RxQid >= machine.ntxq
    BY DEF PolledReady
  <2>2. /\ Served(Len(ports)) /\ \A i \in 1..Len(ports) : Ready(dev[ports[i]])
        /\ machine \in Machine
    BY <2>1 DEF SetupInv, SetupTypeOK, DevInv, TableInv, Configured, Distributed
  <2>3. PICK i \in 1..Len(ports) : \E q \in 0..(dev[ports[i]].nrx - 1) :
          table[l] = [Pid |-> ports[i], RxQid |-> q]
    BY <2>1, <2>2 DEF Served
  <2>4. PICK q \in 0..(dev[ports[i]].nrx - 1) : table[l] = [Pid |-> ports[i], RxQid |-> q]
    BY <2>3
  <2>5. PICK d : d = dev[ports[i]]
    OBVIOUS
  <2>6. /\ Ready(d) /\ machine.nrxq \in Nat /\ machine.ntxq \in Nat /\ machine.nhpq \in Nat
    BY <2>2, <2>5, SnifferSetupAssumption DEF Machine
  <2>7. q \in 0..(machine.nrxq + machine.nhpq - 1)
    BY <2>4, <2>5, <2>6 DEF Ready, Allotted
  <2>8. d.started
    BY <2>6 DEF Ready
  <2>9. \/ q \in d.rxq \ d.hairpin
        \/ q \in machine.nrxq..(machine.nrxq + machine.nhpq - 1)
    <3>1. CASE q < machine.nrxq
      <4>1. q \in 0..(machine.nrxq - 1) /\ ~(q >= machine.nrxq)
        BY <3>1, <2>6, <2>7
      <4>2. QED
        BY <4>1, <2>6 DEF Ready, RxReady, HairpinOK
    <3>2. CASE q >= machine.nrxq
      BY <3>2, <2>6, <2>7
    <3>3. QED
      BY <3>1, <3>2, <2>6, <2>7
  <2>10. q \in d.txq \/ q >= machine.ntxq
    <3>1. CASE q < machine.ntxq
      <4>1. q \in 0..(machine.ntxq - 1)
        BY <3>1, <2>6, <2>7
      <4>2. QED
        BY <4>1, <2>6 DEF Ready, TxReady
    <3>2. QED
      BY <3>1, <2>6, <2>7
  <2>11. table[l].Pid = ports[i] /\ table[l].RxQid = q
    BY <2>4
  <2>12. QED
    BY <2>5, <2>8, <2>9, <2>10, <2>11
<1>2. QED
  BY <1>1, SetupInvariant, PTL
=============================================================================
