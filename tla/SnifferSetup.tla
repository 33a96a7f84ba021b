---------------------------- MODULE SnifferSetup ----------------------------
(***************************************************************************)
(* How app/test-sniffer brings its ports up and shares their queues out    *)
(* among the worker lcores: newApp (init.go) with NewMempoolPerPort        *)
(* (mempool.go), EthdevConfig.Configure (port.go), RssConfig (util.go),    *)
(* NewStats (stats.go) and DistributeQueues (lcores.go).                   *)
(*                                                                         *)
(* Everything runs on the main lcore, one step after the other, and every  *)
(* step may fail: newApp then returns and the program ends in main.        *)
(* Init leaves the machine and the command line open: which port ids are   *)
(* attached, the NUMA nodes of ports and lcores, the numbers of queues.    *)
(***************************************************************************)
EXTENDS Naturals, Integers, Sequences, FiniteSets, Functions

CONSTANTS
  PortIds,       (* ids a port can have: 0 .. RTE_MAX_ETHPORTS - 1 *)
  LcoresWorker,  (* what eal.LcoresWorker() returns, a sequence of ids *)
  Sockets,       (* NUMA nodes *)
  QueueCounts,   (* values of -nrxq and -ntxq *)
  HairpinCounts  (* values of -nhpq *)

ASSUME SnifferSetupAssumption ==
  /\ PortIds \subseteq Nat /\ IsFiniteSet(PortIds) /\ PortIds # {}
  /\ LcoresWorker \in Seq(Nat)
  /\ \A i, j \in DOMAIN LcoresWorker : LcoresWorker[i] = LcoresWorker[j] => i = j
  /\ Sockets \subseteq Nat
  /\ QueueCounts \subseteq Nat /\ HairpinCounts \subseteq Nat

VARIABLES
  machine,   (* attached ports, sockets; flags: the fixed surroundings *)
  pc,        (* the step newApp is at *)
  at,        (* the port id, port or lcore that step is at *)
  qid,       (* the queue it is at *)
  err,       (* the error newApp returns *)
  ports,     (* newApp's ports slice *)
  pools,     (* ids whose mempool exists *)
  dev,       (* state of the devices in DPDK *)
  lcoreMap,  (* lcores still free, by socket *)
  table,     (* DistributeQueues' result so far *)
  flows      (* ports with a flow rule *)

devVars  == <<pools, dev>>
distVars == <<lcoreMap, table>>
vars == <<machine, pc, at, qid, err, ports, devVars, distVars, flows>>

Workers == Range(LcoresWorker)

Machine ==
  [attached : SUBSET PortIds, socket : [PortIds -> Sockets \cup {-1}],
   lcoreSocket : [Workers -> Sockets],
   nrxq : QueueCounts, ntxq : QueueCounts, nhpq : HairpinCounts, isolate : BOOLEAN]

(* A device: queues it was configured with and those set up, and whether   *)
(* it is promiscuous and started.                                          *)
Device ==
  [nrx : Nat, ntx : Nat, rxq : SUBSET Nat, txq : SUBSET Nat, hairpin : SUBSET Nat,
   promisc : BOOLEAN, started : BOOLEAN]

Closed == [nrx |-> 0, ntx |-> 0, rxq |-> {}, txq |-> {}, hairpin |-> {},
           promisc |-> FALSE, started |-> FALSE]

Init ==
  /\ machine \in Machine
  /\ pc = "mempool" /\ at = 0 /\ qid = 0 /\ err = "nil"
  /\ ports = <<>>
  /\ pools = {}
  /\ dev = [p \in PortIds |-> Closed]
  /\ lcoreMap = [s \in {} |-> <<>>]
  /\ table = [l \in {} |-> <<>>]
  /\ flows = {}

(* rte_eth_dev_count_total and rte_eth_dev_is_valid_port *)
CountTotal == Cardinality(machine.attached)
IsValid(p) == p \in machine.attached

(* A step fails with error e, and newApp with it. *)
Fail(e) ==
  /\ err' = e
  /\ pc' = "failed"
  /\ UNCHANGED <<machine, at, qid, ports, devVars, distVars, flows>>

(* The step at the current port succeeds and goes on to step s. *)
Goto(s) == pc' = s /\ UNCHANGED <<machine, at, err, ports, flows>>

-----------------------------------------------------------------------------
(* NewMempoolPerPort: a loop over the ids below the number of ports. *)

NewMempoolPerPort ==
  /\ pc = "mempool"
  /\ \/ /\ at < CountTotal
        /\ \/ /\ pools' = IF IsValid(at) THEN pools \cup {at} ELSE pools
              /\ at' = at + 1
              /\ UNCHANGED <<machine, pc, qid, err, ports, dev, distVars, flows>>
           \/ IsValid(at) /\ Fail("ENOMEM")
     \/ /\ at = CountTotal
        /\ pc' = "list" /\ at' = 0
        /\ UNCHANGED <<machine, qid, err, ports, devVars, distVars, flows>>

(* newApp's own list of the valid ids below the number of ports. *)
ListPorts ==
  /\ pc = "list"
  /\ \/ /\ at < CountTotal
        /\ ports' = IF IsValid(at) THEN Append(ports, at) ELSE ports
        /\ at' = at + 1 /\ UNCHANGED pc
     \/ /\ at = CountTotal
        /\ pc' = "isolate" /\ at' = 1 /\ UNCHANGED ports
  /\ UNCHANGED <<machine, qid, err, devVars, distVars, flows>>

(* The port of newApp's loops over ports. *)
pid == ports[at]

(* flow.Isolate, for every port before its configuration. *)
Isolate ==
  /\ pc = "isolate"
  /\ \/ /\ at <= Len(ports)
        /\ \/ Goto("configure") /\ UNCHANGED <<qid, devVars, distVars>>
           \/ machine.isolate /\ Fail("flow")
     \/ /\ at > Len(ports)
        /\ Goto("stats") /\ UNCHANGED <<qid, devVars, distVars>>

-----------------------------------------------------------------------------
(* EthdevConfig.Configure *)

(* InfoGet and DevConfigure, which allots queues but sets none of them up. *)
DevConfigure ==
  /\ pc = "configure"
  /\ \/ Fail("dpdk")
     \/ /\ dev' = [dev EXCEPT ![pid].nrx = machine.nrxq + machine.nhpq,
                              ![pid].ntx = machine.ntxq + machine.nhpq,
                              ![pid].rxq = {}, ![pid].txq = {}]
        /\ Goto("promisc") /\ UNCHANGED <<qid, pools, distVars>>

PromiscEnable ==
  /\ pc = "promisc"
  /\ \/ Fail("dpdk")
     \/ /\ dev' = [dev EXCEPT ![pid].promisc = TRUE]
        /\ qid' = 0
        /\ Goto("rxq") /\ UNCHANGED <<pools, distVars>>

(* Mutant: the last receive queue is not set up. *)
RxqSetupShort ==
  /\ pc = "rxq"
  /\ \/ /\ qid + 1 < machine.nrxq
        /\ dev' = [dev EXCEPT ![pid].rxq = @ \cup {qid}]
        /\ qid' = qid + 1
        /\ Goto("rxq") /\ UNCHANGED <<pools, distVars>>
     \/ /\ qid + 1 >= machine.nrxq
        /\ qid' = 0
        /\ Goto("txq") /\ UNCHANGED <<devVars, distVars>>

(* GetRxMempool and RxqSetup, queue by queue.  GetRxMempool does not look  *)
(* whether the port has a pool: it returns pools[pid], nil if there is     *)
(* none.                                                                   *)
RxqSetup ==
  /\ pc = "rxq"
  /\ \/ /\ qid < machine.nrxq
        /\ \/ Fail("dpdk")
           \/ /\ dev' = [dev EXCEPT ![pid].rxq = @ \cup {qid}]
              /\ qid' = qid + 1
              /\ Goto("rxq") /\ UNCHANGED <<pools, distVars>>
     \/ /\ qid = machine.nrxq
        /\ qid' = 0
        /\ Goto("txq") /\ UNCHANGED <<devVars, distVars>>

TxqSetup ==
  /\ pc = "txq"
  /\ \/ /\ qid < machine.ntxq
        /\ \/ Fail("dpdk")
           \/ /\ dev' = [dev EXCEPT ![pid].txq = @ \cup {qid}]
              /\ qid' = qid + 1
              /\ Goto("txq") /\ UNCHANGED <<pools, distVars>>
     \/ /\ qid = machine.ntxq
        /\ qid' = 0
        /\ Goto("hairpin") /\ UNCHANGED <<devVars, distVars>>

(* setup_hairpin_queues binds the receive queues behind the ordinary ones  *)
(* to transmit queues of the device, one by one; Configure ignores how far *)
(* it came.  They carry traffic inside the device, software may not poll   *)
(* them.                                                                   *)
HairpinQueueSetup ==
  /\ pc = "hairpin"
  /\ \E n \in 0..machine.nhpq :
       dev' = [dev EXCEPT ![pid].hairpin = machine.nrxq..(machine.nrxq + n - 1)]
  /\ Goto("start") /\ UNCHANGED <<qid, pools, distVars>>

(* Mutant: Port.Start is not among the OnConfig callbacks. *)
StartMissing ==
  /\ pc = "start"
  /\ Goto("rss") /\ UNCHANGED <<qid, devVars, distVars>>

(* OnConfig: Port.Start, then RssConfig, which may install a flow rule. *)
Start ==
  /\ pc = "start"
  /\ \/ Fail("OnConfig")
     \/ /\ dev' = [dev EXCEPT ![pid].started = TRUE]
        /\ Goto("rss") /\ UNCHANGED <<qid, pools, distVars>>

RssConfig ==
  /\ pc = "rss"
  /\ \/ Fail("OnConfig")
     \/ /\ at' = at + 1
        /\ pc' = "isolate"
        /\ UNCHANGED <<machine, qid, err, ports, devVars, distVars, flows>>

-----------------------------------------------------------------------------
(* NewStats, then DistributeQueues *)

NewStats ==
  /\ pc = "stats"
  /\ \/ Fail("xstats")
     \/ /\ pc' = "dissect" /\ at' = 1
        /\ UNCHANGED <<machine, qid, err, ports, devVars, distVars, flows>>

LcoreToSocket(l) == machine.lcoreSocket[l]

(* lcoreMap with lcore l behind the others of socket s. *)
Affine(s, l) ==
  [t \in DOMAIN lcoreMap \cup {s} |->
     IF t # s THEN lcoreMap[t] ELSE IF s \in DOMAIN lcoreMap THEN Append(lcoreMap[s], l) ELSE <<l>>]

dissectLcores ==
  /\ pc = "dissect"
  /\ \/ /\ at <= Len(LcoresWorker)
        /\ LET l == LcoresWorker[at] IN lcoreMap' = Affine(LcoreToSocket(l), l)
        /\ at' = at + 1 /\ UNCHANGED pc
     \/ /\ at > Len(LcoresWorker)
        /\ pc' = "distribute" /\ at' = 1 /\ UNCHANGED lcoreMap
  /\ UNCHANGED <<machine, qid, err, ports, devVars, table, flows>>

SocketID == machine.socket[pid]

(* table with receive queue i - 1 of the current port on lcore ls[i]. *)
Assign(ls) ==
  [l \in DOMAIN table \cup Range(ls) |->
     IF l \in Range(ls)
     THEN [Pid |-> pid, RxQid |-> (CHOOSE i \in 1..Len(ls) : ls[i] = l) - 1]
     ELSE table[l]]

(* Mutant: the lcores a port took stay in lcoreMap. *)
DistributeQueuesKeep ==
  /\ pc = "distribute"
  /\ LET nrx == dev[pid].nrx
         lcores == lcoreMap[SocketID]
     IN \/ /\ at <= Len(ports)
           /\ SocketID \in DOMAIN lcoreMap
           /\ nrx \in 1..Len(lcores)
           /\ table' = Assign(SubSeq(lcores, 1, nrx))
           /\ at' = at + 1
           /\ UNCHANGED <<machine, pc, qid, err, ports, devVars, lcoreMap, flows>>
        \/ /\ at > Len(ports)
           /\ at' = 1
           /\ pc' = "flows"
           /\ UNCHANGED <<machine, qid, err, ports, devVars, distVars, flows>>

(* distributeQueuesPort for one port, InfoGet first, or the end of the     *)
(* loop.                                                                   *)
DistributeQueues ==
  /\ pc = "distribute"
  /\ LET nrx == dev[pid].nrx
         lcores == lcoreMap[SocketID]
     IN \/ /\ at <= Len(ports)
           /\ \/ Fail("dpdk")
              \/ SocketID < 0 /\ Fail("ErrInvalid")
              \/ SocketID >= 0 /\ SocketID \notin DOMAIN lcoreMap /\ Fail("ErrNotExist")
              \/ /\ SocketID \in DOMAIN lcoreMap
                 /\ \/ nrx = 0 /\ Fail("ErrClosed")
                    \/ nrx > Len(lcores) /\ Fail("too few lcores")
                    \/ /\ nrx \in 1..Len(lcores)
                       /\ table' = Assign(SubSeq(lcores, 1, nrx))
                       /\ lcoreMap' = [lcoreMap EXCEPT ![SocketID] = SubSeq(@, nrx + 1, Len(@))]
                       /\ at' = at + 1
                       /\ UNCHANGED <<machine, pc, qid, err, ports, devVars, flows>>
        \/ /\ at > Len(ports)
           /\ at' = 1
           /\ pc' = "flows"
           /\ UNCHANGED <<machine, qid, err, ports, devVars, distVars, flows>>

(* flow.Validate and flow.Create for every port, when isolated. *)
CreateFlows ==
  /\ pc = "flows"
  /\ \/ /\ at <= Len(ports) /\ machine.isolate
        /\ \/ Fail("flow")
           \/ /\ flows' = flows \cup {pid}
              /\ at' = at + 1
              /\ UNCHANGED <<machine, pc, qid, err, ports, devVars, distVars>>
     \/ /\ at > Len(ports) \/ ~machine.isolate
        /\ pc' = "running"
        /\ UNCHANGED <<machine, at, qid, err, ports, devVars, distVars, flows>>

-----------------------------------------------------------------------------

Next ==
  \/ NewMempoolPerPort \/ ListPorts \/ Isolate \/ DevConfigure \/ PromiscEnable \/ RxqSetup
  \/ TxqSetup \/ HairpinQueueSetup \/ Start \/ RssConfig \/ NewStats
  \/ dissectLcores \/ DistributeQueues \/ CreateFlows

Spec == Init /\ [][Next]_vars

-----------------------------------------------------------------------------
(* Properties *)

(* When the sniffer runs, every receive queue of every attached port is    *)
(* served by exactly one lcore, which sits on the NUMA node of the port:   *)
(* no port took lcores away from one that was served before it.  Only      *)
(* ports behind a hole in the ids, from CountTotal on, are overlooked.     *)
AllQueuesServed ==
  pc = "running" =>
    \A p \in machine.attached : p < CountTotal =>
      \A q \in 0..(dev[p].nrx - 1) :
        \E l \in DOMAIN table :
          /\ table[l] = [Pid |-> p, RxQid |-> q]
          /\ LcoreToSocket(l) = machine.socket[p]
          /\ \A k \in DOMAIN table : table[k] = table[l] => k = l

(* A device runs only with its ordinary queues set up, each receive queue  *)
(* with a mempool behind it.                                               *)
StartedReady ==
  \A p \in PortIds : dev[p].started =>
    /\ p \in pools /\ dev[p].promisc
    /\ 0..(machine.nrxq - 1) \subseteq dev[p].rxq
    /\ 0..(machine.ntxq - 1) \subseteq dev[p].txq

(* A worker polls, and sends on, a queue that was set up on a started      *)
(* device, as far as DistributeQueues counts the ordinary ones: the only   *)
(* others are the ids allotted to hairpin queues, which NbRxQueues counts  *)
(* in, and transmit ids from ntxq on (LcoreFunc transmits on the queue it  *)
(* receives from).                                                         *)
PolledReady ==
  pc = "running" =>
    \A l \in DOMAIN table :
      LET d == dev[table[l].Pid]
          q == table[l].RxQid
      IN /\ d.started
         /\ \/ q \in d.rxq \ d.hairpin
            \/ q \in machine.nrxq..(machine.nrxq + machine.nhpq - 1)
         /\ q \in d.txq \/ q >= machine.ntxq
=============================================================================
