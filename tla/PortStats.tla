----------------------------- MODULE PortStats -----------------------------
(***************************************************************************)
(* Statistics of the Ethernet ports: Stats.Report of app/test-sniffer      *)
(* (stats.go), driven by the ticker of main.go, on top of Stats.Diff,      *)
(* StatsGet and XstatGetByID of ethdev (ethdev/stats.go).                  *)
(*                                                                         *)
(* The counters of a device grow while Report walks over the ports.  For   *)
(* every port Report reads the basic statistics, adds what Diff computed   *)
(* to the Prometheus counters of the port and swaps the two snapshots;     *)
(* then it does the same for the extended statistics without Diff.  Any    *)
(* read may fail, which ends this Report and leaves the rest of the ports  *)
(* to the next tick.                                                       *)
(***************************************************************************)
EXTENDS Naturals

CONSTANTS
  NPorts,    (* number of ports *)
  Fields,    (* the 64-bit counters of a port *)
  MaxCount,  (* bound: events counted on one field of one port *)
  MaxResets  (* bound: resets of the statistics of a device *)

ASSUME PortStatsAssumption ==
  NPorts \in Nat \ {0} /\ MaxCount \in Nat /\ MaxResets \in Nat

VARIABLES
  hw,        (* counters of the devices *)
  total,     (* history: events that ever happened *)
  resets,    (* history: number of resets so far *)
  phase,     (* Report waits for the ticker, or is at a port's basic or extended part *)
  port,      (* the port it is at *)
  diffStats, (* the variable of Report that Diff writes to *)
  prevStats, curStats,  (* portStat.basic *)
  counter,              (* portStat.basic.iPackets ... rxNoMbuf *)
  dropped,              (* history: growth from zero, which Diff leaves out *)
  prevVals, curVals,    (* portStat.extended *)
  xcounter              (* portStat.extended.counters *)

hwVars   == <<hw, total, resets>>
basicVars == <<diffStats, prevStats, curStats, counter, dropped>>
xVars     == <<prevVals, curVals, xcounter>>
statsVars == <<hwVars, phase, port, basicVars, xVars>>

Ports == 1..NPorts
Zero == [f \in Fields |-> 0]

StatsInit ==
  /\ hw = [p \in Ports |-> Zero]
  /\ total = [p \in Ports |-> Zero]
  /\ resets = 0
  /\ phase = "tick"
  /\ port = 1
  /\ diffStats = Zero
  /\ prevStats = [p \in Ports |-> Zero]
  /\ curStats = [p \in Ports |-> Zero]
  /\ counter = [p \in Ports |-> Zero]
  /\ dropped = [p \in Ports |-> Zero]
  /\ prevVals = [p \in Ports |-> Zero]
  /\ curVals = [p \in Ports |-> Zero]
  /\ xcounter = [p \in Ports |-> Zero]

-----------------------------------------------------------------------------
(* The device *)

Traffic(p, f) ==
  /\ total[p][f] < MaxCount
  /\ hw' = [hw EXCEPT ![p][f] = @ + 1]
  /\ total' = [total EXCEPT ![p][f] = @ + 1]
  /\ UNCHANGED <<resets, phase, port, basicVars, xVars>>

(* StatsReset and XstatsReset, or a restart of the device. *)
StatsReset(p) ==
  /\ resets < MaxResets
  /\ resets' = resets + 1
  /\ hw' = [hw EXCEPT ![p] = Zero]
  /\ UNCHANGED <<total, phase, port, basicVars, xVars>>

-----------------------------------------------------------------------------
(* ethdev *)

(* s.Diff(old, delta): the delta that results; a field that did not grow,  *)
(* or was zero, keeps what delta held before.                              *)
Diff(s, old, delta) ==
  [f \in Fields |-> IF s[f] > old[f] /\ old[f] # 0 THEN s[f] - old[f] ELSE delta[f]]

-----------------------------------------------------------------------------
(* Report *)

(* Mutant: diffStats outlives a Report. *)
ReportKeepDiff ==
  /\ phase = "tick"
  /\ phase' = "basic"
  /\ port' = 1
  /\ UNCHANGED <<hwVars, basicVars, xVars>>

(* The ticker fires: Report starts with a zero diffStats. *)
Report ==
  /\ phase = "tick"
  /\ phase' = "basic"
  /\ port' = 1
  /\ diffStats' = Zero
  /\ UNCHANGED <<hwVars, prevStats, curStats, counter, dropped, xVars>>

(* StatsGet or XstatGetByID fails: Report returns the error. *)
ReadFails ==
  /\ phase \in {"basic", "xstats"}
  /\ phase' = "tick"
  /\ UNCHANGED <<hwVars, port, basicVars, xVars>>

(* StatsGet, Diff, add to the counters, swap the snapshots. *)
ReportBasic ==
  /\ phase = "basic"
  /\ diffStats' = Diff(hw[port], prevStats[port], diffStats)
  /\ counter' = [counter EXCEPT ![port] = [f \in Fields |-> @[f] + diffStats'[f]]]
  /\ dropped' = [dropped EXCEPT ![port] =
                   [f \in Fields |-> IF prevStats[port][f] = 0 THEN @[f] + hw[port][f] ELSE @[f]]]
  /\ prevStats' = [prevStats EXCEPT ![port] = hw[port]]
  /\ curStats' = [curStats EXCEPT ![port] = prevStats[port]]
  /\ phase' = "xstats"
  /\ UNCHANGED <<hwVars, port, xVars>>

(* What the loop over curVals adds to one counter. *)
Growth(cur, prev) == IF prev < cur THEN cur - prev ELSE 0

(* Mutant: the snapshots are not swapped. *)
ReportXstatsNoSwap ==
  /\ phase = "xstats"
  /\ xcounter' = [xcounter EXCEPT ![port] =
                    [f \in Fields |-> @[f] + Growth(hw[port][f], prevVals[port][f])]]
  /\ curVals' = [curVals EXCEPT ![port] = hw[port]]
  /\ \/ port < NPorts /\ port' = port + 1 /\ phase' = "basic"
     \/ port = NPorts /\ port' = port /\ phase' = "tick"
  /\ UNCHANGED <<hwVars, basicVars, prevVals>>

(* XstatGetByID, add, swap; then the next port or the end of Report. *)
ReportXstats ==
  /\ phase = "xstats"
  /\ xcounter' = [xcounter EXCEPT ![port] =
                    [f \in Fields |-> @[f] + Growth(hw[port][f], prevVals[port][f])]]
  /\ prevVals' = [prevVals EXCEPT ![port] = hw[port]]
  /\ curVals' = [curVals EXCEPT ![port] = prevVals[port]]
  /\ \/ port < NPorts /\ port' = port + 1 /\ phase' = "basic"
     \/ port = NPorts /\ port' = port /\ phase' = "tick"
  /\ UNCHANGED <<hwVars, basicVars>>

-----------------------------------------------------------------------------

StatsNext ==
  \/ \E p \in Ports : StatsReset(p) \/ \E f \in Fields : Traffic(p, f)
  \/ Report \/ ReadFails \/ ReportBasic \/ ReportXstats

StatsSpec == StatsInit /\ [][StatsNext]_statsVars

-----------------------------------------------------------------------------
(* Properties *)

Counters == [Ports -> [Fields -> Nat]]

(* All counters are natural numbers and Report is at a port. *)
TypeOK ==
  /\ hw \in Counters /\ total \in Counters /\ resets \in 0..MaxResets
  /\ phase \in {"tick", "basic", "xstats"} /\ port \in Ports
  /\ diffStats \in [Fields -> Nat]
  /\ prevStats \in Counters /\ curStats \in Counters /\ counter \in Counters
  /\ dropped \in Counters
  /\ prevVals \in Counters /\ curVals \in Counters /\ xcounter \in Counters

(* "Diff computes delta between s and old", and Report adds that delta to  *)
(* the Prometheus counter of the port, which therefore never exceeds the   *)
(* number of events of the port.                                           *)
BasicSound ==
  \A p \in Ports, f \in Fields : counter[p][f] <= total[p][f]

(* What the port that Report visits first shows: never more events than    *)
(* there were and, without a reset, exactly those up to the last snapshot, *)
(* less what the first snapshot that is not zero counts; a failed read of  *)
(* this or of a later port loses nothing.                                  *)
FirstPortSound ==
  \A f \in Fields :
    /\ counter[1][f] <= total[1][f]
    /\ resets = 0 => counter[1][f] + dropped[1][f] = prevStats[1][f]

(* Whatever reads fail, whenever devices restart and however traffic       *)
(* interleaves with Report, the extended counters never run ahead of the   *)
(* events, nor behind the last snapshot; without a reset they are exactly  *)
(* the last snapshot, so that a failed read loses nothing.                 *)
XstatsSound ==
  \A p \in Ports, f \in Fields :
    /\ xcounter[p][f] <= total[p][f]
    /\ prevVals[p][f] <= xcounter[p][f]
    /\ resets = 0 => prevVals[p][f] = xcounter[p][f]

(* A snapshot is never ahead of the device's history, and the snapshot a   *)
(* swap set aside is older than the current one unless the device was reset. *)
SnapshotsOrdered ==
  \A p \in Ports, f \in Fields :
    /\ prevStats[p][f] <= total[p][f] /\ prevVals[p][f] <= total[p][f]
    /\ resets = 0 => /\ curStats[p][f] <= prevStats[p][f]
                     /\ curVals[p][f] <= prevVals[p][f]
                     /\ prevStats[p][f] <= hw[p][f] /\ prevVals[p][f] <= hw[p][f]
=============================================================================
