--------------------------- MODULE PipelineBuild ---------------------------
(***************************************************************************)
(* Building and using a pipeline (package pipeline) while other goroutines *)
(* make calls of their own (CCalls).  The pipeline itself belongs to DPDK: *)
(* its ports, tables, entries and counters are modelled from what the      *)
(* bindings pass and receive.  One goroutine, Builder, owns it; view is    *)
(* what that goroutine has been told.  rte_pipeline_check wants an input   *)
(* port, an output port, a table, and every input port connected.          *)
(***************************************************************************)
EXTENDS CCalls, Sequences, FiniteSets

CONSTANTS
  Builder,
  MaxPorts,     \* RTE_PIPELINE_PORT_IN_MAX, ..._PORT_OUT_MAX, ..._TABLE_MAX
  Keys,         \* keys of table entries
  MaxPackets    \* bound on the packets of one behaviour

VARIABLES
  pl,      \* struct rte_pipeline
  view,    \* what the owner knows: ids, entries and packets it has counted
  ran      \* history: packets the pipeline has read from its input ports

vars == <<memVars, callVars, pl, view, ran>>

ASSUME BuilderAssumption == Builder \in Goroutines

NoPipeline == [live |-> FALSE, ins |-> <<>>, outs |-> <<>>, tables |-> <<>>]
NoView == [live |-> FALSE, ins |-> <<>>, outs |-> <<>>, tables |-> <<>>,
           entries |-> 0, packets |-> 0, checked |-> FALSE]

Init ==
  /\ MemInit /\ CallInit
  /\ pl = NoPipeline
  /\ view = NoView
  /\ ran = 0

AtRest == call[Builder].at = "done"
InLib == <<memVars, callVars>>

(***************************************************************************)
(* Create, PortInCreate, PortOutCreate and TableCreate                     *)
(***************************************************************************)
Build(c) ==
  /\ (c.builds = "pipeline") = ~view.live
  /\ Prepare(Builder, c) \/ PreparePanics(Builder, c)
  /\ UNCHANGED <<pl, view, ran>>

\* rte_pipeline_*_create appends to the list the call names and writes the index.
Appended(list, new) ==
  /\ Len(pl[list]) < MaxPorts
  /\ LeaveC(Builder, 0, Len(pl[list]))
  /\ pl' = [pl EXCEPT ![list] = Append(@, new)]

BuildLeaveC ==
  /\ call[Builder].at = "inC"
  /\ CASE call[Builder].builds = "pipeline" ->
            LeaveC(Builder, 0, 0) /\ pl' = [NoPipeline EXCEPT !.live = TRUE]
       [] call[Builder].builds = "in" -> Appended("ins", [table |-> {}, on |-> FALSE, n |-> 0])
       [] call[Builder].builds = "out" -> Appended("outs", "out")
       [] call[Builder].builds = "table" -> Appended("tables", {})
       [] OTHER -> LeaveC(Builder, 0, 0) /\ UNCHANGED pl
  /\ UNCHANGED <<view, ran>>

\* The names of the lists by what a call builds.
ListOf(builds) ==
  CASE builds = "in" -> "ins" [] builds = "out" -> "outs" [] OTHER -> "tables"

\* Mutant: the id is returned without the error.
ReturnedIdOnly(c) ==
  CASE c.builds = "pipeline" -> [view EXCEPT !.live = c.said = Nil]
    [] c.builds \in {"in", "out", "table"} ->
         [view EXCEPT ![ListOf(c.builds)] = Append(@, c.id), !.checked = FALSE]
    [] OTHER -> view

\* What the owner learns when the function returns: a handle, or an id.
Returned(c) ==
  CASE c.builds = "pipeline" -> [view EXCEPT !.live = c.said = Nil]
    [] c.builds \in {"in", "out", "table"} /\ c.said = Nil ->
         [view EXCEPT ![ListOf(c.builds)] = Append(@, c.id), !.checked = FALSE]
    [] OTHER -> view

BuildReturn ==
  /\ Release(Builder)
  /\ view' = Returned(call[Builder])
  /\ UNCHANGED <<pl, ran>>

(***************************************************************************)
(* Calls on a pipeline that take no C memory                               *)
(***************************************************************************)
Using == view.live /\ AtRest /\ UNCHANGED InLib

ConnectToTable(i, t) ==
  /\ Using
  /\ pl' = [pl EXCEPT !.ins[i].table = {t}]
  /\ UNCHANGED <<view, ran>>

Enable(i) ==
  /\ Using
  /\ pl' = [pl EXCEPT !.ins[i].on = TRUE]
  /\ UNCHANGED <<view, ran>>

Disable(i) ==
  /\ Using
  /\ pl' = [pl EXCEPT !.ins[i].on = FALSE]
  /\ UNCHANGED <<view, ran>>

Consistent ==
  /\ pl.ins # <<>> /\ pl.outs # <<>> /\ pl.tables # <<>>
  /\ \A i \in DOMAIN pl.ins : pl.ins[i].table # {}

Check ==
  /\ Using
  /\ view' = [view EXCEPT !.checked = Consistent]
  /\ UNCHANGED <<pl, ran>>

\* Every input port that is enabled is read once.
Run ==
  /\ Using /\ view.checked
  /\ LET on == {i \in DOMAIN pl.ins : pl.ins[i].on}
     IN /\ ran + Cardinality(on) <= MaxPackets
        /\ ran' = ran + Cardinality(on)
        /\ pl' = [pl EXCEPT !.ins = [i \in DOMAIN pl.ins |->
                    IF i \in on THEN [pl.ins[i] EXCEPT !.n = @ + 1] ELSE pl.ins[i]]]
  /\ UNCHANGED view

\* The library says whether the key was there: an entry that is replaced is not
\* counted again.
TableEntryAdd(t, k) ==
  LET found == k \in pl.tables[t]
  IN /\ Using
     /\ pl' = [pl EXCEPT !.tables[t] = @ \cup {k}]
     /\ view' = [view EXCEPT !.entries = @ + IF found THEN 0 ELSE 1]
     /\ UNCHANGED ran

TableEntryDelete(t, k) ==
  LET found == k \in pl.tables[t]
  IN /\ Using
     /\ pl' = [pl EXCEPT !.tables[t] = @ \ {k}]
     /\ view' = [view EXCEPT !.entries = @ - IF found THEN 1 ELSE 0]
     /\ UNCHANGED ran

\* The owner adds up the reads that clear the counters and only looks at others.
StatsRead(i, clear) ==
  /\ Using
  /\ pl' = IF clear THEN [pl EXCEPT !.ins[i].n = 0] ELSE pl
  /\ view' = IF clear THEN [view EXCEPT !.packets = @ + pl.ins[i].n] ELSE view
  /\ UNCHANGED ran

\* Free destroys ports, tables and entries with the pipeline.
FreePipeline ==
  /\ Using
  /\ pl' = NoPipeline /\ view' = NoView /\ ran' = 0

Use ==
  \/ Check \/ Run \/ FreePipeline
  \/ \E i \in DOMAIN view.ins :
       \/ Enable(i) \/ Disable(i)
       \/ \E t \in DOMAIN view.tables : ConnectToTable(i, t)
       \/ \E clear \in BOOLEAN : StatsRead(i, clear)
  \/ \E t \in DOMAIN view.tables :
       \E k \in Keys : TableEntryAdd(t, k) \/ TableEntryDelete(t, k)

(***************************************************************************)
(* The other goroutines                                                    *)
(***************************************************************************)
Session(g) ==
  /\ call[g].at = "done"
  /\ SessionMalloc(g) \/ SessionFree(g) \/ SessionRealloc(g) \/ SessionFlush(g)
  /\ UNCHANGED callVars

Others(g) ==
  /\ \/ \E c \in OtherCalls : Prepare(g, c) \/ PreparePanics(g, c)
     \/ EnterC(g)
     \/ LeaveC(g, 0, 0)
     \/ ReadErrno(g)
     \/ Release(g)
     \/ Session(g)
  /\ UNCHANGED <<pl, view, ran>>

BuilderStep ==
  \/ \E c \in BuildCalls : Build(c)
  \/ EnterC(Builder) /\ UNCHANGED <<pl, view, ran>>
  \/ BuildLeaveC
  \/ BuildReturn
  \/ Use

Fails(g) ==
  /\ \E e \in Errnos : LeaveC(g, e, 0)
  /\ UNCHANGED <<pl, view, ran>>

\* What a program does after free was given a stray pointer is not modelled.
Next ==
  /\ ~strayed
  /\ \/ BuilderStep
     \/ \E g \in Goroutines \ {Builder} : Others(g)
     \/ \E g \in Goroutines : Fails(g)

Spec == Init /\ [][Next]_vars

(***************************************************************************)
(* Properties                                                              *)
(***************************************************************************)
\* The sum of a sequence of numbers.
Total(s) ==
  LET upto[n \in 0..Len(s)] == IF n = 0 THEN 0 ELSE upto[n - 1] + s[n]
  IN upto[Len(s)]

\* Between two calls the owner's picture of its pipeline is right, failures and
\* repeated calls included: its ids are the ports and tables there are, each
\* once (PortInCreate, PortOutCreate and TableCreate return an id and an error);
\* its entries are the entries of the tables (found of TableEntryAdd and
\* TableEntryDelete); and cleared counts plus the counters are the packets run.
ViewRight ==
  AtRest =>
    /\ \A list \in {"ins", "outs", "tables"} :
         view[list] = [i \in DOMAIN pl[list] |-> i - 1]
    /\ view.entries = Total([t \in DOMAIN pl.tables |-> Cardinality(pl.tables[t])])
    /\ view.packets + Total([i \in DOMAIN pl.ins |-> pl.ins[i].n]) = ran

\* "Flush releases all previously allocated memory in this session"
\* (common/allocator.go:70): a block of a session stays among its ptrs until it
\* is freed, whichever method of the session is called and fails.
SessionRemembers ==
  [][\A g \in Goroutines : Session(g) =>
       \A a \in ptrs[g] \ {NULL} : owner'[a] = g => a \in ptrs'[g]]_vars
=============================================================================
