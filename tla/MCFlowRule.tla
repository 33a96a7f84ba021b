----------------------------- MODULE MCFlowRule -----------------------------
(* Instances of FlowRule for TLC. *)
EXTENDS FlowRule

ethType == <<"type", 1>>
eth == <<"eth", 1>>
vlan == <<"vlan", 1>>
rss == <<"rss", 1>>
mac == <<"mac", 1>>
sample == <<"sample", 1>>
vxlan == <<"vxlan", 1>>

Only(o) == [Spec |-> o, Mask |-> NULL, Last |-> NULL]

(* A finalized action that may panic, with two addresses that do not, one  *)
(* with blocks of its own, one without a finalizer, and an item whose      *)
(* number is the other way round for the driver.                           *)
MixedObjs == {mac, rss, sample, vxlan}
MixedInputs ==
  [o \in MixedObjs |-> CASE o = mac -> {0, 1, 2} [] o = rss -> {0, 1}
                         [] o = vxlan -> {1, 2} [] o = sample -> {1}]
MixedRules ==
  {[pattern |-> <<>>, actions |-> <<mac, rss>>],
   [pattern |-> <<Only(vxlan)>>, actions |-> <<sample>>]}

(* 0x000001 and 0x010000 change places. *)
ThreeNumbers == [v \in 0..2 |-> IF v = 0 THEN 0 ELSE 3 - v]

(* An item with optional fields as spec, one as mask. *)
EthObjs == {ethType, eth, vlan}
EthInputs == [o \in EthObjs |-> {0, 1}]
EthRules ==
  {[pattern |-> <<[Spec |-> eth, Mask |-> vlan, Last |-> NULL], Only(ethType)>>,
    actions |-> <<>>]}

AddrSymmetry == Permutations(Addrs)
=============================================================================
