----------------------------- MODULE MCTopology -----------------------------
(***************************************************************************)
(* Topology for TLC: three nodes with GPUs, two of them in one clique and  *)
(* two in one rack, and a DRA node; two pods that come and go; pod specs   *)
(* whose request is decided by the containers, by an init container over   *)
(* a sidecar, and by a limit alone.  Of the Kueue topologies, a and b share *)
(* the block, a level that a declares alone and b above its racks; b and d *)
(* share the rack.                                                         *)
(***************************************************************************)
EXTENDS Topology

MCNodes == 1..4
MCSliced == {4}
MCGPUs == <<3, 2, 2, 0>>
MCTierNumber == ("tier-2" :> 2) @@ ("tier-10" :> 10)

NoGPU == [r \in {} |-> 0]
Want(n) == [requests |-> ("gpu" :> n), limits |-> ("gpu" :> n), restartable |-> FALSE]
Small == [init |-> <<>>, containers |-> <<Want(1)>>]
Started == [init |-> <<[Want(1) EXCEPT !.restartable = TRUE], Want(2)>>, containers |-> <<Want(1)>>]
Shared ==
  [init |-> <<Want(1)>>,
   containers |-> <<[requests |-> NoGPU, limits |-> ("gpu.shared" :> 1), restartable |-> FALSE], Want(1)>>]
MCSpecOf == <<Small, Started>>

MCJobs ==
  {[parallelism |-> p, completions |-> c, spec |-> s] :
     p \in {Unset, 2}, c \in {Unset}, s \in {Small, Started}}
  \cup {[parallelism |-> 4, completions |-> c, spec |-> Shared] : c \in {0, 2}}
  \cup {[parallelism |-> 1, completions |-> 1, spec |-> [init |-> <<>>, containers |-> <<Want(0)>>]]}

MCPlace ==
  ("clique" :> <<1, 1, 2, 2>>) @@ ("sub-domain" :> <<1, 1, 2, 2>>) @@ ("domain" :> <<1, 1, 1, 1>>)
    @@ ("tier-2" :> <<1, 2, 2, 1>>) @@ ("tier-10" :> <<1, 1, 1, 2>>)
    @@ ("rack" :> <<1, 2, 2, 3>>) @@ ("block" :> <<1, 1, 1, 2>>)
    @@ ("row" :> <<1, 2, 2, 2>>)
Labels == DOMAIN MCPlace
Worn(on, off) == [n \in MCNodes |-> IF n = 2 THEN on \ off ELSE on]
MCWearings ==
  {Worn({}, {}), Worn(Labels, {"tier-2", "rack"}), Worn({"rack", "block", "tier-2", "tier-10"}, {"tier-10"}),
   Worn({"rack", "block", "row"}, {"row"})}

MCNarrower ==
  {<<"hostname", l>> : l \in Labels \cup {"cluster"}} \cup {<<l, "cluster">> : l \in Labels}
    \cup {<<"clique", "sub-domain">>, <<"sub-domain", "domain">>, <<"clique", "domain">>,
          <<"tier-2", "tier-10">>}

Topo(name, levels) == [name |-> name, levels |-> levels]
MCTopologies ==
  <<Topo("a", <<"tier-10", "block", "zone", "clique">>), Topo("b", <<"block", "rack", "hostname">>),
    Topo("c", <<"">>), Topo("d", <<"row", "rack", "hostname">>)>>
MCFlavors == {{}, {"b", "d"}, {"a", "b", "c", "d"}}
=============================================================================
