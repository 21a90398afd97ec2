------------------------------ MODULE Networks ------------------------------
(***************************************************************************)
(* The IPv4 addresses of internet.rs: a pool holds the networks that are     *)
(* left when the reserved ones are cut out of a class, out of the private     *)
(* networks, or out of everything, and one draw over all their addresses      *)
(* picks an address or a network.  Addresses are Bits wide (32 in the code).  *)
(***************************************************************************)
EXTENDS Weights
Seqs == INSTANCE SequencesExt

CONSTANTS
  Bits,              \* bits of an address
  NetworkClasses,    \* NETWORK_CLASSES: the nets of classes a, b and c
  PrivateNetworks,   \* PRIVATE_NETWORKS
  ExcludedNetworks   \* EXCLUDED_NETWORKS

\* A network: its first address and the length of its prefix.
Net == [addr : 0..(2 ^ Bits - 1), prefix : 0..Bits]

VARIABLES
  addressing,  \* "idle", "asked", "done"
  wanted,      \* the call under way: [kind, class, network]
  address      \* the result, an address being a network of full prefix

netVars == <<addressing, wanted, address>>

NoAddress == [addr |-> 0, prefix |-> Bits]
NothingWanted == [kind |-> "all", class |-> 0, network |-> FALSE]
NetInit == addressing = "idle" /\ wanted = NothingWanted /\ address = NoAddress

-----------------------------------------------------------------------------
Size(net) == 2 ^ (Bits - net.prefix)
LastOf(net) == net.addr + Size(net) - 1
Addresses(net) == net.addr..LastOf(net)
AddressesOf(nets) == UNION {Addresses(nets[i]) : i \in 1..Len(nets)}

Covers(net, other) ==
  /\ other.prefix >= net.prefix
  /\ other.addr >= net.addr
  /\ LastOf(other) <= LastOf(net)
Overlaps(net, other) == Covers(net, other) \/ Covers(other, net)

\* The networks of the tables start at a multiple of their size; private ones
\* have nothing in common, and none is larger than its class.
Block == {net \in Net : net.addr % Size(net) = 0}

ASSUME NetworkAssumption ==
  /\ Bits \in Nat
  /\ NetworkClasses \in Seq(Block) /\ PrivateNetworks \in Seq(Block)
  /\ ExcludedNetworks \in Seq(Block)
  /\ \A i, j \in 1..Len(PrivateNetworks) :
       i # j => ~Overlaps(PrivateNetworks[i], PrivateNetworks[j])
  /\ \A i \in 1..Len(PrivateNetworks), c \in 1..Len(NetworkClasses) :
       Overlaps(PrivateNetworks[i], NetworkClasses[c]) => Covers(NetworkClasses[c], PrivateNetworks[i])

\* split: the two halves.
Low(net) == [addr |-> net.addr, prefix |-> net.prefix + 1]
High(net) == [addr |-> net.addr + Size(net) \div 2, prefix |-> net.prefix + 1]

\* Mutant of Spared: the half that is kept is the one that holds the excluded.
SparedWrongly(net, other) == IF Covers(Low(net), other) THEN Low(net) ELSE High(net)
\* The half of net without other, which exclude keeps, and the half it goes on
\* with.
Spared(net, other) == IF Covers(Low(net), other) THEN High(net) ELSE Low(net)
Halved(net, other) == IF Covers(Low(net), other) THEN Low(net) ELSE High(net)

\* exclude: net without other, which is in it.
Exclude(net, other) ==
  LET current[p \in net.prefix..other.prefix] ==
        IF p = net.prefix THEN net ELSE Halved(current[p - 1], other)
  IN [i \in 1..(other.prefix - net.prefix) |-> Spared(current[net.prefix + i - 1], other)]

\* The networks of a list that are in a set.
Among(nets, set) ==
  Seqs!FlattenSeq([i \in 1..Len(nets) |-> IF nets[i] \in set THEN <<nets[i]>> ELSE <<>>])

\* to_exclude.sort_by_key(prefix), which is stable.
ByPrefix(nets) ==
  Seqs!FlattenSeq([i \in 1..(Bits + 1) |-> Among(nets, {n \in Net : n.prefix = i - 1})])

\* One excluded network is cut out of each network that is left.
Cut(nets, excluded) ==
  Seqs!FlattenSeq([i \in 1..Len(nets) |->
    IF Covers(nets[i], excluded) THEN Exclude(nets[i], excluded)
    ELSE IF Overlaps(nets[i], excluded) THEN <<>>
    ELSE <<nets[i]>>])

\* exclude_networks: one after another.
ExcludeNetworks(networks, toExclude) ==
  LET order == ByPrefix(toExclude)
      left[i \in 0..Len(order)] == IF i = 0 THEN networks ELSE Cut(left[i - 1], order[i])
  IN left[Len(order)]

\* pool(kind, class); class 0 is none.
Pool(kind, class) ==
  LET supernet == IF class = 0 THEN NetworkClasses[1] ELSE NetworkClasses[class]
      everything == [addr |-> 0, prefix |-> 0]
  IN CASE kind = "all" ->
            ExcludeNetworks(<<IF class = 0 THEN everything ELSE supernet>>, ExcludedNetworks)
       [] kind = "private" ->
            ExcludeNetworks(Among(PrivateNetworks, {n \in Net : Overlaps(n, supernet)}),
                            ExcludedNetworks)
       [] kind = "public" ->
            ExcludeNetworks(<<supernet>>, PrivateNetworks \o ExcludedNetworks)

-----------------------------------------------------------------------------
SizesOf(pool) == [i \in 1..Len(pool) |-> Size(pool[i])]

\* address_from_pool: the net in which the draw falls, and how far in.
Drawn(pool, draw) ==
  LET totals == Cumulative(SizesOf(pool))
      i == Bisect(totals, Len(pool), draw)
  IN [net |-> pool[i], addr |-> (pool[i].addr + draw - totals[i - 1]) % 2 ^ Bits]

\* addr & mask
Masked(addr, prefix) == addr - (addr % 2 ^ (Bits - prefix))

\* Mutant of PrefixesIn: a network may be larger than the one drawn.
AnyPrefix(net) == 0..Bits
\* The prefixes a network that is drawn in net can have.
PrefixesIn(net) == net.prefix..Bits

\* ipv4, ipv4_private and ipv4_public; the latter two draw a class, if none.
AskAddress(kind, class, network) ==
  /\ addressing = "idle"
  /\ \E c \in IF class = 0 /\ kind # "all" THEN 1..Len(NetworkClasses) ELSE {class} :
       wanted' = [kind |-> kind, class |-> c, network |-> network]
  /\ addressing' = "asked"
  /\ UNCHANGED address

DrawAddress(draw) ==
  LET pool == Pool(wanted.kind, wanted.class)
      total == TotalWeight(SizesOf(pool))
  IN
    /\ addressing = "asked"
    /\ addressing' = "done"
    /\ IF total = 0 THEN draw = 0 /\ address' = NoAddress
       ELSE /\ draw < total
            /\ LET d == Drawn(pool, draw)
               IN IF ~wanted.network THEN address' = [addr |-> d.addr, prefix |-> Bits]
                  ELSE \E p \in PrefixesIn(d.net) :
                         address' = [addr |-> Masked(d.addr, p), prefix |-> p]
    /\ UNCHANGED wanted

GotAddress ==
  /\ addressing = "done"
  /\ addressing' = "idle" /\ wanted' = NothingWanted /\ address' = NoAddress

NetNext ==
  \/ \E kind \in {"all", "private", "public"}, class \in 0..Len(NetworkClasses),
        network \in BOOLEAN : AskAddress(kind, class, network)
  \/ \E draw \in 0..(2 ^ Bits - 1) : DrawAddress(draw)
  \/ GotAddress

NetSpec == NetInit /\ [][NetNext]_netVars

-----------------------------------------------------------------------------
(* Properties                                                              *)

\* "private: Some(true) private only, Some(false) public only, None any
\* non-reserved address", and of the class that was asked for.
EligibleOf(kind, class) ==
  LET inClass == IF class = 0 THEN 0..(2 ^ Bits - 1) ELSE Addresses(NetworkClasses[class])
      private == AddressesOf(PrivateNetworks)
  IN (CASE kind = "all" -> inClass
        [] kind = "private" -> inClass \cap private
        [] kind = "public" -> inClass \ private) \ AddressesOf(ExcludedNetworks)
EligibleAddresses == EligibleOf(wanted.kind, wanted.class)

\* Every class of the tables has private addresses and public ones.
ASSUME EligibleAssumption ==
  /\ 1..Len(NetworkClasses) # {}
  /\ \A kind \in {"private", "public"}, class \in 1..Len(NetworkClasses) :
       EligibleOf(kind, class) # {}

\* "One draw picks a uniformly random address": the cutting, overlapping and
\* nested reserved networks and all, leaves every eligible address exactly one
\* draw, and no other address one.
PoolExact ==
  addressing = "asked" =>
    LET pool == Pool(wanted.kind, wanted.class)
        total == TotalWeight(SizesOf(pool))
    IN /\ total = Cardinality(EligibleAddresses)
       /\ {Drawn(pool, draw).addr : draw \in 0..(total - 1)} = EligibleAddresses

\* A network that is returned starts on its own boundary and has no address
\* that an address of this kind and class could not be.
NetworkEligible ==
  addressing = "done" =>
    /\ address.addr % Size(address) = 0
    /\ Addresses(address) \subseteq EligibleAddresses
=============================================================================
