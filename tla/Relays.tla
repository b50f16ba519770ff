------------------------------- MODULE Relays -------------------------------
(* Where a server and its clients meet: the DERP map (derp_map.cpp), and    *)
(* the region and relay that genkey, resolve, a server and a client each    *)
(* take from the map or from an address.  A call that throws has the empty  *)
(* set of results.                                                          *)
EXTENDS TailcatAddress

CONSTANTS Public, Disco         \* the server's public keys

-----------------------------------------------------------------------------
(* The map as JSON is a set of entries, each with the number that its key   *)
(* is, if any, its RegionID, if any, its code and its nodes.                *)
Or(optional, x) == IF optional = <<>> THEN x ELSE optional[1]

(* Mutant: STUN-only nodes are taken for relays.                            *)
ParseRegionStun(e) ==
  LET id == Or(e.region_id, e.key[1])
      nodes == SelectSeq(e.nodes, LAMBDA n : n.host_name # <<>>)
  IN [Blank(RegionFields) EXCEPT
        !.region_id = id, !.region_code = e.region_code,
        !.nodes = [i \in DOMAIN nodes |-> [Blank(NodeFields) EXCEPT
                     !.region_id = Or(nodes[i].region_id, id),
                     !.host_name = nodes[i].host_name]]]

ParseRegion(e) ==
  LET id == Or(e.region_id, e.key[1])
      nodes == SelectSeq(e.nodes, LAMBDA n : ~n.stun_only /\ n.host_name # <<>>)
  IN [Blank(RegionFields) EXCEPT
        !.region_id = id, !.region_code = e.region_code,
        !.nodes = [i \in DOMAIN nodes |-> [Blank(NodeFields) EXCEPT
                     !.region_id = Or(nodes[i].region_id, id),
                     !.host_name = nodes[i].host_name]]]

(* The usable regions by their ids; std::sort() keeps no other order.       *)
FetchDerpMap(json) ==
  LET regions == {ParseRegion(e) : e \in {f \in json : f.key # <<>>}}
      usable == {r \in regions : r.region_id # 0 /\ r.nodes # <<>>}
  IN {m \in SetToSeqs(usable) : m # <<>> /\
        \A i, j \in DOMAIN m : i < j => m[i].region_id <= m[j].region_id}

SelectDerpRegion(map) == map[1]
First(s) == IF s = <<>> THEN {} ELSE {s[1]}
RegionById(map, id) == First(SelectSeq(map, LAMBDA r : r.region_id = id))
PrimaryDerpNode(region) == First(region.nodes)

-----------------------------------------------------------------------------
(* genkey --region: a number, or a code or name in upper or lower case.     *)
Auto == <<97, 117, 116, 111>>
LowerAscii(s) ==
  [i \in DOMAIN s |-> IF s[i] \in 65..90 THEN s[i] + 32 ELSE s[i]]
Numeric(s) == \A i \in DOMAIN s : s[i] \in 48..57

ResolveRegionArgument(value, map) ==
  LET named == SelectSeq(map, LAMBDA r : LowerAscii(value) \in
                 {LowerAscii(r.region_code), LowerAscii(r.region_name)})
      id == Number(10, [i \in DOMAIN value |-> value[i] - 48])
  IN IF value \in {<<>>, Auto} THEN {SelectDerpRegion(map).region_id}
     ELSE {r.region_id : r \in IF Numeric(value) THEN RegionById(map, id)
                               ELSE First(named)}

Info(id, regions) ==
  [Blank(InfoFields) EXCEPT !.server_public = Public,
     !.server_disco_public = Disco, !.region_id = id, !.regions = regions]

(* The region that is saved with the key, if any.                           *)
PersistedRegion(o, id) ==
  IF o.region \notin {<<>>, Auto} \/ o.fixed \/ o.embed THEN id ELSE 0

(* run_genkey(): the region that the key keeps, and the address printed.    *)
GenKey(o, map) ==
  UNION {{[region |-> PersistedRegion(o, id), address |-> a] :
            a \in UNION {EncodeTailcatAddr(Info(id, rs)) :
                    rs \in IF o.embed THEN {<<r>> : r \in RegionById(map, id)}
                           ELSE {<<>>}}} :
         id \in ResolveRegionArgument(o.region, map)}

(* run_resolve(): the region is put into the address.                       *)
Resolve(address, map) ==
  UNION {UNION {EncodeTailcatAddr([info EXCEPT !.regions = rs]) :
           rs \in IF info.regions # <<>> THEN {info.regions}
                  ELSE {<<r>> : r \in RegionById(map, info.region_id)}} :
         info \in ParseTailcatAddr(address)}

(* make_server_bootstrap(): the region saved with the key, or the first.    *)
ServerRelay(saved, map) ==
  UNION {{[node |-> n, region_id |-> r.region_id, address |-> a] :
            n \in PrimaryDerpNode(r),
            a \in EncodeTailcatAddr(Info(r.region_id, <<>>))} :
         r \in IF saved # 0 THEN RegionById(map, saved)
               ELSE {SelectDerpRegion(map)}}

(* resolve_region() of a client: what the address holds, or else the map.   *)
ResolveRegion(info, map) ==
  LET named == SelectSeq(info.regions, LAMBDA r : r.region_id = info.region_id)
  IN IF info.regions = <<>> THEN RegionById(map, info.region_id)
     ELSE First(named \o info.regions)

ClientRelay(address, map) ==
  UNION {UNION {{[node |-> n, region_id |-> r.region_id] :
                   n \in PrimaryDerpNode(r)} : r \in ResolveRegion(info, map)} :
         info \in ParseTailcatAddr(address)}
=============================================================================
