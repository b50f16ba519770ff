----------------------------- MODULE MCCommands -----------------------------
(* The algorithms of the commands, each on a set of inputs: one step puts   *)
(* the question, and the invariants compare the answer of the code with     *)
(* what it should be.                                                       *)
EXTENDS Relays, Destination, SshCommand, ServeCommand

VARIABLE asked
vars == asked

Program == <<"/tail", " ", "cat", "'", "%">>
TwoPorts == {<<"22">>, <<"80">>}

-----------------------------------------------------------------------------
(* Addresses: integers on both sides of the sizes of a CBOR head, keys that *)
(* are left out or zero, regions and nodes with and without their fields,   *)
(* and fields of later versions, nested ones among them.                    *)
K(n) == [i \in 1..KeySize |-> IF i = 1 THEN n ELSE 255]
Relay(id, host) == [Blank(NodeFields) EXCEPT !.region_id = id, !.host_name = host]
Region(id, nodes) ==
  [Blank(RegionFields) EXCEPT !.region_id = id, !.nodes = nodes]
PublicKey == K(1)
DiscoKey == K(2)
FullNode ==
  [name |-> <<49>>, region_id |-> 24, host_name |-> <<100, 46, 101>>,
   cert_name |-> <<99>>, ipv4 |-> <<49>>, ipv6 |-> <<58>>, stun_port |-> -1,
   derp_port |-> 443, insecure_for_tests |-> TRUE]
FullRegion == [region_id |-> 24, region_code |-> [i \in 1..30 |-> 97],
               region_name |-> <<65>>, nodes |-> <<FullNode, Relay(0, <<98>>)>>]

Infos ==
  [server_public : {K(1), Zeros}, server_disco_public : {<<>>, K(2), Zeros},
   preshared_key : {<<>>, K(3)},
   region_id : {0, 23, 24, 255, 256, 70000, -24, -300},
   regions : {<<>>, <<Region(0, <<Relay(0, <<98>>)>>)>>, <<FullRegion>>,
              <<Region(7, <<>>), Region(8, <<>>)>>}]

Extras ==
  { <<>>,
    WriteText(<<122>>) \o <<246>>,                              \* null
    WriteText(<<112, 112>>) \o WriteText(<<112>>),
    WriteText(<<122>>) \o <<193, 162, 1, 130, 97, 112, 64, 2, 160>> }

AskAddress ==
  \E info \in Infos, extra \in Extras :
    asked' = [kind |-> "address", info |-> info, extra |-> extra]

(* DERP maps: regions out of order, gone or with another relay, and nodes   *)
(* that are no relays.                                                      *)
Node(host, stun) ==
  [host_name |-> host, region_id |-> <<>>, stun_only |-> stun]
Entry(key, id, code, nodes) ==
  [key |-> key, region_id |-> id, region_code |-> code, nodes |-> nodes]
A == Entry(<<9>>, <<>>, <<70, 79>>, <<Node(<<>>, FALSE), Node(<<97>>, FALSE)>>)
B == Entry(<<30>>, <<3>>, <<98>>, <<Node(<<98>>, TRUE), Node(<<99>>, FALSE)>>)
C == Entry(<<1>>, <<1>>, <<99>>, <<Node(<<100>>, TRUE)>>)
D == Entry(<<5>>, <<>>, <<100>>, <<Node(<<101>>, FALSE), Node(<<102>>, FALSE)>>)
E == Entry(<<9>>, <<>>, <<70, 79>>, <<Node(<<98>>, FALSE), Node(<<97>>, FALSE)>>)
Maps ==
  {{A, B, C}, {A, D}, {D, E}, {B, D, Entry(<<>>, <<2>>, <<>>, <<>>)}, {C}}

Options == [region : {<<>>, Auto, <<57>>, <<51>>, <<102, 111>>, <<66>>},
            fixed : BOOLEAN, embed : BOOLEAN]

AskRelay ==
  \E o \in Options, then, now, later \in Maps, resolved \in BOOLEAN :
    asked' = [kind |-> "relay", options |-> o, then |-> then, now |-> now,
              later |-> later, resolved |-> resolved]

(* Names and the answers to them.                                           *)
Names ==
  {<<>>, <<".">>} \cup
  {FlattenSeq([i \in DOMAIN s |-> IF i = 1 THEN <<s[i]>> ELSE <<".", s[i]>>]) :
     s \in UNION {[1..n -> {"tcA", "tc", "cat"}] : n \in 1..3}}
Text(strings) == [type |-> "TXT", strings |-> strings]
Answer ==
  {Text(<<(<<"tailcat=", "tcA">>)>>), Text(<<(<<"tailcat=">>), <<"tcA">>>>),
   Text(<<(<<"tailcat=", "tcB">>)>>), Text(<<(<<"tailcat=", "cat">>)>>),
   Text(<<(<<"tailcat=">>)>>), Text(<<(<<"cat", "tailcat=", "tcB">>)>>),
   Text(<<>>), [type |-> "CNAME", strings |-> <<>>]}

AskDestination ==
  \E name \in Names, answers \in UNION {[1..n -> Answer] : n \in 0..3} :
    asked' = [kind |-> "destination", name |-> name, answers |-> answers]

(* Command lines of ssh and cp.                                             *)
Global ==
  {<<>>, <<(<<"-v">>)>>, <<(<<"--key">>), <<"k", "%", "'", "$">>>>,
   <<(<<"--key=", "k", " ", "\"">>), <<"--verbose">>>>, <<(<<"--key=">>)>>,
   <<(<<"--key">>), <<"--key=">>>>, <<(<<"--key=", "\n">>)>>}
SshWords == {<<"tcA">>, <<"u", "@", "tcA">>, <<"-p">>, <<"-p", "80">>,
             <<"80">>, <<"--">>, <<"ls">>}
CpWords == {<<"tcA", ":", "f">>, <<"u", "@", "tcB", ":">>, <<"-P", "80">>,
            <<"-P">>, <<"80">>, <<"f">>, <<"h", ":", "f">>}

AskSsh ==
  \E g \in Global : \E command \in {"ssh", "cp"} :
    \E args \in UNION {[1..n -> IF command = "ssh" THEN SshWords ELSE CpWords] :
                         n \in 1..4} :
      asked' = [kind |-> "ssh", argv |-> g \o <<(<<command>>)>> \o args]

(* What is served, and the keys that the sources stand for.                 *)
Lines(a, b) == a \o <<"\n">> \o b
Key1 == <<"ed25519", " ", "k1">>
KeyFiles ==
  (<<"f1">> :> Lines(<<"#", "k3">>, Lines(Key1, <<" ", "rsa", " ", "k2", " ", "me">>)))
  @@ (<<"f2">> :> Lines(Key1, <<"from", " ", "rsa", " ", "k2">>))
  @@ (<<"f3">> :> <<"\n">>)
KeyUsers == <<"alice">> :> Lines(<<"rsa", " ", "k3">>, Lines(<<>>, Key1))
Sources ==
  {<<"f1">>, <<"f2">>, <<"f3">>, <<"f4">>, <<"alice", "@github">>,
   <<"bob", "@github">>, <<"@github">>, Key1, <<"f1", ",", " ", "alice", "@github">>,
   <<"f1", ",">>, <<"f1", ",", "f2">>, <<"rsa", " ", "k4">>}
Means ==
  <<"f1">> :> {"k1", "k2"} @@ <<"alice", "@github">> :> {"k1", "k3"}
    @@ Key1 :> {"k1"} @@ <<"f1", ",", " ", "alice", "@github">> :> {"k1", "k2", "k3"}
ServeWords ==
  {<<"ssh">>, <<"no-auth-ssh">>, <<"22">>, <<"80">>, <<"x">>, <<"--allow">>,
   <<"--allow=", "n1", ",", "n2">>, <<"none">>, <<"--psk=false">>}

AskServe ==
  \E args \in UNION {[1..n -> ServeWords] : n \in 0..3} : \E source \in Sources :
    \E keys \in {<<>>, <<(<<"--ssh-authorized-keys=">> \o source)>>,
                 <<(<<"--ssh-authorized-keys">>), source>>} :
      asked' = [kind |-> "serve", args |-> keys \o args, source |-> source]

Init == asked = [kind |-> "none"]
Next ==
  /\ asked.kind = "none"
  /\ \/ AskAddress \/ AskRelay \/ AskDestination \/ AskSsh \/ AskServe
Spec == Init /\ [][Next]_vars

-----------------------------------------------------------------------------
(* An address says what was encoded, with the region's id for its nodes and *)
(* for the address where they are left out; a field that is not known is    *)
(* passed over, and nothing that was cut off or added to is accepted.       *)
Filled(r) ==
  [r EXCEPT !.nodes = [i \in DOMAIN r.nodes |-> [r.nodes[i] EXCEPT !.region_id =
                         IF @ = 0 THEN r.region_id ELSE @]]]
Meaning(i) ==
  CASE Len(i.regions) > 1 \/ (i.regions = <<>> /\ i.region_id = 0) -> {}
    [] i.regions = <<>> /\ i.region_id # 0 -> {i}
    [] OTHER -> {[i EXCEPT !.regions = <<Filled(@[1])>>, !.region_id =
                    IF @ = 0 THEN i.regions[1].region_id ELSE @]}
AddressRoundTrip ==
  asked.kind = "address" =>
    LET info == asked.info
        zero == Zeros \in {info.server_public, info.server_disco_public}
        Whole(d, extra) ==
          IF extra = <<>> THEN {d}
          ELSE {<<d[1] + 1>> \o Tail(d) \o extra, <<d[1] + 1>> \o extra \o Tail(d)}
        Broken(d) ==
          {d \o <<0>>} \cup IF asked.extra # <<>> THEN {}
                           ELSE {SubSeq(d, 1, n) : n \in 0..(Len(d) - 1)}
        Understood(d, whole) ==
          \A bytes \in whole \cup Broken(d) :
            ParseInfo(bytes) =
              IF bytes \in whole /\ ~zero THEN Meaning(info) ELSE {}
    IN \A d \in {WriteInfo(info)} :
         /\ Understood(d, Whole(d, asked.extra))
         /\ UNION {Base64urlDecode(a) : a \in EncodeTailcatAddr(info)} =
              IF zero THEN {} ELSE {d}

(* The map may change from genkey (then) to the server (now) and again to   *)
(* resolve or the client (later).  A client meets the server if and only if *)
(* the region of the server has the same relay in the map that was asked:   *)
(* that of genkey when the address holds the region, the later one when it  *)
(* does not.  It goes to no other region, and to no node that only answers  *)
(* STUN.  For what genkey printed this takes a region that is saved with    *)
(* the key, or a map that was the same then and now.                        *)
Hosts(json) == UNION {{e.nodes[i].host_name : i \in {j \in DOMAIN e.nodes :
                         ~e.nodes[j].stun_only}} : e \in json}
RelaysMeet ==
  asked.kind = "relay" =>
    \A then \in FetchDerpMap(asked.then), now \in FetchDerpMap(asked.now),
       later \in FetchDerpMap(asked.later) :
      \A key \in GenKey(asked.options, then) :
        \A server \in ServerRelay(key.region, now) :
          LET Meet(clients, map) ==
                LET same == \E r \in RegionById(map, server.region_id) :
                              PrimaryDerpNode(r) = {server.node}
                IN /\ same <=> {c.node : c \in clients} = {server.node}
                   /\ \A c \in clients : c.region_id = server.region_id
              Given(address) ==
                IF asked.resolved THEN Resolve(address, later) ELSE {address}
              embedded == asked.options.embed
          IN /\ server.node.host_name \in Hosts(asked.now) \ {<<>>}
             /\ Meet(ClientRelay(server.address, later), later)
             /\ key.region # 0 \/ then = now =>
                  \A address \in Given(key.address) :
                    \A map \in IF embedded \/ asked.resolved
                              THEN {then, now, later} ELSE {later} :
                      Meet(ClientRelay(address, map),
                           IF embedded THEN then ELSE later)

(* An address is never sent to a resolver as a part of a name; and what a   *)
(* name stands for is what all its tailcat= records say, of which there is  *)
(* one at least.                                                            *)
Said(answers) ==
  {Tail(FlattenSeq(a.strings)) : a \in {b \in ToSet(answers) :
     b.type = "TXT" /\ Prefixed(FlattenSeq(b.strings), "tailcat=")}}
AddressIsNotLookedUp ==
  asked.kind = "destination" =>
    LET results == ResolveTailcatAddress(asked.name, asked.answers)
        name == asked.name
    IN CASE name \in {<<a>> : a \in Addresses} ->
              results = {[address |-> name, via_dns |-> FALSE]}
         [] OTHER ->
              LET mentions == \E i \in DOMAIN name : name[i] \in Addresses
                  said == Said(asked.answers)
              IN /\ mentions => Classify(name) = {}
                 /\ {r.address : r \in results} =
                      IF /\ Find(name, ".") # 0 /\ ~mentions
                         /\ \E a \in Addresses : said = {<<a>>}
                      THEN said ELSE {}

(* What ssh and the shell make of the ProxyCommand is a command line of     *)
(* this program again, that connects to the address and port of the outer   *)
(* one with its key, whatever characters there are in the words; and what   *)
(* stands behind the destination is left as it is.                          *)
Run(cl) == CASE Dispatch(cl) = "ssh" -> RunSsh(cl)
             [] Dispatch(cl) = "cp" -> RunScp(cl) [] OTHER -> {}
PortIn(args, option) ==
  IF \E n \in DOMAIN args : args[n][1] = option THEN <<"80">> ELSE <<"22">>
ProxyReachesClient ==
  asked.kind = "ssh" =>
    \A cl \in ParseCommandLine(asked.argv) : \A run \in Run(cl) :
      LET words == ShellWords(PercentExpand(run.proxy))
          inner == [NoArguments EXCEPT !.command = <<run.host>>,
                      !.args = <<run.port>>, !.key_path = cl.key_path,
                      !.verbose = cl.verbose]
      IN /\ words[1] = Executable
         /\ ParseCommandLine(Tail(words)) = {inner} /\ Dispatch(inner) = "client"
         /\ Dispatch(cl) = "ssh" =>
              \E n \in DOMAIN cl.args :
                /\ Host(cl.args[n]) = <<run.host>>
                /\ Tail(run.words) = SubSeq(cl.args, n + 1, Len(cl.args))
                /\ run.port = PortIn(SubSeq(cl.args, 1, n - 1), "-p")
         /\ Dispatch(cl) = "cp" =>
              /\ \E n \in DOMAIN cl.args : \E i \in 1..(Len(cl.args[n]) - 1) :
                   SubSeq(cl.args[n], i, i + 1) = <<run.host, ":">>
              /\ run.port = PortIn(cl.args, "-P")

(* A server that starts serves all that it was told to, each port to one    *)
(* service and SSH if it was told so, and lets in with SSH exactly the keys *)
(* that its sources name, or everyone if and only if it was told            *)
(* "no-auth-ssh" and no keys; and with "--allow" it serves the node keys    *)
(* that are listed there, and no others.                                    *)
ServesTheNamed ==
  asked.kind = "serve" =>
    \A s \in RunServe(asked.args) :
      LET told == ToSet(asked.args)
          listed == <<"--allow=", "n1", ",", "n2">>
          keyed == \E w \in told : w[1] \in {"--ssh-authorized-keys=",
                                            "--ssh-authorized-keys"}
      IN /\ ToSet(s.ports) \subseteq told
         /\ \A p \in {<<"22">>, <<"80">>} : p \in told /\ p # asked.source =>
              \E i \in DOMAIN s.ports : s.ports[i] = p
         /\ s.ssh <=> <<"ssh">> \in told \/ <<"no-auth-ssh">> \in told
         /\ s.ssh => ~Contains(s.ports, <<"22">>)
         /\ s.allow_none = (<<"no-auth-ssh">> \in told)
         /\ s.allow_none => ~keyed /\ s.keys = <<>>
         /\ s.ssh /\ ~s.allow_none =>
              /\ asked.source \in DOMAIN Means
              /\ ToSet(s.keys) = Means[asked.source]
              /\ Len(s.keys) = Cardinality(Means[asked.source])
         /\ s.limited <=> listed \in told \/ <<"--allow">> \in told
         /\ listed \notin told => s.allow = <<>>
         /\ listed \in told /\ <<"--allow">> \notin told =>
              ToSet(s.allow) = {<<"n1">>, <<"n2">>}
=============================================================================
