------------------------------ MODULE MCDerpLink ------------------------------
(* DerpLink for TLC: a relay that pings and relays, and relays that send    *)
(* something else than they should.                                         *)
EXTENDS DerpLink

Key == <<"ServerKey", 0, 1>>
Info == <<"ServerInfo", 0, 1>>
Ping(id) == <<"Ping", id, 1>>

SomeRelays == {
  <<Key, Info, Ping(1), <<"RecvPacket", 1, 2>>, Ping(2)>>,
  <<Key, Info, <<"KeepAlive", 0, 0>>, <<"Ping", 3, 2>>>>,
  <<Key, Info, <<"malformed", 0, 0>>, Ping(1)>>,
  <<Key, Info, <<"RecvPacket", 1, 4>>>>,
  <<Key, Ping(1)>>,
  <<Info>>}
=============================================================================
