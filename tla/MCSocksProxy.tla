----------------------------- MODULE MCSocksProxy -----------------------------
(* SocksProxy for TLC: requests without a fault, with each of the faults,   *)
(* and with several at once.                                                *)
EXTENDS SocksProxy

Faulty ==
  {{Checks[i].fault} : i \in DOMAIN Checks}
    \cup {{}, {"command", "port", "host"}, {"methods", "address type"},
          {"port", "host"}}
=============================================================================
