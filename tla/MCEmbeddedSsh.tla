---------------------------- MODULE MCEmbeddedSsh ----------------------------
(* EmbeddedSsh for TLC: a client as OpenSSH is, and some that do things out *)
(* of order.                                                                *)
EXTENDS EmbeddedSsh

Login == <<<<"kex">>, <<"known">>, <<"open">>>>
Data(i) == <<"data", i>>

Sessions == {
  Login \o <<<<"exec">>, Data(1), Data(2)>>,
  Login \o <<Data(1), <<"pty">>, <<"shell">>, Data(2)>>,
  Login \o
    <<<<"env", "LANG">>, <<"exec">>, <<"shell">>, <<"eof">>, <<"close">>>>,
  <<<<"kex">>, <<"probe">>, <<"known">>, <<"exec">>, <<"open">>, <<"kex">>,
    <<"junk">>>>,
  <<<<"kex">>, <<"none">>, <<"unknown">>, <<"probe">>, <<"forged">>, <<"open">>,
    <<"exec">>>>,
  <<<<"junk">>, <<"known">>>>}
=============================================================================
