----------------------------- MODULE MCRetention -----------------------------
(* A small instance of Retention: a host and a service on it, which may be     *)
(* dropped, may not retain a part of their information, may be configured in   *)
(* another way, or lose the period they were given.                            *)
EXTENDS Retention

CONSTANTS router, ping, always, nights

MCObjects == {router, ping}
MCHostOf == [o \in MCObjects |-> router]

Setting(present, periods, status, nonstatus, flap, period) ==
    [present |-> present, periods |-> periods,
     retain_status |-> [o \in MCObjects |-> status],
     retain_nonstatus |-> [o \in MCObjects |-> nonstatus],
     flap_detection |-> [o \in MCObjects |-> flap],
     check_period |-> [o \in MCObjects |-> period]]

MCConfigurations ==
    {Setting({router, ping}, {always, nights}, TRUE, TRUE, TRUE, always),
     Setting({router, ping}, {always}, TRUE, TRUE, FALSE, always),
     Setting({router}, {always, nights}, FALSE, TRUE, TRUE, nights)}
=============================================================================
