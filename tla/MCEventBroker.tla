---------------------------- MODULE MCEventBroker ----------------------------
(* A small instance of EventBroker: the channels of NERD and one module.      *)
EXTENDS EventBroker

CONSTANTS m, host, service, hostchecks, opathchecks

MCChannels == <<hostchecks, opathchecks>>
MCTypesOf == [c \in {hostchecks, opathchecks} |->
                 IF c = hostchecks THEN {host} ELSE {host, service}]
=============================================================================
