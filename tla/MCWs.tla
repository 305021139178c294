-------------------------------- MODULE MCWs ---------------------------------
(* Small instances of Ws for TLC. *)
EXTENDS Ws, TLC

MCIps == {"a"}
MCIpOf == [c \in Clients |-> "a"]
MCScopes == {[events |-> {}, iatas |-> {}, payloadTypes |-> {}, channelHashes |-> {},
              routeTypes |-> {}, observerIds |-> {}]}
MCNoEvents == {}
MCEvents == {[type |-> "nodeUpdate", iata |-> "YOW", payloadType |-> 4, channelHash |-> "",
              routeType |-> 0, observerId |-> n, variants |-> {}] : n \in 1..2}
MCOptions == {[NoOptions EXCEPT !.includeRepeats = TRUE]}
MCNoOptions == {}
MCSymmetry == Permutations(Clients)
==============================================================================
