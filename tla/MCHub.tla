-------------------------------- MODULE MCHub --------------------------------
(* Small instances of Hub for TLC: events, scopes and option sets. *)
EXTENDS Hub, TLC

MCOptions == {NoOptions, [resolvePath |-> TRUE, includeObserverKey |-> TRUE, includeRepeats |-> TRUE]}

\* An unfiltered scope, and one that only lets events of one airport and one
\* route type through.
MCAllScope == [events |-> {}, iatas |-> {}, payloadTypes |-> {}, channelHashes |-> {},
               routeTypes |-> {}, observerIds |-> {}]
MCScopes == {MCAllScope, [MCAllScope EXCEPT !.iatas = {"YOW"}, !.routeTypes = {1}]}

Observation(iata, route, n, variants) ==
  [type |-> "packetObservation", iata |-> iata, payloadType |-> 4, channelHash |-> "",
   routeType |-> route, observerId |-> n, variants |-> variants]
MCNoEvents == {}
MCEvents == {Observation("YOW", 1, 1, {"resolved", "resolvedWithKey"}),
             Observation("YOW", 2, 2, {"withKey"}),
             Observation("YYZ", 1, 3, {})}

MCSymmetry == Permutations(Clients) \cup Permutations(Workers)
==============================================================================
