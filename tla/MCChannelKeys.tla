---------------------------- MODULE MCChannelKeys ----------------------------
(***************************************************************************)
(* Two keys share a hash, and each opens a packet.                         *)
(***************************************************************************)
EXTENDS ChannelKeys, TLC

CONSTANTS k1, k2, p1, p2

MCConfigs == {{}, {k1}}
MCLists == {{}, {k1, k2}}
MCHashOf == (k1 :> "h") @@ (k2 :> "h")
MCKeyOf == (p1 :> k1) @@ (p2 :> k2)
=============================================================================
