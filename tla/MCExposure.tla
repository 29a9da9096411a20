----------------------------- MODULE MCExposure -----------------------------
(***************************************************************************)
(* Exposure for TLC: a lamp, and a sensor of the same device in an area,   *)
(* each exposed by a label of its own or by the device's.  The sensor's    *)
(* state cannot be encoded, so that listing it works, and pushing it or    *)
(* asking for it raises.                                                   *)
(***************************************************************************)
EXTENDS Exposure

SmallDeviceOf == [e \in Entities |-> "bulb"]

SmallLabellings ==
    {<<"lamp", "BTDASH">>, <<"sensor", "BTDASH">>, <<"bulb", "BTDASHAA">>, <<"lamp", "DASH_A">>}

SmallAreaOf == [e \in Entities |-> IF e = "sensor" THEN "hall" ELSE NoArea]
=============================================================================
