---------------------------- MODULE MCPlacement ----------------------------
(* An instance of Placement: a sensor of a device on a site, pinned or not, *)
(* two probes, and two requests that may overlap.  The starts cover every    *)
(* tier of the cascade, up to the names of the probes.                      *)
EXTENDS Placement

MCSensors == {"s"}
MCProbes  == {"p", "q"}
MCCallers == {"c", "d"}
MCStarts  ==
    {<<[pin |-> [s \in MCSensors |-> start[1]], dev |-> NoProbe, onSite |-> TRUE], start[2]>> :
        start \in {<<NoProbe, NoProbe>>, <<NoProbe, "p">>, <<"p", NoProbe>>, <<"p", "q">>}}
=============================================================================
