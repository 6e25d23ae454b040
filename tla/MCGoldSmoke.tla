----------------------------- MODULE MCGoldSmoke -----------------------------
EXTENDS GoldSmoke

MCContainers == (1 .. Cases) \X DOMAIN MountsOf
MCVolumes == (1 .. Cases) \X VolumeNames
MCMounts == [c \in MCContainers |-> {<<c[1], v>> : v \in MountsOf[c[2]]}]
MCAnchorsOf == [v \in MCVolumes |-> {}]
MCStaging == {v \in MCVolumes : v[2] = "input"}

Ran(exit, marker) ==
    [exit |-> exit, timedOut |-> FALSE, truncated |-> FALSE, marker |-> marker]
MCResults ==
    {Ran(0, "none"), Ran(1, "none"), Ran(0, "network"), Ran(1, "setup"),
     [Ran(1, "none") EXCEPT !.timedOut = TRUE]}
MCFewResults == {Ran(0, "none"), Ran(1, "none")}
=============================================================================
