------------------------------ MODULE MCHealth ------------------------------
(***************************************************************************)
(* Instance of Damage: pods of up to two containers with one reason to     *)
(* wait of each group, rates on both sides of both limits, workloads of up *)
(* to six replicas, and roll-ups of up to 101 scored children, of which a  *)
(* few are not healthy.                                                    *)
(***************************************************************************)
EXTENDS Damage

MCRates == {0, 19, 20, 99, 100, 8000}

Good == Plain(Healthy)
Half == Result(Degraded, Tenths(5), {<<"cordoned">>})
Rapid == Result(Unhealthy, Tenths(2), {<<"restarting rapidly">>})
Dead == Result(Unhealthy, 0, {<<"failed">>})
Unscored == Result(Unknown, Tenths(5), {<<"no selector">>})
MCResults == {Good, Half, Rapid, Dead, Unscored}

Bag(good, unscored) ==
    [r \in MCResults |-> IF r = Good THEN good ELSE IF r = Unscored THEN unscored ELSE 0]
MCBags == {Bag(g, u) : g \in {0, 1, 2, 3, 49, 50, 78, 79, 80, 99, 100, 101}, u \in {0, 1, 200}}
=============================================================================
