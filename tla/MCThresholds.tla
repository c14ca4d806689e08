------------------------------ MODULE MCThresholds ------------------------------
(* Model-checking instance of SnmpThresholds. *)
EXTENDS SnmpThresholds, TLC

CONSTANTS a, b, t1, t2, temperature, toner

MCSources == {a, b}
MCThresholds == {t1, t2}
MCQuantities == {temperature, toner}
MCValues == 1 .. 3
High == [operator |-> "gt", warning |-> 1, critical |-> 2]
Low  == [operator |-> "lt", warning |-> 3, critical |-> None]
MCLimits == {High, Low}

\* One source of each kind with a threshold, a metric to be added and a threshold to be
\* added.
MCStart ==
    {[source |-> (a :> [kind |-> k, row |-> "row", on |-> TRUE, present |-> TRUE,
                        quantity |-> temperature,
                        value |-> IF k \in {"supply", "ups"} THEN 1 ELSE None]
               @@ b :> [kind |-> "metric", row |-> "none", on |-> FALSE, present |-> FALSE,
                        quantity |-> toner, value |-> None]),
      threshold |-> (t1 :> [row |-> "row", enabled |-> TRUE, source |-> a, limits |-> High,
                            level |-> "normal"]
                  @@ t2 :> [row |-> "none", enabled |-> FALSE, source |-> a, limits |-> High,
                            level |-> "normal"])] : k \in Kinds}
=============================================================================
