--------------------------- MODULE MCAlertEngine ---------------------------
(* Two targets, and three configurations: a rule for outages and one for    *)
(* recoveries, whose keys for the two targets collide; two rules that share *)
(* a name, whose channels are a known one, one that is configured twice and *)
(* one that is not configured; and none.                                    *)
EXTENDS AlertEngine

Outage(name, channelNames) ==
    [name |-> name, condition |-> "DOWN", channels |-> channelNames, throttle |-> 2]
Recovery(name, seconds) ==
    [name |-> name, condition |-> "UP", channels |-> <<"hook">>, throttle |-> seconds]

MCConfigs ==
    {[rules |-> <<Outage("x:down", <<"hook">>), Recovery("down", 0)>>,
      channels |-> <<[name |-> "hook", type |-> "webhook"]>>],
     [rules |-> <<Outage("", <<"gone", "twice">>), Recovery("", 1)>>,
      channels |-> <<[name |-> "twice", type |-> "email"],
                     [name |-> "twice", type |-> "dingtalk"]>>],
     [rules |-> <<>>, channels |-> <<>>]}

MCTargets == {"web", "web:x"}
MCNotifiers == {"webhook", "dingtalk", "wecom"}
MCTransitions == {<<"UP", "DOWN">>, <<"DOWN", "UP">>}
=============================================================================
