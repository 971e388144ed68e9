---------------------------- MODULE MCMqttBroker ----------------------------
(***************************************************************************)
(* Two connections that subscribe to a topic by name and by wildcard, with *)
(* every order of two filters, a repeated one and one too many.            *)
(***************************************************************************)
EXTENDS MqttBroker

Name == <<"a">>
Plus == <<"+", "/", "b">>

TwoFilters == {Name, Plus}

ThreeTopics == {Name, <<"a", "/", "b">>, <<"a", "/", "b", "/", "b">>}

Wish(f, q) == [filter |-> f, qos |-> q]

Lists ==
    {<<Wish(Name, 0)>>, <<Wish(Plus, 2)>>,
     <<Wish(Plus, 1), Wish(Name, 1)>>,
     <<Wish(Name, 0), Wish(Name, 1), Wish(Plus, 1)>>}
=============================================================================
