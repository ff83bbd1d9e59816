----------------------------- MODULE MCConnect -----------------------------
(* Connect with a handful of secrets, each with a descriptor of its own    *)
(* kind, and of redirects.                                                 *)
EXTENDS Connect

Address(h) == Tree("ADDRESS", <<Leaf("HOST", h), Digits("PORT", 1)>>)
Secure(h) == Tree("ADDRESS", <<Leaf("PROTOCOL", "TCPS"), Leaf("HOST", h)>>)
Data == Tree("CONNECT_DATA", <<Leaf("SERVICE_NAME", "s")>>)
Description(nodes) == Tree("DESCRIPTION", nodes \o <<Data>>)
List(nodes) == Tree("ADDRESS_LIST", nodes)

Plain == [host |-> "none", port |-> {}, names |-> [k \in {"SERVICE_NAME", "SID"} |-> "none"],
          alias |-> {}, descriptor |-> {}, dsn |-> {}, file |-> <<>>, places |-> {},
          protocol |-> "none", tls |-> FALSE, dn |-> "none", timeout |-> {}]

Named(h) == [Plain EXCEPT !.host = h, !.names["SERVICE_NAME"] = "s"]
With(root) == [Plain EXCEPT !.descriptor = {[form |-> "descriptor", descriptor |-> root]}]
Of(definitions, name) == [Plain EXCEPT !.alias = {[form |-> "alias", alias |-> name]},
                                       !.file = definitions, !.places = {"tns_admin"}]
Easily(e) == [Plain EXCEPT !.dsn = {[form |-> "easy", easy |-> e]}]

Definition(name, root, words) ==
    [alias |-> name, descriptor |-> root, words |-> words, comment |-> FALSE]
Easy(hosts, parameters) ==
    [scheme |-> "tcps", hosts |-> [i \in DOMAIN hosts |-> [host |-> hosts[i], port |-> {}]],
     service |-> "s", server |-> "none", instance |-> "i", parameters |-> parameters]

Once == <<Leaf("LOAD_BALANCE", "off")>>
Retried == <<Digits("RETRY_COUNT", 1)>>

MCSecrets == <<
    Named("a"),
    \* one list, in order, tried twice
    With(Description(Retried \o <<Address("a"), Address("b")>>)),
    \* lists and addresses of its own, the list without failover
    With(Description(<<Address("a"), List(<<Leaf("FAILOVER", "OFF"), Address("b"),
                                           Address("d")>>), Address("c")>>)),
    \* load balanced
    With(Description(<<Leaf("LOAD_BALANCE", "ON"), Secure("a"), Secure("b"), Secure("c")>>)),
    With(Description(<<Leaf("FAILOVER", "NO"), Leaf("LOAD_BALANCE", "ON"),
                       List(<<Address("a"), Address("b")>>), List(<<Address("c")>>)>>)),
    \* a primary and its standby
    With(Tree("DESCRIPTION_LIST", <<Description(<<Address("a")>>),
                                    Description(Retried \o <<Address("b")>>)>>)),
    \* by name, and as a string
    Of(<<Definition("x", Description(<<Address("b")>>), {"SDU"}),
         Definition("y", Description(<<Secure("a")>>), {})>>, "y"),
    Easily(Easy(<<"a", "b">>, <<Leaf("FAILOVER", "FALSE"), Digits("SDU", 1)>>)),
    \* refused: twice the same setting, both names, loose values, no address, a
    \* setting not known, two sources, an alias that is also a word of another
    With(Description(Retried \o Retried \o <<Address("a")>>)),
    With(Tree("DESCRIPTION", <<Address("a"), Tree("CONNECT_DATA",
                                 <<Leaf("SID", "s"), Leaf("SERVICE_NAME", "s")>>)>>)),
    With(Description(<<Address("a b")>>)),
    With(Description(<<List(<<Leaf("FAILOVER", "ON")>>)>>)),
    With(Description(<<Leaf("HTTPS_PROXY", "p"), Address("a")>>)),
    With(Tree("DESCRIPTION_LIST", <<Description(<<Address("a")>>),
        Tree("DESCRIPTION", <<Address("b"), Tree("CONNECT_DATA", <<Leaf("SID", "t")>>)>>)>>)),
    [Named("a") EXCEPT !.descriptor =
        {[form |-> "descriptor", descriptor |-> Description(<<Address("b")>>)]}],
    Of(<<Definition("x", Description(<<Address("b")>>), {"y"}),
         Definition("y", Description(<<Secure("a")>>), {})>>, "y"),
    [Named("a") EXCEPT !.tls = TRUE]>>

Offer(nodes) == [address |-> Description(nodes), data |-> {}]

MCOffers == {
    [address |-> Tree("ADDRESS", <<Leaf("HOST", "d"), Digits("PORT", 1)>>),
     data |-> {Description(<<Leaf("PROGRAM", "a b")>>)}],
    Offer(<<Address("a"), Address("d"), List(<<Address("e")>>)>>),
    Offer(<<Tree("ADDRESS", <<Leaf("PROTOCOL", "TCP"), Leaf("HOST", "e"),
                              Digits("PORT", 1)>>)>>),
    Offer(<<Address("a b")>>),
    [address |-> Address("e"), data |-> {Leaf("DESCRIPTION", "x")}]}

MCLookup == [h \in {"a", "b", "d", "e"} |->
    IF h \in {"a", "d"} THEN {<<>>, <<"1", "2", "1", "3">>} ELSE {<<>>, <<"4">>}]
=============================================================================
