---------------------------- MODULE Descriptors ----------------------------
(***************************************************************************)
(* What a secret says of where and how to connect: connect descriptors,    *)
(* Easy Connect strings and aliases of a tnsnames.ora (descriptor_parser   *)
(* .cpp), the configuration made of them (oracle_connection.cpp,           *)
(* connect_descriptor.cpp) and the orders in which its addresses may be    *)
(* tried (connect_plan.cpp).  Pure definitions.                            *)
(*                                                                         *)
(* A descriptor is the tree of its nodes, never text; all that the grammar *)
(* of values tells apart is which of them hold a space or a `='.  The      *)
(* parser throws at the first fault it meets; here a text is refused if it *)
(* has one.  Sets of at most one element stand for optional values.        *)
(***************************************************************************)
EXTENDS Naturals, Sequences, SequencesExt, FiniteSets, FiniteSetsExt, Functions

CONSTANTS
    LooseValues,        \* values with a space or a `=' in them
    MaximumAddresses,   \* MAX_CONNECT_ADDRESSES
    MaximumRetryCount,  \* MAX_CONNECT_RETRY_COUNT
    MaximumSeconds      \* 3600, the bound of each of the times

ASSUME DescriptorsAssumption ==
    /\ MaximumAddresses \in Nat \ {0}
    /\ {MaximumRetryCount, MaximumSeconds} \subseteq Nat

-----------------------------------------------------------------------------
(* Nodes: `value' for the leaves that hold a word, `number' for those that *)
(* hold digits.                                                            *)

Leaf(k, v) == [key |-> k, value |-> v, number |-> 0, children |-> <<>>]
Digits(k, n) == [key |-> k, value |-> "digits", number |-> n, children |-> <<>>]
Tree(k, c) == [key |-> k, value |-> "tree", number |-> 0, children |-> c]
IsLeaf(n) == n.children = <<>>

(* The elements of a sequence at some of its places, in its order.         *)
Selected(s, places) ==
    LET selected[i \in 0..Len(s)] ==
            IF i = 0 THEN <<>>
            ELSE IF i \in places THEN Append(selected[i - 1], s[i]) ELSE selected[i - 1]
    IN  selected[Len(s)]

Given(n, k) == Selected(n.children, {i \in DOMAIN n.children : n.children[i].key = k})
Keys(n) == {c.key : c \in ToSet(n.children)}
ValueOf(n, k, default) == IF k \in Keys(n) THEN Head(Given(n, k)).value ELSE default
Number(n, k) == IF k \in Keys(n) THEN {Head(Given(n, k)).number} ELSE {}

(* OptionalScalar and RequiredChild: given once, as a value.               *)
Ambiguous(n, ks) ==
    \E k \in ks : Len(Given(n, k)) > 1 \/ \E c \in ToSet(Given(n, k)) : ~IsLeaf(c)
MissingScalar(n, k) == k \notin Keys(n) \/ Ambiguous(n, {k})
MissingSection(n, k) == Len(Given(n, k)) # 1 \/ IsLeaf(Head(Given(n, k)))

MaximumDepth == 16

Level(root, depth) ==
    LET level[d \in 0..depth] ==
            IF d = 0 THEN {root} ELSE UNION {ToSet(n.children) : n \in level[d - 1]}
    IN  level[depth]

(* Parser: a user's value is an atom or in quotes, a listener's runs to    *)
(* the end of its node.                                                    *)
Readable(root, grammar) ==
    /\ Level(root, MaximumDepth + 1) = {}
    /\ grammar = "user" =>
          \A n \in UNION {Level(root, d) : d \in 0..MaximumDepth} :
              IsLeaf(n) /\ n.key # "SSL_SERVER_CERT_DN" => n.value \notin LooseValues

-----------------------------------------------------------------------------
(* The settings of a description                                           *)

(* What a text is made of, as deep as its settings are read.               *)
IsNode(n) ==
    n.value \in STRING /\ n.number \in Nat /\ n.children \in Seq(ToSet(n.children))

Inside(nodes) == UNION {ToSet(n.children) : n \in nodes}

IsText(root) ==
    LET sections == Inside({root})
        subsections == Inside(sections)
        words == Inside(subsections)
    IN  \A n \in {root} \cup sections \cup subsections \cup words \cup Inside(words) : IsNode(n)

OnWords == {"ON", "YES", "TRUE"}
OffWords == {"OFF", "NO", "FALSE"}
Switch(n, k, default) == IF k \in Keys(n) THEN ValueOf(n, k, "ON") \in OnWords ELSE default
BadSwitch(n, ks) ==
    Ambiguous(n, ks) \/ \E k \in ks : ValueOf(n, k, "ON") \notin OnWords \cup OffWords

(* Whole seconds, and at most `most'.                                      *)
BadNumber(n, k, range) ==
    \/ Ambiguous(n, {k})
    \/ ValueOf(n, k, "digits") # "digits"
    \/ ~(Number(n, k) \subseteq range)

SourceRouted(n) == BadSwitch(n, {"SOURCE_ROUTE"}) \/ Switch(n, "SOURCE_ROUTE", FALSE)

BadHost(h) == h \in LooseValues
BadPort(p) == p \notin 1..65535

AddressKeys == {"PROTOCOL", "HOST", "PORT", "SEND_BUF_SIZE", "RECV_BUF_SIZE"}

AddressRefused(a) ==
    \/ ~(Keys(a) \subseteq AddressKeys)
    \/ Ambiguous(a, {"PROTOCOL", "PORT"}) \/ MissingScalar(a, "HOST")
    \/ ValueOf(a, "PROTOCOL", "TCP") \notin {"TCP", "TCPS"}
    \/ ValueOf(a, "PORT", "digits") # "digits" \/ \E p \in Number(a, "PORT") : BadPort(p)
    \/ BadHost(ValueOf(a, "HOST", "none"))

ParseAddress(a) ==
    [host |-> ValueOf(a, "HOST", "none"),
     port |-> IF "PORT" \in Keys(a) THEN Head(Given(a, "PORT")).number ELSE 1521,
     protocol |-> ValueOf(a, "PROTOCOL", "TCP")]

ListRefused(l) ==
    \/ ~(Keys(l) \subseteq {"ADDRESS", "FAILOVER", "LOAD_BALANCE", "SOURCE_ROUTE", "ENABLE"})
    \/ "ADDRESS" \notin Keys(l)
    \/ \E a \in ToSet(Given(l, "ADDRESS")) : AddressRefused(a)
    \/ SourceRouted(l) \/ BadSwitch(l, {"FAILOVER", "LOAD_BALANCE"})

(* An ADDRESS_LIST, or the DESCRIPTION for the addresses it holds itself.  *)
ParseAddressList(l) ==
    [addresses |-> [i \in DOMAIN Given(l, "ADDRESS") |-> ParseAddress(Given(l, "ADDRESS")[i])],
     failover |-> Switch(l, "FAILOVER", TRUE),
     balance |-> Switch(l, "LOAD_BALANCE", FALSE)]

(* Its own addresses form a list where the first of them is.               *)
AddressLists_ListsOnly(root) ==     \* bug: lists hide the addresses beside them
    LET lists == Given(root, "ADDRESS_LIST")
    IN  IF lists # <<>> THEN [i \in DOMAIN lists |-> ParseAddressList(lists[i])]
        ELSE <<ParseAddressList(root)>>

AddressLists(root) ==
    LET at == {i \in DOMAIN root.children : root.children[i].key = "ADDRESS_LIST"}
        own == {i \in DOMAIN root.children : root.children[i].key = "ADDRESS"}
    IN  Selected([i \in DOMAIN root.children |->
                     ParseAddressList(IF i \in at THEN root.children[i] ELSE root)],
                 at \cup {i \in own : \A j \in own : i <= j})

Endpoints(lists) == FlattenSeq([i \in DOMAIN lists |-> lists[i].addresses])

ConnectDataRefused(d) ==
    \/ ~(Keys(d) \subseteq {"SERVICE_NAME", "SID", "INSTANCE_NAME", "SERVER"})
    \/ Ambiguous(d, {"SERVICE_NAME", "SID", "INSTANCE_NAME", "SERVER"})
    \/ ("SERVICE_NAME" \in Keys(d)) = ("SID" \in Keys(d))
    \/ ValueOf(d, "SERVER", "SHARED") \notin {"DEDICATED", "SHARED"}

ListSwitches == {"FAILOVER", "LOAD_BALANCE"}
Timings == {"RETRY_COUNT", "RETRY_DELAY", "CONNECT_TIMEOUT", "TRANSPORT_CONNECT_TIMEOUT"}
IgnoredDescriptionKeys ==
    {"ENABLE", "EXPIRE_TIME", "SDU", "TDU", "RECV_BUF_SIZE", "SEND_BUF_SIZE",
     "TYPE_OF_SERVICE", "USE_SNI"}
DescriptionKeys ==
    {"ADDRESS", "ADDRESS_LIST", "CONNECT_DATA", "SECURITY", "SOURCE_ROUTE"} \cup ListSwitches
        \cup Timings \cup IgnoredDescriptionKeys

SecuritySettings(root, k) ==
    FlattenSeq([i \in DOMAIN Given(root, "SECURITY") |-> Given(Given(root, "SECURITY")[i], k)])

DescriptionRefused(root) ==
    \/ IsLeaf(root) \/ ~(Keys(root) \subseteq DescriptionKeys)
    \/ \E a \in ToSet(Given(root, "ADDRESS")) : AddressRefused(a)
    \/ \E l \in ToSet(Given(root, "ADDRESS_LIST")) : ListRefused(l)
    \/ Len(Endpoints(AddressLists(root))) \notin 1..MaximumAddresses
    \/ SourceRouted(root) \/ BadSwitch(root, ListSwitches)
    \/ BadNumber(root, "RETRY_COUNT", 0..MaximumRetryCount)
    \/ BadNumber(root, "RETRY_DELAY", 0..MaximumSeconds)
    \/ \E k \in {"CONNECT_TIMEOUT", "TRANSPORT_CONNECT_TIMEOUT"} :
          BadNumber(root, k, 1..MaximumSeconds)
    \/ MissingSection(root, "CONNECT_DATA")
    \/ ConnectDataRefused(Head(Given(root, "CONNECT_DATA")))
    \/ Len(SecuritySettings(root, "SSL_SERVER_CERT_DN")) > 1

ParseDescription(root) ==
    LET data == Head(Given(root, "CONNECT_DATA"))
        dn == SecuritySettings(root, "SSL_SERVER_CERT_DN")
    IN  [lists |-> AddressLists(root),
         failover |-> Switch(root, "FAILOVER", TRUE),
         balance |-> Switch(root, "LOAD_BALANCE", FALSE),
         timing |-> [k \in Timings |-> Number(root, k)],
         database |-> [k \in {"SERVICE_NAME", "SID", "INSTANCE_NAME", "SERVER"} |->
                          ValueOf(data, k, "none")],
         dn |-> IF dn = <<>> THEN "none" ELSE Head(dn).value]

(* A DESCRIPTION_LIST is one description with the addresses of all: they   *)
(* must name one database, and the first to give a time gives it for all.  *)
Merge(parts) ==
    LET giving(k) == {i \in DOMAIN parts : parts[i].timing[k] # {}}
        time(k) == IF giving(k) = {} THEN {} ELSE parts[Min(giving(k))].timing[k]
    IN  [Head(parts) EXCEPT !.lists = FlattenSeq([i \in DOMAIN parts |-> parts[i].lists]),
                            !.timing = [k \in Timings |-> time(k)]]

ListOfDescriptionsRefused(root) ==
    LET parts == Given(root, "DESCRIPTION")
    IN  \/ Len(root.children) > MaximumAddresses \/ parts = <<>>
        \/ ~(Keys(root) \subseteq {"DESCRIPTION"} \cup ListSwitches)
        \/ \E c \in ToSet(root.children) :
              /\ c.key \in ListSwitches
              /\ c.value \notin OnWords \cup OffWords
        \/ \E p \in ToSet(parts) :
              \/ DescriptionRefused(p)
              \/ ParseDescription(p).database # ParseDescription(Head(parts)).database
              \/ ParseDescription(p).dn # ParseDescription(Head(parts)).dn

ParseListOfDescriptions(root) ==
    LET parts == [i \in DOMAIN Given(root, "DESCRIPTION") |->
                     ParseDescription(Given(root, "DESCRIPTION")[i])]
        said(k, default) ==     \* the last one counts
            IF k \in Keys(root) THEN Last(Given(root, k)).value \in OnWords ELSE default
    IN  [Merge(parts) EXCEPT
            !.failover = said("FAILOVER", TRUE), !.balance = said("LOAD_BALANCE", FALSE)]

ParseConnectDescriptor(root) ==
    IF root.key = "DESCRIPTION_LIST" THEN ParseListOfDescriptions(root)
    ELSE ParseDescription(root)

ConnectDescriptorRefused(root) ==
    \/ ~Readable(root, "user")
    \/ root.key \notin {"DESCRIPTION", "DESCRIPTION_LIST"}
    \/ root.key = "DESCRIPTION" /\ DescriptionRefused(root)
    \/ root.key = "DESCRIPTION_LIST" /\ ListOfDescriptionsRefused(root)
    \/ Len(Endpoints(ParseConnectDescriptor(root).lists)) > MaximumAddresses

-----------------------------------------------------------------------------
(* The other texts that become descriptors                                 *)

(* A tnsnames.ora: its definitions in order, each with the words that      *)
(* begin its further lines; the search goes by lines.                      *)
FindTnsAlias(file, alias) ==
    {d.descriptor : d \in {e \in ToSet(file) : e.alias = alias /\ ~e.comment}}

TnsAliasRefused(file, alias) ==
    \/ Cardinality({i \in DOMAIN file : file[i].alias = alias /\ ~file[i].comment}) # 1
    \/ \E d \in ToSet(file) : d.alias # alias /\ ~d.comment /\ alias \in d.words

(* [scheme://]host[:port],.../service[:server][/instance][?parameters]     *)
EasyParameters ==
    (Timings \cup ListSwitches \cup {"EXPIRE_TIME", "SDU"})
        \cup {"SSL_SERVER_DN_MATCH", "SSL_SERVER_CERT_DN"}

EasyConnectRefused(e) ==
    \/ e.scheme \notin {"none", "tcp", "tcps"}
    \/ Len(e.hosts) \notin 1..MaximumAddresses
    \/ \E h \in ToSet(e.hosts) : BadHost(h.host)
    \/ \E p \in ToSet(e.parameters) : p.key \notin EasyParameters

EasyConnectToDescriptor(e) ==
    LET protocol == IF e.scheme = "tcps" THEN "TCPS" ELSE "TCP"
        address(h) == Tree("ADDRESS", <<Leaf("PROTOCOL", protocol), Leaf("HOST", h.host),
                                        Digits("PORT", IF h.port = {} THEN 1521
                                                       ELSE Min(h.port))>>)
        ofSecurity(p) == p.key \in {"SSL_SERVER_DN_MATCH", "SSL_SERVER_CERT_DN"}
        parameters == DOMAIN e.parameters
        secure == {i \in parameters : ofSecurity(e.parameters[i])}
        security == Selected(e.parameters, secure)
        names == <<Leaf("SERVER", e.server), Leaf("INSTANCE_NAME", e.instance)>>
        named == Selected(names, {i \in 1..2 : names[i].value # "none"})
    IN  Tree("DESCRIPTION",
             Selected(e.parameters, parameters \ secure)
                 \o [i \in DOMAIN e.hosts |-> address(e.hosts[i])]
                 \o <<Tree("CONNECT_DATA", <<Leaf("SERVICE_NAME", e.service)>> \o named)>>
                 \o (IF security = <<>> THEN <<>> ELSE <<Tree("SECURITY", security)>>))

-----------------------------------------------------------------------------
(* Secrets                                                                 *)

IsOptional(optional, values) ==
    optional \subseteq values /\ \A x, y \in optional : x = y

IsEasyConnect(e) ==
    /\ e.hosts \in Seq(ToSet(e.hosts)) /\ e.parameters \in Seq(ToSet(e.parameters))
    /\ \A h \in ToSet(e.hosts) : h.host \in STRING /\ IsOptional(h.port, Nat)
    /\ \A p \in ToSet(e.parameters) : IsNode(p) /\ IsLeaf(p)
    /\ {e.service, e.server, e.instance} \subseteq STRING

IsSecret(s) ==
    /\ s.host \in STRING /\ IsOptional(s.port, Nat)
    /\ \A d \in ToSet(s.file) : IsText(d.descriptor)
    /\ \A x \in s.alias \cup s.descriptor \cup s.dsn :
          /\ x.form \in {"alias", "descriptor", "easy"}
          /\ x.form = "descriptor" => IsText(x.descriptor)
          /\ x.form = "easy" => IsEasyConnect(x.easy)

(* The optional fields that name addresses, and what each leads to.        *)
Sources(s) == s.alias \cup s.descriptor \cup s.dsn

SourceRefused(s) ==
    \E x \in Sources(s) :
        CASE x.form = "alias" ->
                \/ s.places = {}     \* CONFIG_DIR, the wallet or TNS_ADMIN
                \/ TnsAliasRefused(s.file, x.alias)
          [] x.form = "easy" -> EasyConnectRefused(x.easy)
          [] x.form = "descriptor" -> FALSE

DescriptorOf(s) ==
    LET x == CHOOSE y \in Sources(s) : TRUE
    IN  CASE x.form = "alias" -> CHOOSE d \in FindTnsAlias(s.file, x.alias) : TRUE
          [] x.form = "easy" -> EasyConnectToDescriptor(x.easy)
          [] x.form = "descriptor" -> x.descriptor

Either(optional, default) == IF optional = {} THEN default ELSE Min(optional)

(* ConnectionFromSecret, for a secret that is not refused.                 *)
ConnectionFromSecret(s) ==
    IF Sources(s) = {}
    THEN LET protocol == IF s.protocol = "tcps" THEN "TCPS" ELSE "TCP"
         IN  [lists |-> <<[addresses |-> <<[host |-> s.host, port |-> Either(s.port, 1521),
                                            protocol |-> protocol]>>,
                           failover |-> TRUE, balance |-> FALSE]>>,
              failover |-> TRUE, balance |-> FALSE, retries |-> 0, delay |-> 1,
              budget |-> {}, timeout |-> Either(s.timeout, 10), protocol |-> protocol,
              database |-> [k \in {"SERVICE_NAME", "SID", "INSTANCE_NAME", "SERVER"} |->
                               IF k \in {"SERVICE_NAME", "SID"} THEN s.names[k] ELSE "none"],
              dn |-> s.dn]
    ELSE LET parsed == ParseConnectDescriptor(DescriptorOf(s))
             secure == \E a \in ToSet(Endpoints(parsed.lists)) : a.protocol = "TCPS"
         IN  [lists |-> parsed.lists, failover |-> parsed.failover,
              balance |-> parsed.balance,
              retries |-> Either(parsed.timing["RETRY_COUNT"], 0),
              delay |-> Either(parsed.timing["RETRY_DELAY"], 1),
              budget |-> parsed.timing["CONNECT_TIMEOUT"],
              timeout |-> Either(parsed.timing["TRANSPORT_CONNECT_TIMEOUT"],
                                 Either(s.timeout, 10)),
              protocol |-> IF secure THEN "TCPS" ELSE "TCP",
              database |-> parsed.database,
              dn |-> IF parsed.dn = "none" THEN s.dn ELSE parsed.dn]

(* Where two places say different things the secret is refused.            *)
DescriptorDisagrees(s) ==
    LET parsed == ParseConnectDescriptor(DescriptorOf(s))
        timeout == parsed.timing["TRANSPORT_CONNECT_TIMEOUT"]
    IN  \/ timeout # {} /\ s.timeout # {} /\ timeout # s.timeout
        \/ parsed.dn # "none" /\ s.dn \notin {"none", parsed.dn}
        \/ /\ s.protocol # "none"
           /\ \E a \in ToSet(Endpoints(parsed.lists)) :
                 a.protocol # IF s.protocol = "tcps" THEN "TCPS" ELSE "TCP"

(* Its TLS options count towards TCPS only.                                *)
UsesTlsOptions(s) == s.tls \/ s.dn # "none" \/ "wallet" \in s.places

SecretRefused(s) ==
    \/ s.protocol \notin {"none", "tcp", "tcps"}
    \/ Cardinality(Sources(s)) > 1
    \/ "config_dir" \in s.places /\ \A x \in Sources(s) : x.form # "alias"
    \/ IF Sources(s) = {}
       THEN \/ s.host = "none" \/ BadHost(s.host) \/ \E p \in s.port : BadPort(p)
            \/ (s.names["SERVICE_NAME"] = "none") = (s.names["SID"] = "none")
       ELSE \/ s.host # "none" \/ s.port # {} \/ \E k \in DOMAIN s.names : s.names[k] # "none"
            \/ SourceRefused(s)
            \/ ConnectDescriptorRefused(DescriptorOf(s))
            \/ DescriptorDisagrees(s)
    \/ ConnectionFromSecret(s).timeout \notin 1..MaximumSeconds
    \/ UsesTlsOptions(s) /\ ConnectionFromSecret(s).protocol # "TCPS"

EffectiveConnectBudget(c, default) == Either(c.budget, Max({default, c.timeout}))

-----------------------------------------------------------------------------
(* What is sent to a listener, and what one sends back                     *)

(* BuildConnectDescriptor; without `cid', BuildAuthConnectString.          *)
BuildDescriptor(c, a, cid) ==
    LET named == SelectSeq([i \in 1..4 |->
                     LET k == <<"SERVICE_NAME", "SID", "INSTANCE_NAME", "SERVER">>[i]
                     IN  Leaf(k, c.database[k])], LAMBDA n : n.value # "none")
    IN  Tree("DESCRIPTION",
             <<Tree("ADDRESS", <<Leaf("PROTOCOL", a.protocol), Leaf("HOST", a.host),
                                 Digits("PORT", a.port)>>),
               Tree("CONNECT_DATA", named \o cid)>>)

RedirectNodes(root) ==
    CASE root.key = "ADDRESS" -> <<root>>
      [] root.key = "ADDRESS_LIST" -> Given(root, "ADDRESS")
      [] root.key = "DESCRIPTION" ->
            FlattenSeq([i \in DOMAIN root.children |->
                LET c == root.children[i]
                IN  CASE c.key = "ADDRESS" -> <<c>>
                      [] c.key = "ADDRESS_LIST" -> Given(c, "ADDRESS")
                      [] OTHER -> <<>>])
      [] OTHER -> <<>>      \* a DESCRIPTION_LIST, and what is none of these

RedirectRefused(root) ==
    \/ ~Readable(root, "listener")
    \/ Len(RedirectNodes(root)) \notin 1..MaximumAddresses
    \/ \E a \in ToSet(RedirectNodes(root)) :
          \/ MissingScalar(a, "HOST") \/ MissingScalar(a, "PORT")
          \/ BadHost(ValueOf(a, "HOST", "none"))
          \/ \E p \in Number(a, "PORT") : BadPort(p)
          \/ Ambiguous(a, {"PROTOCOL"}) \/ ValueOf(a, "PROTOCOL", "TCP") \notin {"TCP", "TCPS"}

ParseRedirectAddresses(root) ==
    [i \in DOMAIN RedirectNodes(root) |->
        LET a == RedirectNodes(root)[i]
        IN  [address |-> ParseAddress(a), protocol_given |-> "PROTOCOL" \in Keys(a)]]

ReconnectDataRefused(root) ==
    ~Readable(root, "listener") \/ root.key # "DESCRIPTION"
        \/ MissingSection(root, "CONNECT_DATA")

-----------------------------------------------------------------------------
(* The orders PlanConnectOrder may choose                                  *)

Shuffles(s) == {[i \in DOMAIN s |-> s[p[i]]] : p \in Bijection(DOMAIN s, DOMAIN s)}

ActiveChildren(s, failover, balance) ==
    IF Len(s) <= 1 THEN {s}
    ELSE CASE failover /\ balance -> Shuffles(s)
           [] failover /\ ~balance -> {s}
           [] ~failover /\ balance -> {<<x>> : x \in ToSet(s)}
           [] ~failover /\ ~balance -> {<<Head(s)>>}

ConnectOrders(c) ==
    LET within(lists) ==
            {FlattenSeq(f) : f \in {g \in [DOMAIN lists -> UNION {
                ActiveChildren(l.addresses, l.failover, l.balance) : l \in ToSet(lists)}] :
                    \A i \in DOMAIN lists : g[i] \in ActiveChildren(lists[i].addresses,
                                                lists[i].failover, lists[i].balance)}}
    IN  UNION {within(lists) : lists \in ActiveChildren(c.lists, c.failover, c.balance)}
=============================================================================
