------------------------------ MODULE Connect ------------------------------
(***************************************************************************)
(* One physical connect, from a secret to an authenticated session:        *)
(* ConnectRun and EstablishmentStream (tns_client.cpp), RunTnsConnect      *)
(* (tns_handshake.cpp), the negotiation and the logon (ttc_negotiation     *)
(* .cpp, ttc_o5logon.cpp) and NativeOracleSession::Connect.                *)
(*                                                                         *)
(* The listeners and the server answer anything, in any order, or nothing  *)
(* at all.  Time is one bit: whether the deadline of the connect, the      *)
(* budget's or the caller's, has passed.  The caller may cancel at any     *)
(* moment.  Both are noticed where the code asks, and no sooner.           *)
(***************************************************************************)
EXTENDS Descriptors

CONSTANTS
    Secrets,            \* the secrets a user has created, in a sequence
    Offers,             \* the redirects a listener may send
    Lookup,             \* what a name server may answer, for each host
    Literals,           \* the hosts that are IP addresses
    MaximumResolved,    \* MAX_RESOLVED_ADDRESSES
    MaximumRedirects,   \* MAX_CONNECT_REDIRECTS
    MaximumOpens        \* MAX_CONNECT_TRANSPORT_OPENS

ASSUME ConnectAssumption ==
    {MaximumResolved, MaximumRedirects, MaximumOpens} \subseteq Nat \ {0}

(* Texts have been read into trees, and names stand for lists of addresses. *)
ASSUME InputsAssumption ==
    /\ \A i \in DOMAIN Secrets : IsSecret(Secrets[i])
    /\ \A o \in Offers : IsText(o.address)
    /\ \A h \in DOMAIN Lookup : Lookup[h] \subseteq Seq(STRING)

VARIABLES
    secret, order, retries, \* which secret, in which order its addresses are
                        \* tried, and how often again (RETRY_COUNT)
    phase,              \* see Phases
    pass, at,           \* which pass, and how far through the order
    resolved, chain,    \* what the address's host resolved to, and how far
    stack,              \* the levels of the redirect chain, the innermost last
    opens,              \* transports opened
    last,               \* the last failure another address may not share
    failure,            \* why the connect failed
    transport,          \* the stream, or NoTransport
    expired, cancelled, \* the deadline has passed; the caller has cancelled
    owed,               \* history: the attempts still to be made
    proofs              \* history: how often a proof of the password was sent

plan == <<secret, order, retries>>
loops == <<pass, at, resolved, chain, stack, opens>>
limits == <<expired, cancelled>>
vars == <<secret, order, retries, phase, pass, at, resolved, chain, stack, opens, last, failure,
          transport, expired, cancelled, owed, proofs>>

-----------------------------------------------------------------------------
(* ConnectFailure: those of one address, and those that end the connect.   *)
Failover == {"unreachable", "lost", "refused", "redirect_failed", "tls_handshake"}
Final == {"tls_verification", "protocol", "cancelled", "budget", "resources", "session",
          "secret"}

Handshake == {"connect", "resent", "redirect"}
Logon == {"protocol", "types", "challenge", "proof"}
Waiting == Handshake \cup {"probe"} \cup Logon
Phases == {"pass", "delay", "resolve", "chains", "chain", "open", "accepted", "attributes",
           "ready", "failed"} \cup Waiting

NoTransport == [protocol |-> "none", name |-> "none", armed |-> FALSE]

config == ConnectionFromSecret(Secrets[secret])
Original == order[at]
Top == Last(stack)
Target == Top.targets[Top.next_target]

(* A target's host and port, whatever its protocol.                        *)
AddressKey(a) == <<a.host, a.port>>

(* An attempt: its pass, address, resolved address, and from there the     *)
(* target and the resolved address of every redirect.                      *)
Attempt == Top.path \o <<Top.next_target, Top.next_address>>

Init ==
    /\ secret \in DOMAIN Secrets
    /\ IF SecretRefused(Secrets[secret])
       THEN order = <<>> /\ retries = 0 /\ phase = "failed" /\ failure = "secret"
       ELSE /\ order \in ConnectOrders(config) /\ retries = config.retries
            /\ phase = "pass" /\ failure = "none"
    /\ pass = 0 /\ at = 0
    /\ resolved = <<>> /\ chain = 0
    /\ stack = <<>>
    /\ opens = 0
    /\ last = [why |-> "none", depth |-> 0]
    /\ transport = NoTransport
    /\ expired = FALSE /\ cancelled = FALSE
    /\ owed = {<<0, i>> : i \in DOMAIN order}
    /\ proofs = 0

-----------------------------------------------------------------------------
(* CheckCancelled and CheckBudget: both throw what ends the connect.       *)
Stopped == expired \/ cancelled
Why == IF cancelled THEN "cancelled" ELSE "budget"

Fail(why) ==
    /\ phase' = "failed"
    /\ failure' = why
    /\ transport' = NoTransport
    /\ UNCHANGED <<plan, pass, at, resolved, chain, stack, opens, last, owed, proofs>>

(* A failure the chain survives; its stream is closed.                     *)
Remember(why) ==
    /\ last' = [why |-> why, depth |-> Top.depth]
    /\ owed' = owed \ {Attempt}
    /\ phase' = "chain"
    /\ transport' = NoTransport
    /\ UNCHANGED <<plan, pass, at, resolved, chain, stack, opens, failure, proofs>>

To(next) ==
    /\ phase' = next
    /\ UNCHANGED <<plan, pass, at, resolved, chain, stack, opens, last, failure,
                   transport, owed, proofs>>

-----------------------------------------------------------------------------
(* ConnectRun::Run: passes over the planned addresses                      *)

NextOriginal ==
    /\ phase = "pass" /\ at < Len(order)
    /\ at' = at + 1
    /\ phase' = "resolve"
    /\ UNCHANGED <<plan, pass, resolved, chain, stack, opens, last, failure,
                   transport, owed, proofs, expired, cancelled>>

NextPass ==
    /\ phase = "pass" /\ at = Len(order) /\ pass < retries
    /\ To("delay")
    /\ UNCHANGED limits

GivesUp ==
    /\ phase = "pass" /\ at = Len(order) /\ pass = retries
    /\ Fail(last.why)
    /\ UNCHANGED limits

(* Delay: over, or cancelled, or there was no time for it.                 *)
DelayEnds ==
    /\ phase = "delay"
    /\ ~cancelled /\ ~expired
    /\ pass' = pass + 1
    /\ at' = 0
    /\ phase' = "pass"
    /\ owed' = {<<pass + 1, i>> : i \in DOMAIN order}
    /\ UNCHANGED <<plan, resolved, chain, stack, opens, last, failure, transport,
                   proofs, expired, cancelled>>

DelayFails ==
    /\ phase = "delay"
    /\ Fail(Why)
    /\ UNCHANGED limits

-----------------------------------------------------------------------------
(* ConnectRun::Resolve, for a planned address and for one of a redirect    *)

(* ResolveOracleHost: no repetitions, and no more than the bound; nothing  *)
(* for a name that no server knows.                                        *)
ResolveOracleHost(answer) ==
    LET once == Selected(answer, {i \in DOMAIN answer : \A j \in 1..i - 1 : answer[j] # answer[i]})
    IN  SubSeq(once, 1, Min({Len(once), MaximumResolved}))

Answers(host) ==
    IF host \in Literals THEN {<<host>>}
    ELSE IF host \in DOMAIN Lookup THEN {ResolveOracleHost(x) : x \in Lookup[host]}
    ELSE {<<>>}

Resolving == phase = "resolve" \/ (phase = "chain" /\ stack # <<>>
                                   /\ Top.next_address = Len(Top.addresses)
                                   /\ Top.next_target < Len(Top.targets))

ResolveStops ==
    /\ Resolving
    /\ Stopped
    /\ Fail(Why)
    /\ UNCHANGED limits

NoWorker ==     \* a lookup needs a worker and none could be started
    /\ Resolving
    /\ Fail("resources")
    /\ UNCHANGED limits

DialOriginal ==
    /\ phase = "resolve" /\ ~Stopped
    /\ \E found \in Answers(Original.host) :
          /\ resolved' = found
          /\ chain' = 0
          /\ owed' = (owed \ {<<pass, at>>})
                         \cup {<<pass, at, j, 1, 1>> : j \in DOMAIN found}
          /\ last' = IF found = <<>> THEN [why |-> "unreachable", depth |-> 0] ELSE last
          /\ phase' = IF found = <<>> THEN "pass" ELSE "chains"
    /\ UNCHANGED <<plan, pass, at, stack, opens, failure, transport, proofs,
                   expired, cancelled>>

NextChain ==
    /\ phase = "chains" /\ chain < Len(resolved)
    /\ chain' = chain + 1
    /\ stack' = <<[targets |-> <<Original>>, next_target |-> 1,
                   addresses |-> <<resolved[chain + 1]>>, next_address |-> 0,
                   depth |-> 0, path |-> <<pass, at, chain + 1>>]>>
    /\ phase' = "chain"
    /\ UNCHANGED <<plan, pass, at, resolved, opens, last, failure, transport, owed,
                   proofs, expired, cancelled>>

ChainsAreSpent ==
    /\ phase = "chains" /\ chain = Len(resolved)
    /\ To("pass")
    /\ UNCHANGED limits

-----------------------------------------------------------------------------
(* ConnectRun::FollowChain                                                 *)

ChainFails ==
    /\ phase = "chain" /\ stack = <<>>
    /\ last' = IF last.depth = 0 THEN last ELSE [why |-> "redirect_failed", depth |-> 0]
    /\ phase' = "chains"
    /\ UNCHANGED <<plan, pass, at, resolved, chain, stack, opens, failure, transport,
                   owed, proofs, expired, cancelled>>

PopLevel_Early ==       \* bug: a level is left with targets untried
    /\ phase = "chain" /\ stack # <<>>
    /\ Top.next_address = Len(Top.addresses)
    /\ stack' = Front(stack)
    /\ UNCHANGED <<plan, phase, pass, at, resolved, chain, opens, last, failure,
                   transport, owed, proofs, expired, cancelled>>

PopLevel ==
    /\ phase = "chain" /\ stack # <<>>
    /\ Top.next_address = Len(Top.addresses) /\ Top.next_target = Len(Top.targets)
    /\ stack' = Front(stack)
    /\ UNCHANGED <<plan, phase, pass, at, resolved, chain, opens, last, failure,
                   transport, owed, proofs, expired, cancelled>>

ResolveTarget ==
    /\ phase = "chain" /\ Resolving /\ ~Stopped
    /\ LET taken == Top.next_target + 1
           target == Top.path \o <<taken>>
       IN  \E found \in Answers(Top.targets[taken].host) :
              /\ stack' = Append(Front(stack), [Top EXCEPT !.next_target = taken,
                                                !.addresses = found, !.next_address = 0])
              /\ owed' = (owed \ {target})
                             \cup {Append(target, j) : j \in DOMAIN found}
              /\ last' = IF found # <<>> THEN last
                         ELSE [why |-> "unreachable", depth |-> Top.depth]
    /\ UNCHANGED <<plan, phase, pass, at, resolved, chain, opens, failure, transport,
                   proofs, expired, cancelled>>

HasAddress ==
    phase = "chain" /\ stack # <<>> /\ Top.next_address < Len(Top.addresses)

(* BeforeAttempt, and the call of OpenOracleTransport.                     *)
Dial ==
    /\ HasAddress /\ ~Stopped /\ opens < MaximumOpens
    /\ opens' = opens + 1
    /\ stack' = Append(Front(stack), [Top EXCEPT !.next_address = @ + 1])
    /\ phase' = "open"
    /\ UNCHANGED <<plan, pass, at, resolved, chain, last, failure, transport, owed,
                   proofs, expired, cancelled>>

DialRefuses ==
    /\ HasAddress
    /\ \/ Stopped /\ Fail(Why)
       \/ ~Stopped /\ opens = MaximumOpens /\ Fail("budget")
    /\ UNCHANGED limits

(* OpenOracleTransport; the certificate is checked against the name of the *)
(* planned address.                                                        *)
Opened ==
    /\ phase = "open"
    /\ transport' = [protocol |-> Target.protocol, name |-> Original.host, armed |-> TRUE]
    /\ phase' = "connect"
    /\ UNCHANGED <<plan, pass, at, resolved, chain, stack, opens, last, failure, owed,
                   proofs, expired, cancelled>>

OpenFails ==
    /\ phase = "open"
    /\ \/ Remember("unreachable")
       \/ /\ Target.protocol = "TCPS"
          /\ Remember("tls_handshake") \/ Fail("tls_verification")
       \/ Fail("protocol")
    /\ UNCHANGED limits

-----------------------------------------------------------------------------
(* RunTnsConnect, through the EstablishmentStream, which asks before and   *)
(* after every read and write, and after one that failed.                  *)

Resend ==
    /\ phase = "connect" /\ ~Stopped
    /\ To("resent")
    /\ UNCHANGED limits

Refuse ==
    /\ phase \in {"connect", "resent"} /\ ~Stopped
    /\ Remember("refused")
    /\ UNCHANGED limits

(* The listener is gone, or silent for the read timeout.                   *)
ListenerLost ==
    /\ phase \in Handshake /\ ~Stopped
    /\ Remember("lost")
    /\ UNCHANGED limits

(* It cannot be parsed.                                                    *)
Nonsense ==
    /\ phase \in Waiting
    /\ Fail(IF Stopped THEN Why ELSE IF phase \in Logon THEN "session" ELSE "protocol")
    /\ UNCHANGED limits

(* A wait that the transport's own deadline cuts short.                    *)
CutShort_UpToAccept ==      \* bug: the transport has the deadline until then
    /\ phase \in Handshake /\ expired
    /\ Fail(Why)
    /\ UNCHANGED limits

CutShort ==
    /\ phase \in Waiting /\ expired
    /\ Fail(Why)
    /\ UNCHANGED limits

Redirect ==     \* its data follows, in packets of its own or at once
    /\ phase \in {"connect", "resent"} /\ ~Stopped
    /\ To("redirect")
    /\ UNCHANGED limits

(* FollowRedirect, with what the listener named.                           *)
Hops(offer) ==
    LET hop(r) == IF r.protocol_given THEN r.address
                  ELSE [r.address EXCEPT !.protocol = Target.protocol]
        hops == [i \in DOMAIN offer |-> hop(offer[i])]
        walked == {AddressKey(l.targets[l.next_target]) : l \in ToSet(stack)}
    IN  Selected(hops, {i \in DOMAIN offer : AddressKey(hops[i]) \notin walked})

ChangesProtocol_Never(offer) == FALSE       \* bug: the listener's protocol is taken
ChangesProtocol(offer) ==
    \E r \in ToSet(offer) : r.protocol_given /\ r.address.protocol # Target.protocol

Push(next) ==
    /\ stack' = Append(stack, [targets |-> next, next_target |-> 0, addresses |-> <<>>,
                               next_address |-> 0, depth |-> Top.depth + 1,
                               path |-> Attempt])
    /\ owed' = (owed \ {Attempt}) \cup {Append(Attempt, t) : t \in DOMAIN next}
    /\ phase' = "chain"
    /\ transport' = NoTransport
    /\ UNCHANGED <<plan, pass, at, resolved, chain, opens, last, failure, proofs>>

FollowRedirect ==
    /\ phase = "redirect" /\ ~Stopped
    /\ \E o \in Offers :
          LET offer == ParseRedirectAddresses(o.address)
          IN  IF Top.depth + 1 > MaximumRedirects THEN Remember("redirect_failed")
              ELSE IF \/ RedirectRefused(o.address)
                      \/ \E d \in o.data : ReconnectDataRefused(d)
                      \/ ChangesProtocol(offer)
              THEN Fail("protocol")
              ELSE IF Hops(offer) = <<>> THEN Remember("redirect_failed")
              ELSE Push(Hops(offer))
    /\ UNCHANGED limits

Accept ==
    /\ phase \in {"connect", "resent"} /\ ~Stopped
    /\ To("probe") \/ To("accepted")        \* with CHECK_OOB, or without
    /\ UNCHANGED limits

-----------------------------------------------------------------------------
(* Accept, Negotiate and AuthenticateO5Logon: within the same limits, and  *)
(* nothing of it is tried again.                                           *)

ProbeAnswered ==
    /\ phase = "probe" /\ ~Stopped
    /\ To("accepted")
    /\ UNCHANGED limits

HandOver ==
    /\ phase = "accepted"
    /\ IF Stopped THEN Fail(Why) ELSE To("protocol")
    /\ UNCHANGED limits

ServerAnswers ==
    /\ phase \in {"protocol", "types"} /\ ~Stopped
    /\ To(IF phase = "protocol" THEN "types" ELSE "challenge")
    /\ UNCHANGED limits

Challenged ==
    /\ phase = "challenge" /\ ~Stopped
    /\ proofs' = proofs + 1
    /\ phase' = "proof"
    /\ UNCHANGED <<plan, pass, at, resolved, chain, stack, opens, last, failure,
                   transport, owed, expired, cancelled>>

(* EndEstablishment: only now is the deadline lifted.                      *)
Authenticated ==
    /\ phase = "proof" /\ ~Stopped
    /\ transport' = [transport EXCEPT !.armed = FALSE]
    /\ phase' \in {"attributes", "ready"}
    /\ UNCHANGED <<plan, pass, at, resolved, chain, stack, opens, last, failure, owed,
                   proofs, expired, cancelled>>

(* The server's error, or a lost connection.                               *)
LogonFails_MovesOn ==       \* bug: as if another address could help
    /\ phase \in Logon
    /\ IF Stopped THEN Fail(Why) ELSE Remember("lost")
    /\ UNCHANGED limits

LogonFails ==
    /\ phase \in Logon
    /\ Fail(IF Stopped THEN Why ELSE "session")
    /\ UNCHANGED limits

AttributesSent ==
    /\ phase = "attributes"
    /\ To("ready")
    /\ UNCHANGED limits

PingFails ==        \* within the read timeout at the latest
    /\ phase = "attributes"
    /\ Fail("session")
    /\ UNCHANGED limits

-----------------------------------------------------------------------------
Ended == phase \in {"ready", "failed"}

Expire ==
    /\ ~Ended /\ ~expired
    /\ expired' = TRUE
    /\ UNCHANGED <<plan, phase, loops, last, failure, transport, cancelled, owed, proofs>>

Cancel ==
    /\ ~Ended /\ ~cancelled
    /\ cancelled' = TRUE
    /\ UNCHANGED <<plan, phase, loops, last, failure, transport, expired, owed, proofs>>

(* The steps the connect takes by itself, whatever the network does.       *)
Own ==
    \/ NextOriginal \/ NextPass \/ GivesUp \/ DelayFails
    \/ ResolveStops \/ NextChain \/ ChainsAreSpent \/ ChainFails \/ PopLevel
    \/ Dial \/ DialRefuses \/ OpenFails \/ CutShort \/ HandOver \/ PingFails

Network ==
    \/ DelayEnds \/ NoWorker \/ DialOriginal \/ ResolveTarget \/ Opened
    \/ Resend \/ Refuse \/ ListenerLost \/ Nonsense \/ Redirect \/ FollowRedirect \/ Accept
    \/ ProbeAnswered \/ ServerAnswers \/ Challenged \/ Authenticated \/ LogonFails
    \/ AttributesSent

Next == Own \/ Network \/ Expire \/ Cancel

(* A connect is scheduled, its waits are bounded by the transport's        *)
(* timeouts (OpenFails, PingFails) or cut at the deadline (CutShort,       *)
(* ResolveStops), and time passes.                                         *)
Fairness == WF_vars(Own) /\ WF_vars(Expire)

Spec == Init /\ [][Next]_vars /\ Fairness

-----------------------------------------------------------------------------
(* The variables have the values their comments say.                       *)
TypeOK ==
    /\ secret \in DOMAIN Secrets /\ phase \in Phases
    /\ pass \in Nat /\ at \in 0..Len(order) /\ chain \in 0..Len(resolved)
    /\ opens \in 0..MaximumOpens
    /\ last.why \in Failover \cup {"none"}
    /\ failure \in Failover \cup Final \cup {"none"}
    /\ transport.protocol \in {"none", "TCP", "TCPS"} /\ transport.armed \in BOOLEAN
    /\ {expired, cancelled} \subseteq BOOLEAN
    /\ proofs \in Nat

(* A connect that gives up for a failure another address might not share   *)
(* has tried them all: in the pass it gave up in, every resolved address   *)
(* of every planned one, and every address of every redirect.              *)
TriesEverything == phase = "failed" /\ failure \in Failover => owed = {}

(* Wherever listeners send it, a connect uses the protocol of the address  *)
(* the user planned, checks the server's certificate against its name,     *)
(* comes to no address twice, and follows no more redirects than allowed.  *)
(* The types are checked with it.                                          *)
RedirectsStayInside ==
    /\ TypeOK
    /\ transport # NoTransport =>
          transport.protocol = Original.protocol /\ transport.name = Original.host
    /\ Len(stack) <= MaximumRedirects + 1
    /\ \A i, j \in DOMAIN stack :
          i < j /\ stack[j].next_target # 0 =>
              AddressKey(stack[i].targets[stack[i].next_target])
                  # AddressKey(stack[j].targets[stack[j].next_target])

(* The password is proved at most once in a connect, whatever fails; the   *)
(* stream's deadline holds until then and no longer; and a connect that    *)
(* failed has no stream left.                                              *)
CredentialsOnce ==
    /\ proofs <= 1
    /\ phase \in Waiting \cup {"accepted"} => transport.armed
    /\ phase \in {"ready", "attributes"} => proofs = 1 /\ ~transport.armed
    /\ phase = "failed" => transport = NoTransport

(* A connect ends, whatever its listeners and its server do or do not say. *)
ConnectEnds == <>Ended

-----------------------------------------------------------------------------
(* What a descriptor says, read off its tree without the parser.           *)
AllNodes(root) == UNION {Level(root, d) : d \in 0..MaximumDepth}
Holders(root) == {n \in AllNodes(root) : "ADDRESS" \in Keys(n)}
Written(root) == {ParseAddressList(n).addresses : n \in Holders(root)}
Says(root, k, words) == \E n \in AllNodes(root) : n.key = k /\ n.value \in words

Position(a, s) == CHOOSE i \in DOMAIN s : s[i] = a

(* The addresses of a descriptor are tried as it says: only those it names *)
(* and each once, all of a list where nothing turns failover off, in the   *)
(* order it gives them unless it balances load, and one at most of a list  *)
(* that turns failover off.  What is sent for them the client itself       *)
(* accepts as reconnect data, for a listener may send it back.             *)
PlansWhatIsWritten ==
    phase = "pass" /\ <<pass, at>> = <<0, 0>> /\ Sources(Secrets[secret]) # {} =>
        LET root == DescriptorOf(Secrets[secret])
            written == Written(root)
            all == UNION {ToSet(s) : s \in written}
        IN  /\ order # <<>> /\ IsInjective(order) /\ ToSet(order) \subseteq all
            /\ Switch(root, "FAILOVER", TRUE) =>
                  \A n \in Holders(root) : Switch(n, "FAILOVER", TRUE) =>
                      ToSet(ParseAddressList(n).addresses) \subseteq ToSet(order)
            /\ ~Says(root, "LOAD_BALANCE", OnWords) =>
                  \A s \in written : \A i, j \in DOMAIN s :
                      i < j /\ {s[i], s[j]} \subseteq ToSet(order) =>
                          Position(s[i], order) < Position(s[j], order)
            /\ \A n \in Holders(root) : ~Switch(n, "FAILOVER", TRUE) =>
                  Cardinality(ToSet(ParseAddressList(n).addresses) \cap ToSet(order)) <= 1
            /\ \A a \in ToSet(order), p \in LooseValues :
                  ~ReconnectDataRefused(BuildDescriptor(config, a,
                      <<Tree("CID", <<Leaf("PROGRAM", p)>>), Leaf("CONNECTION_ID", p)>>))
=============================================================================
