-------------------------------- MODULE Dhcp --------------------------------
(***************************************************************************)
(* The network bring-up of pci_virtio_net_init (pci/virtio/net/net.c): the *)
(* DHCP exchange, the ARP probe for the gateway it named and the first      *)
(* ping.  The network (external) loses, delays, repeats and reorders       *)
(* frames, and there may be more than one server.                          *)
(***************************************************************************)
EXTENDS Naturals, FiniteSets

CONSTANTS
    DhcpServer,     \* servers that answer
    Addr,           \* addresses they lease
    Default,        \* the values g_my_ip ... are compiled with
    NoAddr          \* 0.0.0.0

ASSUME DhcpAssumption == Default \notin DhcpServer \cup Addr /\ NoAddr \notin Addr

VARIABLES
    dpc,            \* where the bring-up is
    offer,          \* yiaddr, server_id of the offer taken
    lease,          \* g_my_ip, g_gateway_ip, g_dhcp_server, g_dhcp_acquired
    gateway_mac,    \* the host whose ARP reply was learned, or Default
    net             \* frames that may still arrive, each any number of times

dhcpvars == <<dpc, offer, lease, gateway_mac, net>>

----------------------------------------------------------------------------
\* udp_build around dhcp_build: what the servers tell apart in a frame of the client.
dhcp_build(type, ip, server) == [kind |-> "dhcp", type |-> type, ip |-> ip, server |-> server]

\* The options of a reply: a router option may be missing.
Reply(type, ip, server, router) ==
    [kind |-> "reply", type |-> type, ip |-> ip, server |-> server, router |-> router]

\* Mutant: any reply to this transaction matches.
ParseAnyType(f, expect) == f.kind = "reply"

\* dhcp_parse: a reply to this transaction and of the type awaited.  Frames of other
\* protocols, ports and transactions, and replies of another type, are passed over.
dhcp_parse(f, expect) == f.kind = "reply" /\ f.type = expect

\* What a frame of the client makes the servers send; a server acknowledges only the
\* request that names it, or refuses it.  The router, where given, is the server.
Answers(f) ==
    IF f.type = "discover"
    THEN UNION {{Reply("offer", a, s, r) : a \in Addr, r \in {s, NoAddr}} : s \in DhcpServer}
    ELSE {Reply(t, f.ip, f.server, r) : t \in {"ack", "nak"}, r \in {f.server, NoAddr}}

\* Some of the answers reach the wire.
Sends(f) == \E heard \in SUBSET Answers(f) : Cardinality(heard) <= 2 /\ net' = net \cup heard

----------------------------------------------------------------------------
\* Without a MAC neither the exchange nor the probe starts; the waits are gone through.
NoMac == dpc = "start" /\ dpc' = "reply" /\ UNCHANGED <<offer, lease, gateway_mac, net>>

Discover ==
    /\ dpc = "start" /\ dpc' = "offer" /\ Sends(dhcp_build("discover", NoAddr, NoAddr))
    /\ UNCHANGED <<offer, lease, gateway_mac>>

TakeOffer ==
    /\ dpc = "offer"
    /\ \E f \in net : dhcp_parse(f, "offer") /\ offer' = [ip |-> f.ip, server |-> f.server]
    /\ dpc' = "request" /\ UNCHANGED <<lease, gateway_mac, net>>

Request ==
    /\ dpc = "request" /\ dpc' = "ack" /\ Sends(dhcp_build("request", offer.ip, offer.server))
    /\ UNCHANGED <<offer, lease, gateway_mac>>

\* The acknowledgement's own values are committed: out_* start afresh, so an option it does
\* not carry is its default and nothing of the offer is left.
TakeAck ==
    /\ dpc = "ack" /\ dpc' = "arp"
    /\ \E f \in net : /\ dhcp_parse(f, "ack")
                      /\ lease' = [ip |-> f.ip, gateway |-> f.router, server |-> f.server, acquired |-> TRUE]
    /\ UNCHANGED <<offer, gateway_mac, net>>

\* Mutant: the waits have no bound.
WaitsForever == dpc \in {"offer", "ack"} /\ UNCHANGED dhcpvars

\* 5000000 polls without a match: the compiled-in values stay, and the bring-up goes on.
NoDhcpReply ==
    /\ dpc \in {"offer", "ack"} /\ dpc' = "arp"
    /\ UNCHANGED <<offer, lease, gateway_mac, net>>

\* net_send_arp_probe asks for the gateway; ARP replies of any host may come.
net_send_arp_probe ==
    /\ dpc = "arp" /\ dpc' = "reply"
    /\ \E who \in SUBSET {lease.gateway, NoAddr} :
        net' = net \cup {[kind |-> "arp", type |-> "reply", ip |-> a] : a \in who}
    /\ UNCHANGED <<offer, lease, gateway_mac>>

\* An ARP reply is learned, whoever sent it.
parse_arp_reply(f) == gateway_mac' = IF f.kind = "arp" THEN f.ip ELSE gateway_mac

\* The wait for it ends with the first frame, whatever that is, or without one.
LookAtOneFrame ==
    /\ dpc = "reply" /\ dpc' = "ping"
    /\ \E f \in net \cup {[kind |-> "none", ip |-> NoAddr]} : parse_arp_reply(f)
    /\ UNCHANGED <<offer, lease, net>>

\* net_send_ping needs the gateway's address; the result of the first ping changes nothing.
FirstPing == dpc = "ping" /\ dpc' = "up" /\ UNCHANGED <<offer, lease, gateway_mac, net>>

DhcpInit ==
    /\ dpc = "start" /\ offer = [ip |-> NoAddr, server |-> NoAddr] /\ gateway_mac = Default
    /\ lease = [ip |-> Default, gateway |-> Default, server |-> NoAddr, acquired |-> FALSE]
    /\ net = {[kind |-> "noise", ip |-> NoAddr]}

DhcpStep ==
    \/ NoMac \/ Discover \/ TakeOffer \/ Request \/ TakeAck \/ NoDhcpReply
    \/ net_send_arp_probe \/ LookAtOneFrame \/ FirstPing

DhcpNext == DhcpStep \/ (dpc = "up" /\ UNCHANGED dhcpvars)

\* The client runs; each wait is a loop of bounded length.
DhcpSpec == DhcpInit /\ [][DhcpNext]_dhcpvars /\ WF_dhcpvars(DhcpStep)

----------------------------------------------------------------------------
(* Properties.                                                             *)

\* The bring-up is at one of its steps, and the address in use is a leased one or the
\* compiled-in one.
DhcpTypeOK ==
    /\ dpc \in {"start", "offer", "request", "ack", "arp", "reply", "ping", "up"}
    /\ lease.acquired \in BOOLEAN /\ lease.ip \in Addr \cup {Default}

\* net.c:27-29, 681-688: a lease that was acquired is the one the client asked for, from
\* the server it asked, whatever else arrives and in whatever order; and one that was not
\* leaves every compiled-in value as it was.
LeaseAsRequested ==
    IF lease.acquired THEN lease.ip = offer.ip /\ lease.server = offer.server
    ELSE lease = [ip |-> Default, gateway |-> Default, server |-> NoAddr, acquired |-> FALSE]

\* The lease in use, whatever the network delivers and when (net.c:597-688).
LeaseSound == DhcpTypeOK /\ LeaseAsRequested

\* net.c:379-381, 633-642, 863-866: the bring-up ends, with no server and no gateway answering too.
BringUpEnds == dpc # "start" ~> dpc = "up"
=============================================================================
