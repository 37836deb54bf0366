---------------------------- MODULE FirewallRules ----------------------------
(***************************************************************************)
(* The firewall of an edge node, generated from one list of rules for two  *)
(* back ends: ufw on a mutable system, iptables on an immutable one        *)
(* (dkam/pkg/curation).  A field of a rule or of a command is a set; the   *)
(* empty set stands for a field that is not given.                         *)
(***************************************************************************)
CONSTANTS Hosts, \* the addresses of other machines
          Ports  \* the ports of the node

Protocols == {"tcp", "udp"}
Packet == [from : Hosts, port : Ports, proto : Protocols]

\* Names and addresses are the same here: a name is looked up on the node.
FirewallRule ==
  [from : {{}} \cup {{h} : h \in Hosts}, ports : SUBSET Ports, proto : {{}, {"tcp"}, {"udp"}}]

\* A command matches a packet in every field that is given.
Matches(c, p) ==
  /\ c.from = {} \/ p.from \in c.from
  /\ c.ports = {} \/ p.port \in c.ports
  /\ c.proto = {} \/ p.proto \in c.proto

\* ufw takes several ports only together with a protocol.
UfwTakes(c) == c.proto # {} \/ \A a, b \in c.ports : a = b

\* One command with all that is given; nothing if neither source nor ports are.
GenerateUFWCommands(rule) ==
  IF rule.from = {} /\ rule.ports = {} THEN {} ELSE {rule}

\* Without a protocol, the ports are opened for tcp alone.
GenerateIptablesCommandsMutant(rule) ==
  LET ports == IF rule.ports = {} THEN {{}} ELSE {{n} : n \in rule.ports}
      proto == IF rule.proto = {} THEN {"tcp"} ELSE rule.proto IN
  IF rule.from = {} /\ rule.ports = {} /\ rule.proto = {} THEN {}
  ELSE {[from |-> rule.from, ports |-> n, proto |-> proto] : n \in ports}

\* One command for each port, and for each protocol if none is given.
GenerateIptablesCommands(rule) ==
  LET ports == IF rule.ports = {} THEN {{}} ELSE {{n} : n \in rule.ports}
      protos == IF rule.proto = {} THEN {{"tcp"}, {"udp"}} ELSE {rule.proto} IN
  IF rule.from = {} /\ rule.ports = {} /\ rule.proto = {} THEN {}
  ELSE {[from |-> rule.from, ports |-> n, proto |-> t] : n \in ports, t \in protos}

\* getCustomFirewallRules and what the node makes of the commands: is p let in?
UfwAdmits(rules, p) ==
  \E r \in rules : \E c \in GenerateUFWCommands(r) : UfwTakes(c) /\ Matches(c, p)
IptablesAdmits(rules, p) ==
  \E r \in rules : \E c \in GenerateIptablesCommands(r) : Matches(c, p)

\* The rules that mean the same to both: a source or ports are given, and with
\* several ports a protocol.
Clear(r) == (r.from # {} \/ r.ports # {}) /\ UfwTakes(r)

=============================================================================
