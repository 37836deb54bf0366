------------------------- MODULE MCProvisionActions -------------------------
(* Two drives of the same kind and size, one of which may appear late, and *)
(* a removable one with an older system.                                   *)
EXTENDS ProvisionActions, TLC

MCDrives == 1..3
MCAttr == (1 :> [rank |-> 0, size |-> 2, rm |-> FALSE])
       @@ (2 :> [rank |-> 0, size |-> 2, rm |-> FALSE])
       @@ (3 :> [rank |-> 0, size |-> 1, rm |-> TRUE])
MCOrders == {[d \in MCDrives |-> d], [d \in MCDrives |-> IF d = 3 THEN 3 ELSE 3 - d]}
MCOld == {{2, 3}, {3}}
MCLate == {2}
MCTemplates ==
  {[os |-> "ubuntu", custom |-> TRUE, standalone |-> FALSE, feature |-> "NONE", skipKernel |-> FALSE],
   [os |-> "microvisor", custom |-> FALSE, standalone |-> FALSE, feature |-> "NONE", skipKernel |-> TRUE],
   [os |-> "microvisor", custom |-> TRUE, standalone |-> TRUE, feature |-> "FDE", skipKernel |-> FALSE]}

\* One rule for each form: a source, a port, and several ports of one protocol.
MCHosts == {"a", "b"}
MCPorts == {22, 80, 443}
MCRules ==
  {[from |-> {"a"}, ports |-> {}, proto |-> {}], [from |-> {}, ports |-> {22}, proto |-> {}],
   [from |-> {"b"}, ports |-> {80, 443}, proto |-> {"tcp"}]}

=============================================================================
