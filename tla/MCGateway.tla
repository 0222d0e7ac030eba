------------------------------ MODULE MCGateway -----------------------------
(***************************************************************************)
(* Instances of Gateway for TLC: three IPv4 addresses, of which the base   *)
(* configuration routes the third, and an IPv6 one; two egress nodes; a    *)
(* domain rule of high priority, a CIDR rule over the two other addresses, *)
(* a class rule, and another tenant's rule.                                *)
(***************************************************************************)
EXTENDS Gateway

DomainRule == [id |-> 1, tenant |-> 1, priority |-> 9, domains |-> {7}, cidr |-> AnyValue, class |-> AnyValue, egress |-> 1]
CidrRule == [id |-> 2, tenant |-> 1, priority |-> 5, domains |-> AnyValue, cidr |-> {1, 2}, class |-> AnyValue, egress |-> 2]
ClassRule == [id |-> 3, tenant |-> 1, priority |-> 5, domains |-> AnyValue, cidr |-> AnyValue, class |-> 4, egress |-> 1]
OtherRule == [id |-> 4, tenant |-> 2, priority |-> 9, domains |-> AnyValue, cidr |-> {1, 2, 4}, class |-> AnyValue, egress |-> 2]

SomePolicies == {{DomainRule, CidrRule}, {CidrRule, ClassRule}, {ClassRule, OtherRule}}
SomeClassRules ==
    {[id |-> 1, priority |-> 1, domains |-> {7, 8}, cidr |-> AnyValue, class |-> 4],
     [id |-> 2, priority |-> 2, domains |-> AnyValue, cidr |-> {2}, class |-> 5]}
Reply(name, address) == [kind |-> "dns", source |-> 0, domain |-> name, ip |-> address]
Flow(from, address) == [kind |-> "flow", source |-> from, domain |-> 0, ip |-> address]
SomeLogs ==
    {{Reply(7, 1), Reply(8, 1)}, {Reply(7, 1), Reply(7, 4)}, {Reply(8, 1), Flow(10, 2)},
     {Flow(10, 2), Flow(10, 4), Flow(99, 1)}, {Flow(10, 1), Flow(10, 3)}}
TwoTables == [n \in 1..2 |-> 100 + n]
OneBaseRule ==
    <<[mark |-> 50, match |-> {3}, table |-> 103, dest |-> {3}, egress |-> 3, preference |-> 60]>>
SomeDestinations == {AnyValue, {1}}

=============================================================================
