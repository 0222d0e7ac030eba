--------------------------- MODULE MCServiceChain ---------------------------
(***************************************************************************)
(* ServiceChain for TLC: POP a with transports to b and c.  The profiles   *)
(* have overlapping selectors, a route for each of two hops, a third route *)
(* whose mark an existing rule has, an IPv6 route without a gateway for    *)
(* it, and bundles for another POP and for a client.                       *)
(***************************************************************************)
EXTENDS ServiceChain

V4(addresses) == [family |-> 4, addresses |-> addresses]
V6(addresses) == [family |-> 6, addresses |-> addresses]
To(dst, protocol, ports) ==
    [src |-> Unset, dst |-> dst, domain |-> Unset, class |-> Unset,
     protocol |-> protocol, ports |-> ports]
Route(id, selector, hops) ==
    [id |-> id, selector |-> selector, hops |-> hops, returnHops |-> <<>>,
     directFallback |-> FALSE]
Pop(principal, routes) == [kind |-> "pop", principal |-> principal, routes |-> routes]

Web == Route("web", To(V4({1}), "tcp", <<80, 443>>), <<"b", "c">>)
All == Route("all", To(V4({1, 2}), Unset, Unset), <<"c">>)
Third == Route("third", To(V4({3}), Unset, Unset), <<"b">>)
Six == Route("six", To(V6({1}), Unset, Unset), <<"b">>)
ByName == Route("name", [To(Unset, Unset, Unset) EXCEPT !.domain = "d"], <<"b">>)

SomeProfiles ==
    {Pop("a", <<Web, All>>), Pop("a", <<All, Web>>), Pop("a", <<Web, All, Third>>),
     Pop("a", <<ByName, Six>>), Pop("b", <<All>>),
     [kind |-> "client", principal |-> "a", pops |-> <<"a">>]}

SomeTargets ==
    {[pop |-> "b", gateway |-> 4, table |-> 42], [pop |-> "c", gateway |-> Unset, table |-> 43]}

\* The gateway marks address 3 itself, with the mark of the third route.
OneRule == {[mark |-> 12, table |-> 7, preference |-> 5, match |-> {3}]}

SomeFlows ==
    {[family |-> 4, src |-> 9, dst |-> 1, protocol |-> "tcp", port |-> 443, ingress |-> TRUE],
     [family |-> 4, src |-> 9, dst |-> 2, protocol |-> "udp", port |-> 53, ingress |-> TRUE],
     [family |-> 4, src |-> 9, dst |-> 3, protocol |-> "tcp", port |-> 80, ingress |-> TRUE]}

=============================================================================
