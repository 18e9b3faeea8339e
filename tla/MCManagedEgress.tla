--------------------------- MODULE MCManagedEgress ---------------------------
(* An instance of ManagedEgress for TLC: a policy that allows a domain and *)
(* its subdomains, denies one of them, and allows everything under another.*)
EXTENDS ManagedEgress

Domain(host, port) == [host |-> host, kind |-> "domain", port |-> port]

MCDestinations ==
    {Domain(<<"example", "org">>, 443), Domain(<<"evil", "example", "org">>, 443),
     Domain(<<"example", "org">>, 22), Domain(<<"other", "net">>, 443),
     [host |-> <<"public">>, kind |-> "ip", port |-> 443],
     [host |-> <<"loopback">>, kind |-> "ip", port |-> 443]}

MCAllowed ==
    {[mode |-> "apex_and_subdomains", base |-> <<"example", "org">>, kind |-> "domain"],
     [mode |-> "exact", base |-> <<"public">>, kind |-> "ip"],
     [mode |-> "exact", base |-> <<"loopback">>, kind |-> "ip"],
     [mode |-> "subdomains", base |-> <<"net">>, kind |-> "domain"]}

MCDenied == {[mode |-> "exact", base |-> <<"evil", "example", "org">>, kind |-> "domain"]}
=============================================================================
