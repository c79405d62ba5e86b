SPECIFICATION Spec
SYMMETRY MCSymmetry
CHECK_DEADLOCK FALSE
CONSTANTS
    Conns = {k1, k2}
    r1 = r1
    r2 = r2
    d1 = d1
    d2 = d2
    k1 = k1
    k2 = k2
    Names <- MCNames
    KindOf <- MCKindOf
    Url <- MCUrl
    Versions = {1, 2}
    Registered = {"ncproxy.io/rule", "ncdns.io/rule"}
    DataOf <- MCDataOf
    Ops = {"create", "put", "revert", "delete", "kind", "unkind"}
    MaxSpecs = 5
    Scenarios <- MCScenarios
    Rules = {r1, r2}
    DnsNames = {d1, d2}
    Nets = {"public", "all"}
    Listed = "DnsRule"
INVARIANTS NoBadRest UpstreamsExist ReloadFollows DnsAtRest KindUsable RuleServed
