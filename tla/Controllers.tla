---------------------------- MODULE Controllers -----------------------------
(***************************************************************************)
(* nanocld's resources with the two controllers they are handed to.        *)
(***************************************************************************)
EXTENDS Resources, Sequences

CONSTANTS Rules, DnsNames, Nets, Listed

(* A rule the event loop writes is not a connection; a rule is a resource, *)
(* and of a kind that has a controller.                                    *)
ASSUME ControllersAssumption ==
    /\ Conns \cap Rules = {} /\ Rules \cap DnsNames = {}
    /\ Rules \subseteq Names /\ \A r \in Rules : KindOf[r] \in Url

VARIABLES
    site, stream, up, fresh, op, reload, sent, loop, evq, addr, secret, undone, pleft,
    file, running, dns, dfailed, dleft

P == INSTANCE ProxyRules
D == INSTANCE DnsRules

pvars == <<site, stream, up, fresh, op, reload, sent, loop, evq, addr, secret, undone, pleft>>
dvars == <<file, running, dns, dfailed, dleft>>
vars == <<rvars, pvars, dvars>>

Init == RInit /\ P!PInit /\ D!DInit

Next ==
    \/ RNext /\ UNCHANGED <<pvars, dvars>>
    \/ P!PNext /\ UNCHANGED <<kinds, res, specs, req, scope, rleft, dvars>>
    \/ D!DNext /\ UNCHANGED <<kinds, res, specs, req, scope, rleft, calm, pvars>>

Spec == Init /\ [][Next]_vars

(* ncproxy: with no rule being written, nginx accepts the files on disk.   *)
NoBadRest == P!NoBadRest

(* ncproxy: an enabled rule file names upstreams that exist.               *)
UpstreamsExist == P!UpstreamsExist

(* ncproxy: files nginx has not loaded have a reload on its way.           *)
ReloadFollows == P!ReloadFollows

(* ncdns: at rest dnsmasq runs with the files on disk.                     *)
DnsAtRest == D!DnsAtRest

(* When everything rests, a resource whose requests never overlapped or    *)
(* failed is served by its controller as nanocld has it: the files of its  *)
(* current version are enabled, and a deleted one has none.  (A stream     *)
(* that add_rule skips, for want of an address or a secret, leaves the     *)
(* stream of an earlier version in place.)                                 *)
RuleServed ==
    Resting /\ P!Quiet =>
        \A r \in Rules : calm[r] =>
            /\ res[r] = 0 => ~site[r].link /\ ~stream[r].link
            /\ res[r] # 0 /\ Data(r).site # "no" => site[r].link /\ site[r].text.of = Data(r).site
            /\ res[r] # 0 /\ stream[r].link /\ Data(r).stream # "no" =>
                    stream[r].text.of = Data(r).stream
=============================================================================
