----------------------------- MODULE ManagedEgress -----------------------------
(***************************************************************************)
(* The managed egress of one conversation: ManagedNetworkRuntime with its  *)
(* HTTP and SOCKS5 policy proxies, which share one connection admission;   *)
(* the native helper that launches a worker namespace with two bridges to  *)
(* those proxies; and the connections the guest makes through them.        *)
(*                                                                         *)
(* A guest connection is accepted by a bridge, relayed to the private Unix *)
(* socket of a proxy, decided by the destination policy, given one of a    *)
(* limited number of slots, resolved once, dialled and relayed.  DNS, the  *)
(* destination and the guest are external and may do anything.             *)
(***************************************************************************)
EXTENDS Naturals, FiniteSets, Sequences, SequencesExt

CONSTANTS
    Conns,          \* guest connections, each made once
    MaxConnections, \* maxConnections of the policy configuration
    MaxBytes,       \* maxConnectionBytes
    MaxLaunches,    \* bound: worker namespaces launched
    MaxCrashes,     \* bound: crashes of the server process
    Destinations,   \* what a guest asks for: [host, kind, port]
    Allowed,        \* compiled patterns: [mode, base, kind]
    Denied,
    Ports,          \* allowedPorts
    Addresses,      \* addresses the resolver may return
    Public          \* those classified public

ASSUME EgressAssumption ==
    /\ MaxConnections \in Nat \ {0} /\ MaxBytes \in Nat
    /\ MaxLaunches \in Nat /\ MaxCrashes \in Nat
    /\ Public \subseteq Addresses
    /\ IsFiniteSet(Conns)

(* What normalizeDestinationHost and normalizeDestinationPattern let pass: *)
(* an IP literal has no wildcard.                                          *)
ASSUME PolicyAssumption ==
    /\ \A d \in Destinations : d.host \in Seq(STRING) /\ d.kind \in {"domain", "ip"}
    /\ \A p \in Allowed \cup Denied :
          /\ p.mode \in {"all", "exact", "subdomains", "apex_and_subdomains"}
          /\ p.mode # "all" => p.base \in Seq(STRING) /\ p.kind \in {"domain", "ip"}
          /\ p.mode # "all" /\ p.kind = "ip" => p.mode = "exact"

VARIABLES
    rt,         \* ManagedNetworkRuntime
    helper,     \* the native helper's processes
    conn,       \* the connections
    active      \* ConnectionAdmission.#active

vars == <<rt, helper, conn, active>>

Proxies == {"http", "socks"}

Idle == [stage |-> "none", via |-> "http", client |-> FALSE, bytes |-> 0, dest |-> <<>>, addr |-> <<>>]

Connections ==
    [stage : {"none", "setup", "dialing", "relay", "closed"}, via : Proxies, client : BOOLEAN,
     bytes : 0..MaxBytes, dest : Destinations \cup {<<>>}, addr : Seq(Addresses)]

(* The type invariant.  rt.files counts what start has created, in order:  *)
(* the process directory, the runtime directory, the HTTP socket and the   *)
(* SOCKS socket.                                                           *)
TypeOK ==
    /\ rt \in [stage : {"off", "cleaning", "making", "up", "unwinding", "closing", "closed", "failed"},
               files : 0..4, stale : 0..4, crashes : 0..MaxCrashes]
    /\ helper \in [outer : {"none", "setup", "forked", "ready", "dead"},
                   bridge : [Proxies -> {"none", "waiting", "serving", "dead"}],
                   flag : [Proxies -> BOOLEAN],
                   inner : {"none", "starting", "sent", "worker", "dead"},
                   launches : 0..MaxLaunches]
    /\ conn \in [Conns -> Connections]
    /\ active \in 0..MaxConnections

Init ==
    /\ rt = [stage |-> "off", files |-> 0, stale |-> 0, crashes |-> 0]
    /\ helper = [outer |-> "none", bridge |-> [p \in Proxies |-> "none"],
                 flag |-> [p \in Proxies |-> FALSE], inner |-> "none", launches |-> 0]
    /\ conn = [c \in Conns |-> Idle]
    /\ active = 0
-----------------------------------------------------------------------------
(* The destination policy.                                                 *)

(* matches: hosts are sequences of labels, an address one of length one.   *)
Matches(pattern, d) ==
    IF pattern.mode = "all" THEN TRUE
    ELSE IF pattern.kind = "ip" \/ d.kind = "ip"
    THEN pattern.mode = "exact" /\ pattern.kind = d.kind /\ pattern.base = d.host
    ELSE CASE pattern.mode = "exact" -> pattern.base = d.host
           [] pattern.mode = "subdomains" -> IsSuffix(pattern.base, d.host) /\ pattern.base # d.host
           [] OTHER -> IsSuffix(pattern.base, d.host)

(* Mutant: an allow pattern is consulted before the deny patterns.         *)
DecideAllowFirst(d) ==
    IF \E p \in Allowed : Matches(p, d) /\ d.port \in Ports THEN "allowlist"
    ELSE IF \E p \in Denied : Matches(p, d) THEN "explicit_deny"
    ELSE "not_allowed"

(* decideDestination                                                       *)
Decide(d) ==
    IF \E p \in Denied : Matches(p, d) THEN "explicit_deny"
    ELSE IF d.port \notin Ports THEN "port_not_allowed"
    ELSE IF ~\E p \in Allowed : Matches(p, d) THEN "not_allowed"
    ELSE IF d.kind = "ip" /\ d.host[1] \notin Public THEN "local_address"
    ELSE "allowlist"

(* BoundedPinnedResolver.resolve: the addresses it may pin, given the one  *)
(* answer of the lookup; one address that is not public refuses them all.  *)
Pinned(d, answers) ==
    LET found == IF d.kind = "ip" THEN {d.host[1]} ELSE answers
    IN IF found \subseteq Public THEN found ELSE {}
-----------------------------------------------------------------------------
(* ManagedNetworkRuntime.                                                  *)

Listening(p) == rt.stage \in {"making", "up"} /\ rt.files >= (IF p = "http" THEN 3 ELSE 4)

(* forceClose of both proxies: admission stops, every stream is destroyed; *)
(* closing a listener unlinks its socket.  A dial under way goes on.       *)
Streamless == [c \in Conns |-> IF conn[c].stage \in {"setup", "relay"}
                               THEN [conn[c] EXCEPT !.stage = "closed", !.client = FALSE]
                               ELSE [conn[c] EXCEPT !.client = FALSE]]

Dialing == Cardinality({c \in Conns : conn[c].stage = "dialing"})

Shuts(stage) ==
    /\ rt' = [rt EXCEPT !.stage = stage, !.files = IF @ > 2 THEN 2 ELSE @]
    /\ conn' = Streamless
    /\ active' = Dialing

(* #start begins, and cleanupStale... lists the data directory.            *)
Start ==
    /\ rt.stage = "off"
    /\ rt' = [rt EXCEPT !.stage = IF rt.stale > 0 THEN "cleaning" ELSE "making"]
    /\ UNCHANGED <<helper, conn, active>>

(* One entry of a dead process's directory is removed.                     *)
CleanStale ==
    /\ rt.stage = "cleaning"
    /\ rt' = IF rt.stale > 0 THEN [rt EXCEPT !.stale = @ - 1] ELSE [rt EXCEPT !.stage = "making"]
    /\ UNCHANGED <<helper, conn, active>>

(* Another conversation of this server starts at the same time and removes *)
(* the entry first: readdir, unlink or rmdir throws, and so does start.    *)
CleanedElsewhere ==
    /\ rt.stage = "cleaning" /\ rt.stale > 0
    /\ rt' = [rt EXCEPT !.stale = @ - 1, !.stage = "failed"]
    /\ UNCHANGED <<helper, conn, active>>

(* mkdir, mkdir, listen, listen, and the final verification.               *)
Make ==
    /\ rt.stage = "making"
    /\ rt' = IF rt.files < 4 THEN [rt EXCEPT !.files = @ + 1] ELSE [rt EXCEPT !.stage = "up"]
    /\ UNCHANGED <<helper, conn, active>>

(* A step of start fails: the catch block.                                 *)
MakeFails ==
    /\ rt.stage = "making"
    /\ Shuts("unwinding")
    /\ UNCHANGED helper

(* A listener's error or close event: #fatal of the proxy, then of the     *)
(* runtime, which shuts both and begins its own close.                     *)
ProxyFails ==
    /\ rt.stage \in {"making", "up"} /\ \E p \in Proxies : Listening(p)
    /\ rt' = [rt EXCEPT !.stage = IF @ = "making" THEN "unwinding" ELSE "closing",
                        !.files = IF @ > 2 THEN 2 ELSE @]
    /\ conn' = Streamless
    /\ active' = Dialing
    /\ UNCHANGED helper

(* close: the runtime of the conversation is disposed.                     *)
Close ==
    /\ rt.stage = "up"
    /\ Shuts("closing")
    /\ UNCHANGED helper

(* #close and the catch block remove what is left, innermost first.        *)
RemoveFiles ==
    /\ rt.stage \in {"unwinding", "closing"}
    /\ rt' = IF rt.files > 0 THEN [rt EXCEPT !.files = @ - 1]
             ELSE [rt EXCEPT !.stage = IF @ = "closing" THEN "closed" ELSE "failed"]
    /\ UNCHANGED <<helper, conn, active>>

(* The server process dies and is started again: its files stay behind,    *)
(* its sockets are closed; the helper learns from its parent's death.      *)
Crash ==
    /\ rt.crashes < MaxCrashes /\ rt.stage # "off"
    /\ rt' = [stage |-> "off", files |-> 0, stale |-> IF rt.files > 0 THEN rt.files ELSE rt.stale,
              crashes |-> rt.crashes + 1]
    /\ conn' = [c \in Conns |-> IF conn[c].stage = "none" THEN conn[c] ELSE [Idle EXCEPT !.stage = "closed"]]
    /\ active' = 0
    /\ UNCHANGED helper
-----------------------------------------------------------------------------
(* The native helper.                                                      *)

AllDead(h) ==
    [h EXCEPT !.outer = "dead", !.inner = "dead", !.bridge = [p \in Proxies |-> "dead"]]

(* The worker client spawns the outer helper.                              *)
Launch ==
    /\ rt.stage = "up" /\ helper.launches < MaxLaunches
    /\ helper.outer \in {"none", "dead"} /\ helper.inner \in {"none", "dead"}
    /\ \A p \in Proxies : helper.bridge[p] \in {"none", "dead"}
    /\ helper' = [outer |-> "setup", bridge |-> [p \in Proxies |-> "none"],
                  flag |-> [p \in Proxies |-> FALSE], inner |-> "none", launches |-> helper.launches + 1]
    /\ UNCHANGED <<rt, conn, active>>

(* run_outer up to the spawn of Bubblewrap: descriptors, sockets and       *)
(* artifacts are validated, the bridges are forked; any failure ends all.  *)
OuterForks ==
    /\ helper.outer = "setup"
    /\ \/ /\ rt.stage = "up"
          /\ helper' = [helper EXCEPT !.outer = "forked", !.inner = "starting",
                                      !.bridge = [p \in Proxies |-> "waiting"]]
       \/ helper' = AllDead(helper)
    /\ UNCHANGED <<rt, conn, active>>

(* run_inner: the namespace is verified, both listeners are handed over.   *)
InnerSends ==
    /\ helper.inner = "starting"
    /\ helper' = [helper EXCEPT !.inner = "sent"]
    /\ UNCHANGED <<rt, conn, active>>

(* bridge::run: exactly one authenticated loopback listener, then "OK" and *)
(* the shared flag; anything else ends the bridge.                         *)
BridgeReceives(p) ==
    /\ helper.bridge[p] = "waiting" /\ helper.inner = "sent"
    /\ \/ helper' = [helper EXCEPT !.bridge[p] = "serving", !.flag[p] = TRUE]
       \/ helper' = [helper EXCEPT !.bridge[p] = "dead"]
    /\ UNCHANGED <<rt, conn, active>>

(* require_ack twice, capabilities dropped, seccomp installed, exec; an    *)
(* end of file instead of an acknowledgement ends the namespace.           *)
InnerExecs ==
    /\ helper.inner = "sent"
    /\ \/ (\A p \in Proxies : helper.flag[p]) /\ helper' = [helper EXCEPT !.inner = "worker"]
       \/ (\E p \in Proxies : helper.bridge[p] = "dead" /\ ~helper.flag[p])
          /\ helper' = [helper EXCEPT !.inner = "dead"]
    /\ UNCHANGED <<rt, conn, active>>

(* wait_bridges sees both flags; READY goes to the worker client, which    *)
(* sends the hello only then.                                              *)
OuterReady ==
    /\ helper.outer = "forked" /\ \A p \in Proxies : helper.flag[p]
    /\ helper' = [helper EXCEPT !.outer = "ready"]
    /\ UNCHANGED <<rt, conn, active>>

(* The ten-second deadline of wait_bridges, or Bubblewrap's exit then or   *)
(* later: the bridges are killed and reaped.                               *)
OuterReaps ==
    /\ \/ helper.outer = "forked" /\ \E p \in Proxies : ~helper.flag[p]
       \/ helper.outer = "ready" /\ helper.inner = "dead"
    /\ helper' = AllDead(helper)
    /\ UNCHANGED <<rt, conn, active>>

(* The namespace ends: the worker exits, or is killed.                     *)
InnerDies ==
    /\ helper.inner \in {"starting", "sent", "worker"}
    /\ helper' = [helper EXCEPT !.inner = "dead"]
    /\ UNCHANGED <<rt, conn, active>>

(* A bridge process fails; once serving, nobody is told.                   *)
BridgeDies(p) ==
    /\ helper.bridge[p] = "serving"
    /\ helper' = [helper EXCEPT !.bridge[p] = "dead"]
    /\ UNCHANGED <<rt, conn, active>>

(* The worker client kills the helper's process group, the bridges with    *)
(* it; or the server is gone, and the parent-death signal does.  Bubblewrap*)
(* has a session of its own.                                               *)
OuterKilled ==
    /\ helper.outer \in {"setup", "forked", "ready"}
    /\ helper' = [helper EXCEPT !.outer = "dead", !.bridge = [p \in Proxies |-> "dead"]]
    /\ UNCHANGED <<rt, conn, active>>

(* --die-with-parent                                                       *)
NamespaceFollows ==
    /\ helper.outer = "dead" /\ helper.inner \in {"starting", "sent", "worker"}
    /\ helper' = [helper EXCEPT !.inner = "dead"]
    /\ UNCHANGED <<rt, conn, active>>
-----------------------------------------------------------------------------
(* The connections.                                                        *)

(* A bridge accepts the guest (fewer than its limit of 128 are relayed)    *)
(* and connects to its proxy's socket.                                     *)
GuestConnects(c, p) ==
    /\ conn[c].stage = "none"
    /\ helper.inner = "worker" /\ helper.bridge[p] = "serving"
    /\ conn' = [conn EXCEPT ![c] = IF Listening(p)
                                   THEN [Idle EXCEPT !.stage = "setup", !.via = p, !.client = TRUE]
                                   ELSE [Idle EXCEPT !.stage = "closed"]]
    /\ UNCHANGED <<rt, helper, active>>

(* The absolute setup timer, a malformed request, or one denied by the     *)
(* policy or for want of a slot.                                           *)
Refused(c) ==
    /\ conn[c].stage = "setup"
    /\ conn' = [conn EXCEPT ![c] = [Idle EXCEPT !.stage = "closed"]]
    /\ UNCHANGED <<rt, helper, active>>

(* #connect of either proxy, as far as the connector: decision, then slot. *)
Admitted(c, d) ==
    /\ conn[c].stage = "setup" /\ rt.stage = "up"
    /\ Decide(d) = "allowlist"
    /\ active < MaxConnections
    /\ active' = active + 1
    /\ conn' = [conn EXCEPT ![c].stage = "dialing", ![c].dest = d]
    /\ UNCHANGED <<rt, helper>>

HttpRequested(c) == conn[c].via = "http" /\ \E d \in Destinations : Admitted(c, d)

SocksRequested(c) == conn[c].via = "socks" /\ \E d \in Destinations : Admitted(c, d)

(* Mutant: a stream added after closeAll is kept.                          *)
DialedKept(c) ==
    /\ conn[c].stage = "dialing"
    /\ \E answers \in SUBSET Addresses : \E a \in Pinned(conn[c].dest, answers) :
          conn' = [conn EXCEPT ![c].stage = "relay", ![c].addr = <<a>>]
    /\ UNCHANGED <<active, rt, helper>>

(* The connector resolves and dials.  ConnectionSet.add destroys a socket  *)
(* that comes after closeAll, and its close event returns the slot.        *)
Dialed(c) ==
    /\ conn[c].stage = "dialing"
    /\ \E answers \in SUBSET Addresses : \E a \in Pinned(conn[c].dest, answers) :
          IF rt.stage = "up"
          THEN /\ conn' = [conn EXCEPT ![c].stage = "relay", ![c].addr = <<a>>]
               /\ UNCHANGED active
          ELSE /\ conn' = [conn EXCEPT ![c] = [Idle EXCEPT !.stage = "closed"]]
               /\ active' = active - 1
    /\ UNCHANGED <<rt, helper>>

(* No answer, a non-public one, a failed connect, or the setup deadline.   *)
DialFails(c) ==
    /\ conn[c].stage = "dialing"
    /\ conn' = [conn EXCEPT ![c] = [Idle EXCEPT !.stage = "closed"]]
    /\ active' = active - 1
    /\ UNCHANGED <<rt, helper>>

(* relayBidirectional's close: both ends destroyed, the slot returned.     *)
Ends(c) ==
    /\ conn' = [conn EXCEPT ![c] = [Idle EXCEPT !.stage = "closed"]]
    /\ active' = active - 1
    /\ UNCHANGED <<rt, helper>>

(* The guest closes, its bridge dies, or (SOCKS) it sends before the       *)
(* reply.  During a dial the relay will start on a client already gone,    *)
(* whose close event has passed.                                           *)
ClientGone(c) ==
    /\ conn[c].client
    /\ \/ /\ conn[c].stage \in {"setup", "dialing"}
          /\ conn' = [conn EXCEPT ![c].client = FALSE, ![c].stage = IF @ = "setup" THEN "closed" ELSE @]
          /\ UNCHANGED <<rt, helper, active>>
       \/ conn[c].stage = "relay" /\ Ends(c)

(* A chunk in either direction: one aggregate budget.                      *)
Relays(c) ==
    /\ conn[c].stage = "relay" /\ conn[c].client
    /\ IF conn[c].bytes < MaxBytes
       THEN conn' = [conn EXCEPT ![c].bytes = @ + 1] /\ UNCHANGED <<rt, helper, active>>
       ELSE Ends(c)

UpstreamCloses(c) == conn[c].stage = "relay" /\ Ends(c)

(* Mutant: no idle timer without a client.                                 *)
IdleTimesOutWithClient(c) == conn[c].stage = "relay" /\ conn[c].client /\ Ends(c)

(* The idle timer of the relay, of the HTTP stream's budget, or of a       *)
(* WebSocket upgrade.                                                      *)
IdleTimesOut(c) == conn[c].stage = "relay" /\ Ends(c)
-----------------------------------------------------------------------------
Helper ==
    \/ Launch \/ OuterForks \/ InnerSends \/ InnerExecs \/ OuterReady \/ OuterReaps
    \/ InnerDies \/ OuterKilled \/ NamespaceFollows
    \/ \E p \in Proxies : BridgeReceives(p) \/ BridgeDies(p)

Connection(c) ==
    \/ \E p \in Proxies : GuestConnects(c, p)
    \/ Refused(c) \/ HttpRequested(c) \/ SocksRequested(c) \/ Dialed(c) \/ DialFails(c)
    \/ ClientGone(c) \/ Relays(c) \/ UpstreamCloses(c) \/ IdleTimesOut(c)

Next ==
    \/ Start \/ CleanStale \/ CleanedElsewhere \/ Make \/ MakeFails \/ ProxyFails \/ Close \/ RemoveFiles \/ Crash
    \/ Helper
    \/ \E c \in Conns : Connection(c)

(* Timers fire: a dial settles by its deadline, an idle relay is closed.   *)
Fairness ==
    \A c \in Conns : WF_vars(DialFails(c)) /\ WF_vars(IdleTimesOut(c))

Spec == Init /\ [][Next]_vars

FairSpec == Spec /\ Fairness
-----------------------------------------------------------------------------
Outbound == {c \in Conns : conn[c].stage = "relay"}

(* No connection leaves the server once the runtime has begun to close or  *)
(* has failed, even if its dial succeeds only afterwards.                  *)
NothingOutlivesClose == rt.stage # "up" => Outbound = {}

(* The two proxies' shared count of slots is exact through every refusal,  *)
(* failed or late dial, end of a relay, close and crash, and the guest     *)
(* never has more than maxConnections connections dialled or relayed.      *)
SlotsCounted ==
    /\ active = Cardinality({c \in Conns : conn[c].stage \in {"dialing", "relay"}})
    /\ active <= MaxConnections

(* The language of a pattern, as a set of destinations.                    *)
Under(base) ==
    {d \in Destinations : /\ d.kind = "domain" /\ Len(d.host) > Len(base)
                          /\ SubSeq(d.host, Len(d.host) - Len(base) + 1, Len(d.host)) = base}

Named(p) == {d \in Destinations : d.kind = p.kind /\ d.host = p.base}

Language(p) ==
    CASE p.mode = "all" -> Destinations
      [] p.mode = "exact" -> Named(p)
      [] p.mode = "subdomains" -> Under(p.base)
      [] OTHER -> Named(p) \cup Under(p.base)

(* A connection reaches only a destination the policy permits, at a public *)
(* address: one in the language of an allowed pattern and of no denied one.*)
EgressPermitted ==
    \A c \in Outbound :
        /\ conn[c].addr[1] \in Public
        /\ conn[c].dest.port \in Ports
        /\ conn[c].dest \in UNION {Language(p) : p \in Allowed}
        /\ conn[c].dest \notin UNION {Language(p) : p \in Denied}

(* Every slot is returned, also that of a connection whose client left     *)
(* while it was being dialled.                                             *)
SlotsReturn == \A c \in Conns : (conn[c].stage \in {"dialing", "relay"}) ~> (conn[c].stage = "closed")
=============================================================================
