--------------------------- MODULE ManagedEgressProofs ---------------------------
(***************************************************************************)
(* Managed egress for every policy, every number of guest connections and  *)
(* every limit: what is reached is permitted, nothing outlives the         *)
(* runtime, and the slots are counted.                                     *)
(***************************************************************************)
EXTENDS ManagedEgress, FiniteSetTheorems, TLAPS

(* The policy.                                                             *)

(* A suffix, as SequencesExt has it, is what the last elements are.        *)
LEMMA SuffixElements ==
  ASSUME NEW S, NEW s \in Seq(S), NEW t \in Seq(S)
  PROVE  IsSuffix(s, t) <=> Len(s) <= Len(t) /\ SubSeq(t, Len(t) - Len(s) + 1, Len(t)) = s
  <1> DEFINE n == Len(s)
             m == Len(t)
             u == SubSeq(t, m - n + 1, m)
  <1>1. n \in Nat /\ m \in Nat
    OBVIOUS
  <1>2. /\ Reverse(s) = [i \in 1..n |-> s[(n - i) + 1]]
        /\ Reverse(t) = [i \in 1..m |-> t[(m - i) + 1]]
    BY DEF Reverse
  <1>3. Reverse(s) \in Seq(S) /\ Reverse(t) \in Seq(S) /\ Len(Reverse(s)) = n /\ Len(Reverse(t)) = m
    BY <1>1, <1>2
  <1>4. CASE ~(n <= m)
    BY <1>3, <1>4 DEF IsSuffix, IsPrefix
  <1>5. CASE n <= m
    <2>1. u \in Seq(S) /\ Len(u) = n /\ \A i \in 1..n : u[i] = t[m - n + i]
      BY <1>1, <1>5
    <2>2. u = s <=> \A i \in 1..n : t[m - n + i] = s[i]
      <3> HIDE DEF u
      <3> QED BY <1>1, <2>1
    <2> DEFINE a == SubSeq(Reverse(s), 1, n)
               b == SubSeq(Reverse(t), 1, n)
    <2>3. a \in Seq(S) /\ Len(a) = n /\ \A i \in 1..n : a[i] = s[(n - i) + 1]
      BY <1>1, <1>2, <1>3
    <2>4. b \in Seq(S) /\ Len(b) = n /\ \A i \in 1..n : b[i] = t[(m - i) + 1]
      BY <1>1, <1>2, <1>3, <1>5
    <2>5. a = b <=> \A i \in 1..n : s[(n - i) + 1] = t[(m - i) + 1]
      BY <1>1, <2>3, <2>4
    <2>6. IsSuffix(s, t) <=> a = b
      BY <1>3, <1>5 DEF IsSuffix, IsPrefix
    <2> HIDE DEF a, b, u
    <2>7. ASSUME \A i \in 1..n : t[m - n + i] = s[i]
          PROVE  \A i \in 1..n : s[(n - i) + 1] = t[(m - i) + 1]
      <3> SUFFICES ASSUME NEW i \in 1..n PROVE s[(n - i) + 1] = t[(m - i) + 1]
        OBVIOUS
      <3>1. (n - i) + 1 \in 1..n /\ m - n + ((n - i) + 1) = (m - i) + 1
        BY <1>1
      <3> QED BY <2>7, <3>1
    <2>8. ASSUME \A i \in 1..n : s[(n - i) + 1] = t[(m - i) + 1]
          PROVE  \A i \in 1..n : t[m - n + i] = s[i]
      <3> SUFFICES ASSUME NEW i \in 1..n PROVE t[m - n + i] = s[i]
        OBVIOUS
      <3> DEFINE k == (n - i) + 1
      <3>1. k \in 1..n /\ (n - k) + 1 = i /\ (m - k) + 1 = m - n + i
        BY <1>1
      <3> HIDE DEF k
      <3> QED BY <2>8, <3>1
    <2>9. IsSuffix(s, t) <=> u = s
      BY <2>2, <2>5, <2>6, <2>7, <2>8
    <2> QED BY <1>5, <2>9 DEF u
  <1> QED BY <1>4, <1>5

(* The matcher accepts exactly the language of a pattern.                  *)
LEMMA MatchesLanguage ==
  ASSUME NEW p \in Allowed \cup Denied, NEW d \in Destinations
  PROVE  Matches(p, d) <=> d \in Language(p)
  <1>1. /\ d.host \in Seq(STRING) /\ d.kind \in {"domain", "ip"}
        /\ p.mode \in {"all", "exact", "subdomains", "apex_and_subdomains"}
        /\ p.mode # "all" => p.base \in Seq(STRING) /\ p.kind \in {"domain", "ip"}
        /\ p.mode # "all" /\ p.kind = "ip" => p.mode = "exact"
    BY PolicyAssumption
  <1>2. CASE p.mode = "all"
    BY <1>2 DEF Matches, Language
  <1>3. CASE p.mode = "exact"
    BY <1>1, <1>3 DEF Matches, Language, Named
  <1>4. CASE p.mode \in {"subdomains", "apex_and_subdomains"}
    <2>1. p.kind = "domain" /\ p.base \in Seq(STRING)
      BY <1>1, <1>4
    <2>2. IsSuffix(p.base, d.host) <=>
             Len(p.base) <= Len(d.host) /\ SubSeq(d.host, Len(d.host) - Len(p.base) + 1, Len(d.host)) = p.base
      <3> DEFINE s == p.base
                 t == d.host
      <3>1. s \in Seq(STRING) /\ t \in Seq(STRING)
        BY <1>1, <2>1
      <3> HIDE DEF s, t
      <3>2. IsSuffix(s, t) <=> Len(s) <= Len(t) /\ SubSeq(t, Len(t) - Len(s) + 1, Len(t)) = s
        BY <3>1, SuffixElements
      <3> QED BY <3>2 DEF s, t
    <2>3. Len(p.base) = Len(d.host) =>
             SubSeq(d.host, Len(d.host) - Len(p.base) + 1, Len(d.host)) = d.host
      BY <1>1, <2>1
    <2>4. /\ Len(p.base) \in Nat /\ Len(d.host) \in Nat
          /\ p.base = d.host => Len(p.base) = Len(d.host)
      BY <1>1, <2>1
    <2>5. IsSuffix(p.base, d.host) /\ p.base # d.host <=>
             /\ Len(d.host) > Len(p.base)
             /\ SubSeq(d.host, Len(d.host) - Len(p.base) + 1, Len(d.host)) = p.base
      <3> DEFINE end == SubSeq(d.host, Len(d.host) - Len(p.base) + 1, Len(d.host))
      <3>1. /\ IsSuffix(p.base, d.host) <=> Len(p.base) <= Len(d.host) /\ end = p.base
            /\ Len(p.base) = Len(d.host) => end = d.host
        BY <2>2, <2>3
      <3> HIDE DEF end
      <3>2. IsSuffix(p.base, d.host) /\ p.base # d.host <=> Len(d.host) > Len(p.base) /\ end = p.base
        BY <2>4, <3>1
      <3> QED BY <3>2 DEF end
    <2>6. p.base = d.host => IsSuffix(p.base, d.host)
      BY <2>2, <2>3, <2>4
    <2>7. CASE d.kind = "ip"
      BY <1>4, <2>1, <2>7 DEF Matches, Language, Named, Under
    <2>8. CASE d.kind = "domain" /\ p.mode = "subdomains"
      <3>1. Matches(p, d) <=> IsSuffix(p.base, d.host) /\ p.base # d.host
        BY <2>1, <2>8 DEF Matches
      <3> QED BY <2>5, <2>8, <3>1 DEF Language, Under
    <2>9. CASE d.kind = "domain" /\ p.mode = "apex_and_subdomains"
      <3>1. Matches(p, d) <=> IsSuffix(p.base, d.host)
        BY <2>1, <2>9 DEF Matches
      <3> QED BY <2>1, <2>5, <2>6, <2>9, <3>1 DEF Language, Under, Named
    <2> QED BY <1>1, <1>4, <2>7, <2>8, <2>9
  <1> QED BY <1>1, <1>2, <1>3, <1>4

(* The policy, decided pattern by pattern with denials first, permits only *)
(* destinations in an allowed language and in no denied one.               *)
THEOREM PolicySound ==
  ASSUME NEW d \in Destinations, Decide(d) = "allowlist"
  PROVE  /\ d.port \in Ports
         /\ d \in UNION {Language(p) : p \in Allowed}
         /\ d \notin UNION {Language(p) : p \in Denied}
  <1>1. /\ ~\E p \in Denied : Matches(p, d)
        /\ d.port \in Ports
        /\ \E p \in Allowed : Matches(p, d)
    BY DEF Decide
  <1> QED BY <1>1, MatchesLanguage
-----------------------------------------------------------------------------
(* The inductive invariant.  A connection that is being dialled may find   *)
(* the runtime gone, one that is relayed may not; and what is dialled has  *)
(* already been decided.                                                   *)

Decided ==
    \A c \in Conns :
        /\ conn[c].stage \in {"dialing", "relay"} => conn[c].dest \in Destinations /\ Decide(conn[c].dest) = "allowlist"
        /\ conn[c].stage = "relay" => conn[c].addr[1] \in Public

EgressInv == TypeOK /\ SlotsCounted /\ NothingOutlivesClose /\ Decided

Slots == {c \in Conns : conn[c].stage \in {"dialing", "relay"}}

(* An unused and an ended connection are connections.                      *)
LEMMA IdleType == Idle \in Connections /\ [Idle EXCEPT !.stage = "closed"] \in Connections
  <1>1. 0 \in 0..MaxBytes /\ <<>> \in Seq(Addresses)
    BY EgressAssumption
  <1> QED BY <1>1 DEF Idle, Connections, Proxies

(* The connections that hold a slot can be counted.                        *)
LEMMA SlotsFinite == IsFiniteSet(Slots) /\ Cardinality(Slots) \in Nat
  <1>1. IsFiniteSet(Slots)
    BY EgressAssumption, FS_Subset DEF Slots
  <1> QED BY <1>1, FS_CardinalityType

(* The runtime and the helper keep their types.                            *)
LEMMA RuntimeTyped ==
  ASSUME TypeOK,
         \/ Start \/ CleanStale \/ CleanedElsewhere \/ Make \/ MakeFails \/ ProxyFails \/ Close \/ RemoveFiles
         \/ Crash
  PROVE  rt' \in [stage : {"off", "cleaning", "making", "up", "unwinding", "closing", "closed", "failed"},
                  files : 0..4, stale : 0..4, crashes : 0..MaxCrashes]
  <1>0. /\ rt.stage \in {"off", "cleaning", "making", "up", "unwinding", "closing", "closed", "failed"}
        /\ rt.files \in 0..4 /\ rt.stale \in 0..4 /\ rt.crashes \in 0..MaxCrashes
        /\ rt = [stage |-> rt.stage, files |-> rt.files, stale |-> rt.stale, crashes |-> rt.crashes]
    BY DEF TypeOK
  <1>1. CASE Start \/ CleanStale \/ CleanedElsewhere
    <2>1. rt.stale > 0 => rt.stale - 1 \in 0..4
      BY <1>0
    <2> DEFINE n == rt.stale - 1
    <2>2. \/ \E g \in {"cleaning", "making"} : rt' = [rt EXCEPT !.stage = g]
          \/ rt.stale > 0 /\ rt' = [rt EXCEPT !.stale = n]
          \/ rt.stale > 0 /\ rt' = [rt EXCEPT !.stale = n, !.stage = "failed"]
      BY <1>1 DEF Start, CleanStale, CleanedElsewhere
    <2>3. rt.stale > 0 => n \in 0..4
      BY <2>1
    <2> HIDE DEF n
    <2> QED BY <2>2, <2>3 DEF TypeOK
  <1>2. CASE Make
    <2>1. CASE rt.files < 4
      <3>1. rt.files + 1 \in 0..4 /\ rt' = [rt EXCEPT !.files = rt.files + 1]
        BY <1>0, <1>2, <2>1 DEF Make
      <3> QED BY <3>1 DEF TypeOK
    <2>2. CASE ~(rt.files < 4)
      BY <1>2, <2>2 DEF Make, TypeOK
    <2> QED BY <2>1, <2>2
  <1>3. CASE RemoveFiles
    <2>1. CASE rt.files > 0
      <3>1. rt.files - 1 \in 0..4 /\ rt' = [rt EXCEPT !.files = rt.files - 1]
        BY <1>0, <1>3, <2>1 DEF RemoveFiles
      <3> QED BY <3>1 DEF TypeOK
    <2>2. CASE ~(rt.files > 0)
      BY <1>3, <2>2 DEF RemoveFiles, TypeOK
    <2> QED BY <2>1, <2>2
  <1>4. CASE MakeFails \/ Close \/ ProxyFails
    <2> DEFINE n == IF rt.files > 2 THEN 2 ELSE rt.files
    <2>1. n \in 0..4
      BY <1>0
    <2>2. \/ rt' = [rt EXCEPT !.stage = "unwinding", !.files = n]
          \/ rt' = [rt EXCEPT !.stage = "closing", !.files = n]
      BY <1>4 DEF MakeFails, Close, ProxyFails, Shuts
    <2> HIDE DEF n
    <2> QED BY <2>1, <2>2 DEF TypeOK
  <1>5. CASE Crash
    <2>1. rt.crashes + 1 \in 0..MaxCrashes /\ (IF rt.files > 0 THEN rt.files ELSE rt.stale) \in 0..4
      BY <1>0, <1>5, EgressAssumption DEF Crash
    <2> QED BY <1>5, <2>1 DEF Crash
  <1> QED BY <1>1, <1>2, <1>3, <1>4, <1>5

(* The steps of the helper keep its type.                                  *)
LEMMA HelperTyped ==
  ASSUME TypeOK, Helper
  PROVE  helper' \in [outer : {"none", "setup", "forked", "ready", "dead"},
                      bridge : [Proxies -> {"none", "waiting", "serving", "dead"}],
                      flag : [Proxies -> BOOLEAN],
                      inner : {"none", "starting", "sent", "worker", "dead"},
                      launches : 0..MaxLaunches]
  <1> DEFINE H == [outer : {"none", "setup", "forked", "ready", "dead"},
                   bridge : [Proxies -> {"none", "waiting", "serving", "dead"}],
                   flag : [Proxies -> BOOLEAN],
                   inner : {"none", "starting", "sent", "worker", "dead"},
                   launches : 0..MaxLaunches]
  <1>0. /\ helper \in H
        /\ helper.bridge \in [Proxies -> {"none", "waiting", "serving", "dead"}]
        /\ helper.flag \in [Proxies -> BOOLEAN]
    BY DEF TypeOK
  <1>b. /\ [p \in Proxies |-> "dead"] \in [Proxies -> {"none", "waiting", "serving", "dead"}]
        /\ [p \in Proxies |-> "none"] \in [Proxies -> {"none", "waiting", "serving", "dead"}]
        /\ [p \in Proxies |-> "waiting"] \in [Proxies -> {"none", "waiting", "serving", "dead"}]
        /\ [p \in Proxies |-> FALSE] \in [Proxies -> BOOLEAN]
    OBVIOUS
  <1>d. AllDead(helper) \in H
    BY <1>0, <1>b DEF AllDead
  <1> SUFFICES helper' \in H
    OBVIOUS
  <1>1. CASE Launch
    <2>1. helper.launches + 1 \in 0..MaxLaunches
      BY <1>0, <1>1, EgressAssumption DEF Launch
    <2> QED BY <1>1, <1>b, <2>1 DEF Launch
  <1>2. CASE OuterForks
    BY <1>0, <1>b, <1>d, <1>2 DEF OuterForks
  <1>3. CASE InnerSends \/ InnerExecs \/ OuterReady \/ InnerDies \/ NamespaceFollows
    <2>1. \/ \E i \in {"sent", "worker", "dead"} : helper' = [helper EXCEPT !.inner = i]
          \/ helper' = [helper EXCEPT !.outer = "ready"]
      BY <1>3 DEF InnerSends, InnerExecs, OuterReady, InnerDies, NamespaceFollows
    <2> QED BY <1>0, <2>1
  <1>4. CASE OuterReaps
    BY <1>d, <1>4 DEF OuterReaps
  <1>5. CASE OuterKilled
    BY <1>0, <1>b, <1>5 DEF OuterKilled
  <1>6. ASSUME NEW p \in Proxies, BridgeReceives(p) \/ BridgeDies(p)
        PROVE  helper' \in H
    <2>1. \A v \in {"serving", "dead"} :
             [helper.bridge EXCEPT ![p] = v] \in [Proxies -> {"none", "waiting", "serving", "dead"}]
      BY <1>0
    <2>2. [helper.flag EXCEPT ![p] = TRUE] \in [Proxies -> BOOLEAN]
      BY <1>0
    <2>3. \/ helper' = [helper EXCEPT !.bridge = [helper.bridge EXCEPT ![p] = "serving"],
                                     !.flag = [helper.flag EXCEPT ![p] = TRUE]]
          \/ helper' = [helper EXCEPT !.bridge = [helper.bridge EXCEPT ![p] = "dead"]]
      BY <1>0, <1>6 DEF BridgeReceives, BridgeDies
    <2> DEFINE b == [helper.bridge EXCEPT ![p] = "serving"]
               d == [helper.bridge EXCEPT ![p] = "dead"]
               f == [helper.flag EXCEPT ![p] = TRUE]
    <2>4. /\ b \in [Proxies -> {"none", "waiting", "serving", "dead"}]
          /\ d \in [Proxies -> {"none", "waiting", "serving", "dead"}] /\ f \in [Proxies -> BOOLEAN]
          /\ helper' = [helper EXCEPT !.bridge = b, !.flag = f] \/ helper' = [helper EXCEPT !.bridge = d]
      BY <2>1, <2>2, <2>3
    <2> HIDE DEF b, d, f
    <2> QED BY <1>0, <2>4
  <1> QED BY <1>1, <1>2, <1>3, <1>4, <1>5, <1>6 DEF Helper
-----------------------------------------------------------------------------
(* The steps.                                                              *)

(* What the count says in terms of the set of slots.                       *)
LEMMA CountIsSlots == SlotsCounted <=> active = Cardinality(Slots) /\ active <= MaxConnections
  BY DEF SlotsCounted, Slots

(* One connection moves on, taking or returning its slot as it should.     *)
LEMMA OneMoves ==
  ASSUME EgressInv, NEW c \in Conns, NEW r \in Connections, conn' = [conn EXCEPT ![c] = r], UNCHANGED <<rt, helper>>,
         r.stage \in {"dialing", "relay"} => r.dest \in Destinations /\ Decide(r.dest) = "allowlist",
         r.stage = "relay" => rt.stage = "up" /\ r.addr[1] \in Public,
         \/ UNCHANGED active /\ (r.stage \in {"dialing", "relay"} <=> conn[c].stage \in {"dialing", "relay"})
         \/ /\ active' = active + 1 /\ active < MaxConnections
            /\ r.stage \in {"dialing", "relay"} /\ conn[c].stage \notin {"dialing", "relay"}
         \/ /\ active' = active - 1
            /\ r.stage \notin {"dialing", "relay"} /\ conn[c].stage \in {"dialing", "relay"}
  PROVE  EgressInv'
  <1> USE DEF EgressInv
  <1>1. /\ conn' \in [Conns -> Connections] /\ conn'[c] = r
        /\ \A b \in Conns \ {c} : conn'[b] = conn[b]
    BY DEF TypeOK
  <1>2. /\ active = Cardinality(Slots) /\ active <= MaxConnections /\ active \in Nat
        /\ IsFiniteSet(Slots) /\ MaxConnections \in Nat
    BY CountIsSlots, SlotsFinite, EgressAssumption
  <1>3. active' = Cardinality(Slots') /\ active' \in 0..MaxConnections
    <2>1. CASE UNCHANGED active /\ (r.stage \in {"dialing", "relay"} <=> conn[c].stage \in {"dialing", "relay"})
      <3>1. Slots' = Slots
        BY <1>1, <2>1 DEF Slots
      <3> QED BY <1>2, <2>1, <3>1
    <2>2. CASE /\ active' = active + 1 /\ active < MaxConnections
               /\ r.stage \in {"dialing", "relay"} /\ conn[c].stage \notin {"dialing", "relay"}
      <3>1. Slots' = Slots \cup {c} /\ c \notin Slots
        BY <1>1, <2>2 DEF Slots
      <3>2. Cardinality(Slots \cup {c}) = Cardinality(Slots) + 1
        BY <1>2, <3>1, FS_AddElement
      <3> QED BY <1>2, <2>2, <3>1, <3>2
    <2>3. CASE /\ active' = active - 1
               /\ r.stage \notin {"dialing", "relay"} /\ conn[c].stage \in {"dialing", "relay"}
      <3>1. Slots' = Slots \ {c} /\ c \in Slots
        BY <1>1, <2>3 DEF Slots
      <3>2. Cardinality(Slots \ {c}) = Cardinality(Slots) - 1 /\ Cardinality(Slots \ {c}) \in Nat
        BY <1>2, <3>1, FS_RemoveElement, FS_CardinalityType
      <3> QED BY <1>2, <2>3, <3>1, <3>2
    <2> QED BY <2>1, <2>2, <2>3
  <1>4. TypeOK'
    BY <1>1, <1>3 DEF TypeOK
  <1>5. SlotsCounted'
    BY <1>2, <1>3 DEF SlotsCounted, Slots
  <1>6. NothingOutlivesClose'
    BY <1>1 DEF NothingOutlivesClose, Outbound
  <1>7. Decided'
    BY <1>1 DEF Decided
  <1> QED BY <1>4, <1>5, <1>6, <1>7

(* The streams are destroyed and the dials go on.                          *)
LEMMA ShutKeeps ==
  ASSUME EgressInv, conn' = Streamless, active' = Dialing, UNCHANGED helper,
         MakeFails \/ ProxyFails \/ Close
  PROVE  EgressInv'
  <1> USE DEF EgressInv
  <1>1. ASSUME NEW c \in Conns
        PROVE  /\ conn'[c] \in Connections /\ conn'[c].dest = conn[c].dest
               /\ conn'[c].stage # "relay"
               /\ conn'[c].stage = "dialing" <=> conn[c].stage = "dialing"
    <2>1. conn[c] \in Connections
      BY DEF TypeOK
    <2> QED BY <2>1 DEF Streamless, Connections
  <1>2. conn' \in [Conns -> Connections]
    BY <1>1 DEF Streamless
  <1>3. /\ Slots' = {c \in Conns : conn[c].stage = "dialing"}
        /\ Slots' \subseteq Slots
    BY <1>1 DEF Slots
  <1>4. active' = Cardinality(Slots')
    BY <1>3 DEF Dialing
  <1>5. active' <= MaxConnections /\ active' \in Nat
    <2>1. IsFiniteSet(Slots') /\ Cardinality(Slots') <= Cardinality(Slots)
      BY <1>3, SlotsFinite, FS_Subset
    <2>2. Cardinality(Slots') \in Nat
      BY <2>1, FS_CardinalityType
    <2> QED BY <1>4, <2>1, <2>2, CountIsSlots, SlotsFinite, EgressAssumption
  <1>6. TypeOK'
    BY <1>2, <1>5, RuntimeTyped, EgressAssumption DEF TypeOK
  <1>7. SlotsCounted'
    BY <1>4, <1>5 DEF SlotsCounted, Slots
  <1>8. NothingOutlivesClose'
    BY <1>1 DEF NothingOutlivesClose, Outbound
  <1>9. Decided'
    BY <1>1 DEF Decided
  <1> QED BY <1>6, <1>7, <1>8, <1>9

(* A crash of the server ends every connection and gives back every slot.  *)
LEMMA CrashKeeps ==
  ASSUME EgressInv, Crash
  PROVE  EgressInv'
  <1> USE DEF EgressInv
  <1>1. ASSUME NEW c \in Conns
        PROVE  conn'[c] \in Connections /\ conn'[c].stage \in {"none", "closed"}
    BY <1>1, IdleType DEF Crash, TypeOK, Idle
  <1>2. conn' \in [Conns -> Connections] /\ active' = 0 /\ UNCHANGED helper
    BY <1>1 DEF Crash
  <1>3. Slots' = {}
    BY <1>1 DEF Slots
  <1>4. SlotsCounted'
    BY <1>2, <1>3, FS_EmptySet, EgressAssumption DEF SlotsCounted, Slots
  <1>5. TypeOK'
    BY <1>2, RuntimeTyped, EgressAssumption DEF TypeOK
  <1>6. NothingOutlivesClose' /\ Decided'
    BY <1>1 DEF NothingOutlivesClose, Outbound, Decided
  <1> QED BY <1>4, <1>5, <1>6

(* A step of the runtime's start or removal, or of the helper.             *)
LEMMA QuietKeeps ==
  ASSUME EgressInv,
         \/ Start \/ CleanStale \/ CleanedElsewhere \/ Make \/ RemoveFiles
         \/ Helper \/ UNCHANGED vars
  PROVE  EgressInv'
  <1> USE DEF EgressInv
  <1>1. UNCHANGED <<conn, active>>
    BY DEF Start, CleanStale, CleanedElsewhere, Make, RemoveFiles, Helper, Launch, OuterForks, InnerSends,
           InnerExecs, OuterReady, OuterReaps, InnerDies, OuterKilled, NamespaceFollows, BridgeReceives,
           BridgeDies, vars
  <1>2. rt.stage = "up" => rt'.stage = "up"
    BY DEF Start, CleanStale, CleanedElsewhere, Make, RemoveFiles, Helper, Launch, OuterForks, InnerSends,
           InnerExecs, OuterReady, OuterReaps, InnerDies, OuterKilled, NamespaceFollows, BridgeReceives,
           BridgeDies, vars
  <1>3. TypeOK'
    <2>1. CASE Start \/ CleanStale \/ CleanedElsewhere \/ Make \/ RemoveFiles
      <3>1. UNCHANGED helper
        BY <2>1 DEF Start, CleanStale, CleanedElsewhere, Make, RemoveFiles
      <3> QED BY <1>1, <2>1, <3>1, RuntimeTyped DEF TypeOK
    <2>2. CASE Helper
      <3>1. UNCHANGED rt
        BY <2>2 DEF Helper, Launch, OuterForks, InnerSends, InnerExecs, OuterReady, OuterReaps, InnerDies,
                    OuterKilled, NamespaceFollows, BridgeReceives, BridgeDies
      <3> QED BY <1>1, <2>2, <3>1, HelperTyped DEF TypeOK
    <2>3. CASE UNCHANGED vars
      BY <2>3 DEF vars, TypeOK
    <2> QED BY <2>1, <2>2, <2>3
  <1>4. SlotsCounted' /\ NothingOutlivesClose' /\ Decided'
    BY <1>1, <1>2 DEF SlotsCounted, NothingOutlivesClose, Outbound, Decided
  <1> QED BY <1>3, <1>4

(* A connection ends in the state that holds nothing.                      *)
LEMMA EndsKeeps ==
  ASSUME EgressInv, NEW c \in Conns, conn[c].stage \in {"dialing", "relay"},
         conn' = [conn EXCEPT ![c] = [Idle EXCEPT !.stage = "closed"]], active' = active - 1,
         UNCHANGED <<rt, helper>>
  PROVE  EgressInv'
  <1> DEFINE r == [Idle EXCEPT !.stage = "closed"]
  <1>1. r \in Connections /\ r.stage = "closed"
    BY IdleType DEF Idle
  <1> HIDE DEF r
  <1>2. conn' = [conn EXCEPT ![c] = r]
    BY DEF r
  <1> QED BY <1>1, <1>2, OneMoves

(* Each step of one connection, from accept to its end, keeps the          *)
(* invariant.                                                              *)
LEMMA ConnectionKeeps ==
  ASSUME EgressInv, NEW c \in Conns, Connection(c)
  PROVE  EgressInv'
  <1> USE DEF EgressInv
  <1>c. /\ conn[c] \in Connections /\ conn \in [Conns -> Connections]
        /\ conn[c].stage \in {"dialing", "relay"} => conn[c].dest \in Destinations /\ Decide(conn[c].dest) = "allowlist"
        /\ conn[c].stage = "relay" => rt.stage = "up" /\ conn[c].addr[1] \in Public
    BY DEF TypeOK, Decided, NothingOutlivesClose, Outbound
  <1>1. ASSUME NEW p \in Proxies, GuestConnects(c, p)
        PROVE  EgressInv'
    <2> DEFINE r == IF Listening(p) THEN [Idle EXCEPT !.stage = "setup", !.via = p, !.client = TRUE]
                                    ELSE [Idle EXCEPT !.stage = "closed"]
    <2>1. r \in Connections /\ r.stage \in {"setup", "closed"}
      BY IdleType DEF Idle, Connections
    <2>2. conn' = [conn EXCEPT ![c] = r] /\ conn[c].stage = "none" /\ UNCHANGED <<rt, helper, active>>
      BY <1>1 DEF GuestConnects
    <2> HIDE DEF r
    <2> QED BY <2>1, <2>2, OneMoves
  <1>2. CASE Refused(c)
    <2> DEFINE r == [Idle EXCEPT !.stage = "closed"]
    <2>1. r \in Connections /\ r.stage = "closed"
      BY IdleType DEF Idle
    <2>2. conn' = [conn EXCEPT ![c] = r] /\ conn[c].stage = "setup" /\ UNCHANGED <<rt, helper, active>>
      BY <1>2 DEF Refused
    <2> HIDE DEF r
    <2> QED BY <2>1, <2>2, OneMoves
  <1>3. ASSUME NEW d \in Destinations, Admitted(c, d)
        PROVE  EgressInv'
    <2> DEFINE r == [conn[c] EXCEPT !.stage = "dialing", !.dest = d]
    <2>1. r \in Connections /\ r.stage = "dialing" /\ r.dest = d
      BY <1>c DEF Connections
    <2>2. /\ conn' = [conn EXCEPT ![c] = r] /\ conn[c].stage = "setup" /\ Decide(d) = "allowlist"
          /\ active' = active + 1 /\ active < MaxConnections /\ UNCHANGED <<rt, helper>>
      BY <1>3, <1>c DEF Admitted
    <2> HIDE DEF r
    <2> QED BY <2>1, <2>2, OneMoves
  <1>4. CASE Dialed(c)
    <2>1. conn[c].stage = "dialing" /\ UNCHANGED <<rt, helper>>
      BY <1>4 DEF Dialed
    <2>2. PICK answers \in SUBSET Addresses : \E a \in Pinned(conn[c].dest, answers) :
              IF rt.stage = "up"
              THEN /\ conn' = [conn EXCEPT ![c].stage = "relay", ![c].addr = <<a>>]
                   /\ UNCHANGED active
              ELSE /\ conn' = [conn EXCEPT ![c] = [Idle EXCEPT !.stage = "closed"]]
                   /\ active' = active - 1
      BY <1>4 DEF Dialed
    <2>3. PICK a \in Pinned(conn[c].dest, answers) :
              IF rt.stage = "up"
              THEN /\ conn' = [conn EXCEPT ![c].stage = "relay", ![c].addr = <<a>>]
                   /\ UNCHANGED active
              ELSE /\ conn' = [conn EXCEPT ![c] = [Idle EXCEPT !.stage = "closed"]]
                   /\ active' = active - 1
      BY <2>2
    <2>4. a \in Public
      BY DEF Pinned
    <2>5. CASE rt.stage = "up"
      <3> DEFINE r == [conn[c] EXCEPT !.stage = "relay", !.addr = <<a>>]
      <3>1. <<a>> \in Seq(Addresses) /\ <<a>>[1] = a
        BY <2>4, EgressAssumption
      <3>2. r \in Connections /\ r.stage = "relay" /\ r.dest = conn[c].dest /\ r.addr[1] = a
        BY <1>c, <3>1 DEF Connections
      <3>3. conn' = [conn EXCEPT ![c] = r] /\ UNCHANGED active
        BY <1>c, <2>3, <2>5
      <3> HIDE DEF r
      <3> QED BY <1>c, <2>1, <2>4, <2>5, <3>2, <3>3, OneMoves
    <2>6. CASE rt.stage # "up"
      BY <2>1, <2>3, <2>6, EndsKeeps
    <2> QED BY <2>5, <2>6
  <1>5. CASE DialFails(c)
    BY <1>5, EndsKeeps DEF DialFails
  <1>6. CASE conn[c].stage = "relay" /\ Ends(c)
    BY <1>6, EndsKeeps DEF Ends
  <1>7. CASE ClientGone(c) /\ conn[c].stage \in {"setup", "dialing"}
    <2> DEFINE r == [conn[c] EXCEPT !.client = FALSE, !.stage = IF conn[c].stage = "setup" THEN "closed" ELSE conn[c].stage]
    <2>1. /\ r \in Connections /\ r.dest = conn[c].dest
          /\ r.stage = IF conn[c].stage = "setup" THEN "closed" ELSE conn[c].stage
      BY <1>c, <1>7 DEF Connections
    <2>2. conn' = [conn EXCEPT ![c] = r] /\ UNCHANGED <<rt, helper, active>>
      BY <1>c, <1>7 DEF ClientGone
    <2> HIDE DEF r
    <2> QED BY <1>c, <1>7, <2>1, <2>2, OneMoves
  <1>8. CASE Relays(c) /\ conn[c].bytes < MaxBytes
    <2> DEFINE r == [conn[c] EXCEPT !.bytes = conn[c].bytes + 1]
    <2>1. conn[c].bytes + 1 \in 0..MaxBytes
      BY <1>c, <1>8, EgressAssumption DEF Connections
    <2>2. /\ r \in Connections /\ r.dest = conn[c].dest /\ r.addr = conn[c].addr
          /\ r.stage = "relay" /\ conn[c].stage = "relay"
      BY <1>c, <1>8, <2>1 DEF Connections, Relays
    <2>3. conn' = [conn EXCEPT ![c] = r] /\ UNCHANGED <<rt, helper, active>>
      BY <1>c, <1>8 DEF Relays
    <2> HIDE DEF r
    <2> QED BY <1>c, <2>2, <2>3, OneMoves
  <1>9. Refused(c) \/ Dialed(c) \/ DialFails(c)
        \/ (\E p \in Proxies : GuestConnects(c, p)) \/ (\E d \in Destinations : Admitted(c, d))
        \/ (conn[c].stage = "relay" /\ Ends(c))
        \/ (ClientGone(c) /\ conn[c].stage \in {"setup", "dialing"})
        \/ (Relays(c) /\ conn[c].bytes < MaxBytes)
    BY DEF Connection, HttpRequested, SocksRequested, ClientGone, Relays, UpstreamCloses, IdleTimesOut
  <1> QED BY <1>1, <1>2, <1>3, <1>4, <1>5, <1>6, <1>7, <1>8, <1>9
-----------------------------------------------------------------------------
(* The theorems.                                                           *)

(* The inductive invariant holds in every behaviour.                       *)
THEOREM EgressInvariance == Spec => []EgressInv
  <1>1. Init => EgressInv
    <2> SUFFICES ASSUME Init PROVE EgressInv
      OBVIOUS
    <2>1. \A c \in Conns : conn[c] = Idle /\ conn[c].stage = "none"
      BY DEF Init, Idle
    <2>2. TypeOK
      <3>1. conn \in [Conns -> Connections] /\ active \in 0..MaxConnections
        BY IdleType, EgressAssumption DEF Init
      <3>2. /\ rt \in [stage : {"off", "cleaning", "making", "up", "unwinding", "closing", "closed", "failed"},
                       files : 0..4, stale : 0..4, crashes : 0..MaxCrashes]
        BY EgressAssumption DEF Init
      <3>3. helper \in [outer : {"none", "setup", "forked", "ready", "dead"},
                        bridge : [Proxies -> {"none", "waiting", "serving", "dead"}],
                        flag : [Proxies -> BOOLEAN],
                        inner : {"none", "starting", "sent", "worker", "dead"},
                        launches : 0..MaxLaunches]
        BY EgressAssumption DEF Init
      <3> QED BY <3>1, <3>2, <3>3 DEF TypeOK
    <2>3. SlotsCounted
      <3>1. Slots = {}
        BY <2>1 DEF Slots
      <3> QED BY <3>1, FS_EmptySet, EgressAssumption, CountIsSlots DEF Init
    <2>4. NothingOutlivesClose /\ Decided
      BY <2>1 DEF NothingOutlivesClose, Outbound, Decided
    <2> QED BY <2>2, <2>3, <2>4 DEF EgressInv
  <1>2. EgressInv /\ [Next]_vars => EgressInv'
    <2> SUFFICES ASSUME EgressInv, [Next]_vars PROVE EgressInv'
      OBVIOUS
    <2>1. ASSUME MakeFails \/ ProxyFails \/ Close
          PROVE  EgressInv'
      <3>1. conn' = Streamless /\ active' = Dialing /\ UNCHANGED helper
        BY <2>1 DEF MakeFails, ProxyFails, Close, Shuts
      <3> QED BY <2>1, <3>1, ShutKeeps
    <2> QED BY <2>1, CrashKeeps, QuietKeeps, ConnectionKeeps DEF Next
  <1> QED BY <1>1, <1>2, PTL DEF Spec

(* The types hold for every policy and every number of connections.        *)
THEOREM EgressTypeCorrect == Spec => []TypeOK
  <1>1. EgressInv => TypeOK
    BY DEF EgressInv
  <1> QED BY <1>1, EgressInvariance, PTL

(* Once the runtime has begun to close, has failed or has crashed, no      *)
(* relay is left, and a dial that succeeds late does not become one.       *)
THEOREM NoRelayAfterClose == Spec => []NothingOutlivesClose
  <1>1. EgressInv => NothingOutlivesClose
    BY DEF EgressInv
  <1> QED BY <1>1, EgressInvariance, PTL

(* The count of slots that both proxies test is the number of connections  *)
(* dialled or relayed, and never exceeds maxConnections.                   *)
THEOREM SlotsExact == Spec => []SlotsCounted
  <1>1. EgressInv => SlotsCounted
    BY DEF EgressInv
  <1> QED BY <1>1, EgressInvariance, PTL

(* For every policy: a guest's connection reaches a public address of a    *)
(* destination that an allowed pattern names and no denied one does.       *)
THEOREM EgressOnlyPermitted == Spec => []EgressPermitted
  <1>1. EgressInv => EgressPermitted
    <2> SUFFICES ASSUME EgressInv, NEW c \in Outbound
                 PROVE  /\ conn[c].addr[1] \in Public
                        /\ conn[c].dest.port \in Ports
                        /\ conn[c].dest \in UNION {Language(p) : p \in Allowed}
                        /\ conn[c].dest \notin UNION {Language(p) : p \in Denied}
      BY DEF EgressPermitted
    <2>1. conn[c].dest \in Destinations /\ Decide(conn[c].dest) = "allowlist" /\ conn[c].addr[1] \in Public
      BY DEF EgressInv, Decided, Outbound
    <2> QED BY <2>1, PolicySound
  <1> QED BY <1>1, EgressInvariance, PTL
==================================================================================
