--------------------------- MODULE DiscoveryProofs ---------------------------
(***************************************************************************)
(* Discovery and pairing, for any gateways, addresses, hosts and options:  *)
(* what the pairing file may hold is a gateway that welcomed this device,  *)
(* through any number of moves, failed saves and power cuts; a browse      *)
(* answers with what is announced, in whatever order the responses came;   *)
(* and what a gateway publishes is true of it and leads a device to it.    *)
(***************************************************************************)
EXTENDS Discovery, FiniteSetTheorems, WellFoundedInduction, TLAPS

\* Every set of naturals that is not empty has a least element.
LEMMA NatMin ==
    ASSUME NEW T \in SUBSET Nat, T # {}
    PROVE  \E n \in T : \A m \in T : n <= m
<1> DEFINE R == {ss \in Nat \X Nat : ss[1] < ss[2]}
<1>1. IsWellFoundedOn(R, Nat)
  BY NatLessThanWellFounded DEF OpToRel
<1>2. \A x, y \in Nat : x < y => <<x, y>> \in R
  OBVIOUS
<1> HIDE DEF R
<1>3. \E x \in T : \A y \in T : ~ (<<y, x>> \in R)
  BY <1>1, WFMin
<1>4. PICK x \in T : \A y \in T : ~ (<<y, x>> \in R)
  BY <1>3
<1>5. \A y \in T : x <= y
  <2> TAKE y \in T
  <2>1. x \in Nat /\ y \in Nat /\ ~(y < x)
    BY <1>2, <1>4
  <2> QED
    BY <2>1
<1> QED
  BY <1>5

\* f is the function that starts at base and goes on as by says.
Recursion(f, N, S, base, by) ==
    f \in [0..N -> S] /\ f[0] = base /\ \A n \in 1..N : f[n] = by[n][f[n - 1]]

\* What is defined from its value at the previous place exists.
LEMMA RecursiveFunction ==
    ASSUME NEW N \in Nat, NEW S, NEW base \in S, NEW by \in [1..N -> [S -> S]]
    PROVE  \E f : Recursion(f, N, S, base, by)
<1> USE DEF Recursion
<1> DEFINE Upto(m) == \E f \in [0..m -> S] : f[0] = base /\ \A n \in 1..m : f[n] = by[n][f[n - 1]]
           Bad == {m \in 0..N : ~Upto(m)}
<1>1. SUFFICES Bad = {}
  <2>1. SUFFICES ASSUME Bad = {} PROVE Upto(N)
    OBVIOUS
  <2>2. N \in 0..N /\ N \notin Bad
    <3> HIDE DEF Bad
    <3> QED
      BY <2>1
  <2> QED
    BY <2>2
<1>2. SUFFICES ASSUME Bad # {} PROVE FALSE
  OBVIOUS
<1>3. PICK m \in Bad : \A k \in Bad : m <= k
  <2>1. Bad \in SUBSET Nat
    OBVIOUS
  <2> HIDE DEF Bad
  <2> QED
    BY <1>2, <2>1, NatMin
<1>4. CASE m = 0
  <2>1. PICK f : f = [n \in 0..0 |-> base]
    OBVIOUS
  <2>0. f \in [0..0 -> S] /\ f[0] = base /\ \A n \in 1..0 : f[n] = by[n][f[n - 1]]
    BY <2>1
  <2>2. Upto(0)
    BY <2>0
  <2> QED
    BY <1>4, <2>2
<1>5. CASE m # 0
  <2>0. m \in 1..N /\ m - 1 \in 0..N /\ m - 1 < m
    BY <1>5
  <2>1. m \in 1..N /\ m - 1 \in 0..N /\ m - 1 \notin Bad
    <3> HIDE DEF Bad
    <3> QED
      BY <1>3, <2>0
  <2>2. Upto(m - 1)
    BY <2>1
  <2>3. PICK f \in [0..m - 1 -> S] : f[0] = base /\ \A n \in 1..m - 1 : f[n] = by[n][f[n - 1]]
    BY <2>2
  <2>4. PICK g : g = [n \in 0..m |-> IF n = m THEN by[m][f[m - 1]] ELSE f[n]]
    OBVIOUS
  <2>5. by[m][f[m - 1]] \in S
    BY <2>1
  <2>6. g \in [0..m -> S]
    BY <2>1, <2>4, <2>5
  <2>7. g[0] = base
    BY <2>1, <2>3, <2>4
  <2>8. ASSUME NEW n \in 1..m PROVE g[n] = by[n][g[n - 1]]
    BY <2>1, <2>3, <2>4
  <2>9. Upto(m)
    BY <2>6, <2>7, <2>8
  <2> QED
    BY <2>9
<1> QED
  BY <1>4, <1>5

\* What holds at 0 and at every place if it holds at the one before it.
LEMMA Upwards ==
    ASSUME NEW N \in Nat, NEW T \in SUBSET (0..N), 0 \in T, \A n \in 1..N : n - 1 \in T => n \in T
    PROVE  T = 0..N
<1> SUFFICES ASSUME (0..N) \ T # {} PROVE FALSE
  OBVIOUS
<1>1. (0..N) \ T \in SUBSET Nat
  OBVIOUS
<1>2. PICK n \in (0..N) \ T : \A m \in (0..N) \ T : n <= m
  <2> DEFINE D == (0..N) \ T
  <2> HIDE DEF D
  <2>1. D \in SUBSET Nat /\ D # {}
    BY <1>1 DEF D
  <2>2. \E n \in D : \A m \in D : n <= m
    BY <2>1, NatMin
  <2> QED
    BY <2>2 DEF D
<1>3. n \in 1..N /\ n - 1 \in 0..N
  BY <1>2
<1>4. n - 1 \in T
  BY <1>2, <1>3
<1> QED
  BY <1>2, <1>3, <1>4

-----------------------------------------------------------------------------
(* The attempts of a device.                                               *)

\* The phases of an attempt that has an endpoint, a gateway at the other end, and
\* its welcome.
Connecting == {"dialing", "handshake", "saving", "syncing", "session"}
Connected == Connecting \ {"dialing"}
Accepted == {"saving", "syncing", "session"}

\* What an attempt may rely on when it gets to a phase: an endpoint to dial, a
\* gateway at the other end, its welcome, and the pairing file it renamed.
AttemptShape ==
    /\ phase \in Connecting => endpoint \in Instance
    /\ phase \in Connected => peer \in Servers
    /\ phase \in Accepted => <<peer, endpoint.host, endpoint.addr>> \in welcomed
    /\ phase = "syncing" => pairing = [endpoint EXCEPT !.id = peer]

\* The inductive invariant.
IInv == PairingInvariant /\ AttemptShape

\* The instances of gateways are instances.
LEMMA InstanceType ==
    ASSUME NEW s \in Servers, NEW addr \in Addrs \cup {NoAddr}
    PROVE  InstanceOf(s, addr) \in Instance
  BY DEF InstanceOf, Instance

\* pick: when an answer has a compatible gateway, one of its instances is chosen.
LEMMA PickIsFound ==
    ASSUME NEW answer \in SUBSET Instance, \E inst \in answer : inst.compatible
    PROVE  Pick(answer) \in answer
<1> DEFINE candidates == {inst \in answer : inst.compatible}
           liked == {inst \in candidates : cfg.preferred \in {0, inst.id}}
           from == IF liked = {} THEN candidates ELSE liked
           ids == {inst.id : inst \in from}
<1>1. from # {} /\ from \subseteq answer
  OBVIOUS
<1>2. ids \in SUBSET Nat /\ ids # {}
  <2>1. \A inst \in from : inst.id \in Servers
    BY <1>1 DEF Instance
  <2>2. Servers \subseteq Nat
    BY DiscoveryAssumption
  <2> HIDE DEF from
  <2> QED
    BY <1>1, <2>1, <2>2
<1>3. PICK least \in ids : \A other \in ids : least <= other
  BY <1>2, NatMin, Zenon
<1>4. PICK inst \in from : inst.id = least
  OBVIOUS
<1>5. \A other \in from : inst.id <= other.id
  BY <1>3, <1>4
<1>6. Pick(answer) = CHOOSE i \in from : \A other \in from : i.id <= other.id
  BY DEF Pick
<1>7. Pick(answer) \in from
  <2> HIDE DEF from
  <2> QED
    BY <1>5, <1>6
<1> QED
  BY <1>1, <1>7

-----------------------------------------------------------------------------
\* A device that starts satisfies the invariant: what it finds in its pairing
\* file is a gateway that welcomed it before, or nothing it can use.
LEMMA InitInv == Init => IInv
<1> SUFFICES ASSUME Init PROVE IInv
  OBVIOUS
<1> USE DiscoveryAssumption DEF Init
<1>1. pairing \in Instance \cup {NoPairing, Corrupt}
  BY InstanceType
<1>2. TypeOK
  BY <1>1 DEF TypeOK
<1>3. PairingWasWelcomed
  <2>1. CASE pairing \in {NoPairing, Corrupt}
    <3>1. pairing \notin Instance
      BY <2>1 DEF NoPairing, Corrupt, Instance
    <3> QED
      BY <3>1 DEF PairingWasWelcomed
  <2>2. CASE \E s \in Secure \cap Compatible, a \in Addrs :
                 pairing = InstanceOf(s, a) /\ welcomed = {<<s, s, a>>}
    BY <2>2 DEF PairingWasWelcomed, InstanceOf
  <2> QED
    BY <2>1, <2>2
<1>4. SessionIsRemembered /\ AttemptShape
  BY DEF SessionIsRemembered, AttemptShape, Connecting, Connected, Accepted
<1> QED
  BY <1>2, <1>3, <1>4 DEF IInv, PairingInvariant

\* An attempt that is given up preserves the invariant, with or without a
\* pairing to try next: it leaves the file and the history alone.
LEMMA EndAttemptInv ==
    ASSUME IInv, NEW tried \in BOOLEAN, EndAttempt(tried),
           UNCHANGED <<cfg, network, file>>, faults' \in 0..MaxFaults,
           welcomed \subseteq welcomed'
    PROVE  IInv'
  BY DEF IInv, PairingInvariant, TypeOK, PairingWasWelcomed, SessionIsRemembered, AttemptShape,
         EndAttempt, network, file, Connecting, Connected, Accepted, Nobody

\* So does an endpoint that was resolved, which is dialled only over TLS.
LEMMA TargetInv ==
    ASSUME IInv, NEW inst \in Instance, Target(inst), phase \in {"resolving", "browsing"},
           UNCHANGED <<cfg, network, file, faults, welcomed>>
    PROVE  IInv'
<1>1. CASE inst.tls
  BY <1>1 DEF IInv, PairingInvariant, TypeOK, PairingWasWelcomed, SessionIsRemembered, AttemptShape,
              Target, network, file, Connecting, Connected, Accepted
<1>2. CASE ~inst.tls
  <2>1. faults' \in 0..MaxFaults
    BY DEF IInv, PairingInvariant, TypeOK
  <2> QED
    BY <1>2, <2>1, EndAttemptInv DEF Target
<1> QED
  BY <1>1, <1>2

\* Resolving and browsing preserve the invariant.
LEMMA ResolveInv ==
    ASSUME IInv, Resolve \/ Browsed
    PROVE  IInv'
<1> USE DEF IInv, PairingInvariant
<1>0. faults \in 0..MaxFaults
  BY DEF TypeOK
<1>1. CASE Resolve
  <2>1. CASE cfg.url # 0
    <3> DEFINE inst == [InstanceOf(cfg.url, NoAddr) EXCEPT !.tls = TRUE, !.compatible = TRUE]
    <3>1. cfg.url \in Servers
      BY <2>1, DiscoveryAssumption DEF TypeOK
    <3>2. inst \in Instance
      BY <3>1 DEF InstanceOf, Instance
    <3>3. Target(inst) /\ UNCHANGED <<cfg, network, file, faults, welcomed>>
      BY <1>1, <2>1 DEF Resolve
    <3> QED
      BY <1>1, <3>2, <3>3, TargetInv DEF Resolve
  <2>2. CASE cfg.url = 0 /\ PairedIsUsable
    <3>1. pairing \in Instance /\ Target(pairing)
      BY <1>1, <2>2 DEF Resolve, PairedIsUsable, Paired
    <3> QED
      BY <1>1, <3>1, TargetInv DEF Resolve
  <2>3. CASE cfg.url = 0 /\ ~PairedIsUsable /\ cfg.discovery = "disabled"
    <3>1. EndAttempt(FALSE)
      BY <1>1, <2>3 DEF Resolve
    <3> QED
      BY <1>0, <1>1, <3>1, EndAttemptInv DEF Resolve
  <2>4. CASE cfg.url = 0 /\ ~PairedIsUsable /\ cfg.discovery # "disabled"
    <3>1. /\ phase' = "browsing"
          /\ UNCHANGED <<cfg, network, file, faults, welcomed, usePairing, endpoint, peer>>
      BY <1>1, <2>4 DEF Resolve
    <3> QED
      BY <3>1 DEF TypeOK, PairingWasWelcomed, SessionIsRemembered, AttemptShape, network, file,
                  Connecting, Connected, Accepted
  <2> QED
    BY <2>1, <2>2, <2>3, <2>4
<1>2. CASE Browsed
  <2>1. PICK answer \in SUBSET Visible : BrowseAnswers(answer)
    BY <1>2 DEF Browsed
  <2>2. Visible \subseteq Instance
    <3>1. \A s \in Servers : net[s].addr \in Addrs \cup {NoAddr}
      BY DEF TypeOK, Networks
    <3> QED
      BY <3>1, InstanceType DEF Visible
  <2>3. CASE \E inst \in answer : inst.compatible
    <3>1. Pick(answer) \in Instance
      BY <2>2, <2>3, PickIsFound
    <3>2. /\ Target(Pick(answer)) /\ phase = "browsing"
          /\ UNCHANGED <<cfg, network, file, faults, welcomed>>
      BY <2>1, <2>3 DEF BrowseAnswers
    <3> QED
      BY <3>1, <3>2, TargetInv
  <2>4. CASE ~(\E inst \in answer : inst.compatible)
    BY <1>0, <2>1, <2>4, EndAttemptInv DEF BrowseAnswers
  <2> QED
    BY <2>3, <2>4
<1> QED
  BY <1>1, <1>2

\* Dialling and the handshake preserve the invariant.
LEMMA DialInv ==
    ASSUME IInv, Dial \/ Welcome
    PROVE  IInv'
<1> USE DEF IInv, PairingInvariant
<1>0. faults \in 0..MaxFaults
  BY DEF TypeOK
<1>1. CASE Dial
  <2>1. CASE \E s \in Servers : Leads(endpoint, s) /\ peer' = s /\ phase' = "handshake"
                                /\ UNCHANGED <<usePairing, endpoint>>
    BY <1>1, <2>1 DEF Dial, TypeOK, PairingWasWelcomed, SessionIsRemembered, AttemptShape, network,
                      file, Connecting, Connected, Accepted
  <2>2. CASE EndAttempt(FALSE)
    BY <1>0, <1>1, <2>2, EndAttemptInv DEF Dial
  <2> QED
    BY <1>1, <2>1, <2>2 DEF Dial
<1>2. CASE Welcome
  <2>1. CASE Leads(endpoint, peer)
    BY <1>2, <2>1 DEF Welcome, TypeOK, PairingWasWelcomed, SessionIsRemembered, AttemptShape,
                      network, file, Connecting, Connected, Accepted
  <2>2. CASE ~Leads(endpoint, peer)
    BY <1>0, <1>2, <2>2, EndAttemptInv DEF Welcome
  <2> QED
    BY <2>1, <2>2
<1> QED
  BY <1>1, <1>2

\* Saving the pairing preserves the invariant: the content that the rename shows
\* is the endpoint with the id of the gateway that has just welcomed the device.
LEMMA SaveInv ==
    ASSUME IInv, Rename \/ Sync \/ SaveFails
    PROVE  IInv'
<1> USE DEF IInv, PairingInvariant
<1>1. CASE Rename
  <2> DEFINE saved == [endpoint EXCEPT !.id = peer]
  <2>1. phase = "saving" /\ endpoint \in Instance /\ peer \in Servers
    BY <1>1 DEF Rename, AttemptShape, Connecting, Connected
  <2>2. /\ saved \in Instance /\ saved.id = peer
        /\ saved.host = endpoint.host /\ saved.addr = endpoint.addr
    BY <2>1 DEF Instance
  <2>3. /\ pairing' = saved /\ durable' = durable \cup {saved} /\ phase' = "syncing"
        /\ UNCHANGED <<cfg, network, usePairing, endpoint, peer, faults, welcomed>>
    BY <1>1 DEF Rename, Renamed
  <2> HIDE DEF saved
  <2>4. TypeOK'
    BY <2>2, <2>3 DEF TypeOK, network
  <2>5. PairingWasWelcomed'
    <3>1. <<saved.id, saved.host, saved.addr>> \in welcomed
      BY <2>1, <2>2 DEF AttemptShape, Accepted
    <3> QED
      BY <2>3, <3>1 DEF PairingWasWelcomed
  <2>6. AttemptShape'
    BY <2>1, <2>3 DEF AttemptShape, Connecting, Connected, Accepted, saved
  <2> QED
    BY <2>3, <2>4, <2>5, <2>6 DEF SessionIsRemembered
<1>2. CASE Sync
  BY <1>2 DEF Sync, TypeOK, PairingWasWelcomed, SessionIsRemembered, AttemptShape, network,
              Connecting, Connected, Accepted
<1>3. CASE SaveFails
  <2>1. faults' \in 0..MaxFaults
    BY <1>3, DiscoveryAssumption DEF SaveFails, TypeOK
  <2> QED
    BY <1>3, <2>1, EndAttemptInv DEF SaveFails
<1> QED
  BY <1>1, <1>2, <1>3

\* The end of a session, changes of the network and power cuts preserve the
\* invariant: a cut leaves one of the contents that the file could have.
LEMMA WorldInv ==
    ASSUME IInv, SessionEnds \/ Move \/ PowerCut
    PROVE  IInv'
<1> USE DEF IInv, PairingInvariant
<1>1. CASE SessionEnds
  <2>1. faults' \in 0..MaxFaults
    BY <1>1 DEF SessionEnds, TypeOK
  <2> QED
    BY <1>1, <2>1, EndAttemptInv DEF SessionEnds
<1>2. CASE Move
  <2>1. net' \in Networks
    BY <1>2 DEF Move, TypeOK, Networks
  <2>2. moves' \in 0..MaxMoves
    BY <1>2, DiscoveryAssumption DEF Move, TypeOK
  <2> QED
    BY <1>2, <2>1, <2>2 DEF Move, TypeOK, PairingWasWelcomed, SessionIsRemembered, AttemptShape,
                            file, Connecting, Connected, Accepted
<1>3. CASE PowerCut
  <2>1. PICK content \in durable : pairing' = content /\ durable' = {content}
    BY <1>3 DEF PowerCut
  <2>2. faults' \in 0..MaxFaults
    BY <1>3, DiscoveryAssumption DEF PowerCut, TypeOK
  <2> QED
    BY <1>3, <2>1, <2>2 DEF PowerCut, EndAttempt, TypeOK, PairingWasWelcomed, SessionIsRemembered,
                            AttemptShape, network, Connecting, Connected, Accepted, Nobody
<1> QED
  BY <1>1, <1>2, <1>3

\* Every step of discovery preserves the invariant.
LEMMA NextInv == IInv /\ [Next]_vars => IInv'
<1>1. ASSUME IInv, UNCHANGED vars
      PROVE  IInv'
  BY <1>1 DEF IInv, PairingInvariant, TypeOK, PairingWasWelcomed, SessionIsRemembered,
              AttemptShape, vars, network, file
<1> QED
  BY <1>1, ResolveInv, DialInv, SaveInv, WorldInv DEF Next, Client

\* The inductive invariant holds always.
LEMMA Invariance == Spec => []IInv
  BY InitInv, NextInv, PTL DEF Spec

-----------------------------------------------------------------------------
\* The pairing file, now and after a power cut, holds a gateway that welcomed
\* this device at that very place or what the device was started with, and the
\* gateway of a session is on the disk: internal/discovery pairing.go against
\* Client.handshake, whatever browses answer, attempts fail and gateways move.
THEOREM PairingSafe == Spec => []PairingInvariant
<1>1. IInv => PairingInvariant
  BY DEF IInv
<1> QED
  BY <1>1, Invariance, PTL

-----------------------------------------------------------------------------
(* One browse: what rebuildInstances makes of the responses.               *)

\* A sequence without repetitions, and what it holds.
Injective(s) == \A i, j \in DOMAIN s : s[i] = s[j] => i = j
Places(s) == {s[i] : i \in DOMAIN s}

\* The addresses of responses, and what a gateway may have of them.
Listed == UNION {Places(list) : list \in AddrLists}
Joint == {s \in Seq(Listed) : Injective(s)}
Announced == [id : Gateways, endpoint : Endpoints, addrs : Joint]
Gathered == UNION {[D -> Announced] : D \in SUBSET Gateways}
Known == UNION {[D -> Browsing!Instance] : D \in SUBSET Names}

\* The instances of responses have each address once.
LEMMA ResponsesAreAnnounced ==
    Browsing!Instance \subseteq Announced
<1>1. ASSUME NEW list \in AddrLists PROVE list \in Joint
  <2>1. list \in Seq(Places(list)) /\ Injective(list)
    BY BrowseAssumption DEF Places, Injective
  <2>2. Places(list) \subseteq Listed
    BY DEF Listed
  <2>3. list \in Seq(Listed)
    BY <2>1, <2>2
  <2> QED
    BY <2>1, <2>3 DEF Joint
<1> QED
  BY <1>1 DEF Browsing!Instance, Announced

\* One more address behind those that are there.
LEMMA OneMore ==
    ASSUME NEW s \in Joint, NEW a \in Listed, a \notin Places(s)
    PROVE  Append(s, a) \in Joint /\ Places(Append(s, a)) = Places(s) \cup {a}
<1>1. PICK n \in Nat : Len(s) = n
  BY DEF Joint
<1>2. s \in Seq(Listed) /\ DOMAIN s = 1..n
  BY <1>1 DEF Joint
<1>3. PICK t : Append(s, a) = t
  OBVIOUS
<1>4. /\ t \in Seq(Listed) /\ DOMAIN t = 1..n + 1 /\ t[n + 1] = a
      /\ \A i \in 1..n : t[i] = s[i]
  BY <1>1, <1>2, <1>3
<1>5. \A i \in 1..n : s[i] # a
  BY <1>2 DEF Places
<1>6. Injective(t)
  <2> SUFFICES ASSUME NEW i \in 1..n + 1, NEW j \in 1..n + 1, t[i] = t[j] PROVE i = j
    BY <1>4 DEF Injective
  <2>1. CASE i \in 1..n /\ j \in 1..n
    <3>1. \A k, l \in 1..n : s[k] = s[l] => k = l
      BY <1>2 DEF Joint, Injective
    <3> QED
      BY <1>4, <2>1, <3>1
  <2>2. CASE i = n + 1
    BY <1>4, <1>5, <2>2
  <2>3. CASE j = n + 1
    BY <1>4, <1>5, <2>3
  <2> QED
    BY <2>1, <2>2, <2>3
<1>7. Places(t) = Places(s) \cup {a}
  <2>1. \A x \in Places(t) : x \in Places(s) \cup {a}
    BY <1>2, <1>4 DEF Places
  <2>2. \A x \in Places(s) : x \in Places(t)
    BY <1>2, <1>4 DEF Places
  <2>3. a \in Places(t)
    BY <1>4 DEF Places
  <2> QED
    BY <2>1, <2>2, <2>3
<1> QED
  BY <1>3, <1>4, <1>6, <1>7 DEF Joint

\* appendUniqueAddrs: the addresses of both, each of them once.
LEMMA AddrsAreJoined ==
    ASSUME NEW dst \in Joint, NEW addrs \in Joint
    PROVE  /\ Browsing!AppendUnique(dst, addrs) \in Joint
           /\ Places(Browsing!AppendUnique(dst, addrs)) = Places(dst) \cup Places(addrs)
<1>1. PICK N \in Nat : Len(addrs) = N
  BY DEF Joint
<1>2. DOMAIN addrs = 1..N /\ \A k \in 1..N : addrs[k] \in Listed
  BY <1>1 DEF Joint
<1> DEFINE Add(s, a) == IF a \in Browsing!Range(s) THEN s ELSE Append(s, a)
<1>3. ASSUME NEW s \in Joint, NEW a \in Listed
      PROVE  Add(s, a) \in Joint /\ Places(Add(s, a)) = Places(s) \cup {a}
  <2>1. Browsing!Range(s) = Places(s)
    BY DEF Browsing!Range, Places
  <2>2. CASE a \in Places(s)
    BY <2>1, <2>2
  <2>3. CASE a \notin Places(s)
    BY <2>1, <2>3, OneMore
  <2> QED
    BY <2>2, <2>3
<1>4. PICK by : by = [k \in 1..N |-> [s \in Joint |-> Add(s, addrs[k])]]
  OBVIOUS
<1>5. by \in [1..N -> [Joint -> Joint]] /\ \A k \in 1..N, s \in Joint : by[k][s] = Add(s, addrs[k])
  <2> HIDE DEF Add
  <2> QED
    BY <1>2, <1>3, <1>4
<1>6. PICK f : Recursion(f, N, Joint, dst, by)
  BY <1>5, RecursiveFunction
<1>7. f \in [0..N -> Joint] /\ f[0] = dst /\ \A k \in 1..N : f[k] = by[k][f[k - 1]]
  BY <1>6 DEF Recursion
<1>8. \A k \in 1..N : k - 1 \in 0..N /\ f[k] = Add(f[k - 1], addrs[k])
  <2> HIDE DEF Add
  <2> QED
    BY <1>5, <1>7
<1>9. f = [k \in 0..N |-> IF k = 0 THEN dst ELSE Add(f[k - 1], addrs[k])]
  <2> HIDE DEF Add
  <2>1. ASSUME NEW k \in 0..N PROVE f[k] = IF k = 0 THEN dst ELSE Add(f[k - 1], addrs[k])
    BY <1>7, <1>8
  <2> QED
    BY <1>7, <2>1
<1>10. PICK g : /\ g = [k \in 0..N |-> IF k = 0 THEN dst ELSE Add(g[k - 1], addrs[k])]
                /\ Browsing!AppendUnique(dst, addrs) = g[N]
  <2>1. f = [k \in 0..N |-> IF k = 0 THEN dst
                            ELSE IF addrs[k] \in Browsing!Range(f[k - 1]) THEN f[k - 1]
                            ELSE Append(f[k - 1], addrs[k])]
    BY <1>9
  <2> QED
    BY <1>1, <2>1 DEF Browsing!AppendUnique
<1> HIDE DEF Add
<1> DEFINE Upto(k) == {addrs[i] : i \in 1..k}
           T == {k \in 0..N : g[k] \in Joint /\ Places(g[k]) = Places(dst) \cup Upto(k)}
<1>11. 0 \in T
  <2>1. g[0] = dst /\ Upto(0) = {}
    BY <1>10
  <2> QED
    BY <2>1
<1>12. ASSUME NEW k \in 1..N, k - 1 \in T PROVE k \in T
  <2>1. g[k] = Add(g[k - 1], addrs[k])
    BY <1>10
  <2>2. Upto(k) = Upto(k - 1) \cup {addrs[k]}
    <3>1. 1..k = 1..k - 1 \cup {k}
      OBVIOUS
    <3> QED
      BY <3>1
  <2>3. g[k] \in Joint /\ Places(g[k]) = Places(g[k - 1]) \cup {addrs[k]}
    BY <1>2, <1>3, <1>12, <2>1
  <2> QED
    BY <1>12, <2>2, <2>3
<1>13. N \in T
  <2>1. T \in SUBSET (0..N)
    OBVIOUS
  <2> HIDE DEF T
  <2>2. T = 0..N
    BY <1>11, <1>12, <2>1, Upwards
  <2> QED
    BY <2>2
<1>14. Upto(N) = Places(addrs)
  BY <1>2 DEF Places
<1> QED
  BY <1>10, <1>13, <1>14

\* The addresses a set of names gives for an endpoint of a gateway.
Given(e, S, id, where) ==
  UNION {Places(e[n].addrs) : n \in {k \in S : e[k].id = id /\ e[k].endpoint = where}}

\* What is gathered from the entries under a set of names.
IsGathered(m, e, S) ==
  /\ m \in Gathered
  /\ DOMAIN m = {e[n].id : n \in S}
  /\ \A n \in S : m[e[n].id].endpoint <= e[n].endpoint
  /\ \A id \in DOMAIN m : \E n \in S : e[n].id = id /\ e[n].endpoint = m[id].endpoint
  /\ \A id \in DOMAIN m : Places(m[id].addrs) = Given(e, S, id, m[id].endpoint)

\* What is known of a name is what a response of a gateway may hold.
LEMMA KnownEntries ==
    ASSUME NEW e \in Known, NEW n \in DOMAIN e
    PROVE  /\ e[n] \in Announced /\ e[n].id \in Gateways /\ e[n].endpoint \in Nat
           /\ e[n].addrs \in Joint
<1>1. e[n] \in Announced
  BY ResponsesAreAnnounced DEF Known
<1> QED
  BY <1>1, BrowseAssumption DEF Announced

\* An instance that takes the place of another one for its gateway.
LEMMA PutIsGathered ==
    ASSUME NEW e \in Known, NEW S \in SUBSET DOMAIN e, NEW n \in DOMAIN e, NEW m, IsGathered(m, e, S),
           NEW v \in Announced, v.id = e[n].id, v.endpoint = e[n].endpoint,
           \A k \in S : e[k].id = e[n].id => e[n].endpoint <= e[k].endpoint,
           Places(v.addrs) = Given(e, S \cup {n}, e[n].id, e[n].endpoint)
    PROVE  IsGathered(Browsing!Put(m, v), e, S \cup {n})
<1>1. PICK id \in Gateways : e[n].id = id
  BY KnownEntries
<1>2. PICK p : Browsing!Put(m, v) = p
  OBVIOUS
<1>3. p = [g \in DOMAIN m \cup {id} |-> IF g = id THEN v ELSE m[g]]
  BY <1>1, <1>2 DEF Browsing!Put
<1>4. PICK D \in SUBSET Gateways : m \in [D -> Announced]
  BY DEF IsGathered, Gathered
<1>5. p \in [D \cup {id} -> Announced] /\ p[id] = v /\ \A g \in D \ {id} : p[g] = m[g]
  BY <1>3, <1>4
<1>6. p \in Gathered
  <2>1. D \cup {id} \in SUBSET Gateways
    OBVIOUS
  <2> QED
    BY <1>5, <2>1 DEF Gathered
<1>7. DOMAIN p = {e[k].id : k \in S \cup {n}}
  BY <1>1, <1>4, <1>5 DEF IsGathered
<1>8. ASSUME NEW k \in S \cup {n} PROVE p[e[k].id].endpoint <= e[k].endpoint
  <2>1. CASE e[k].id = id
    <3>1. e[n].endpoint \in Nat
      BY KnownEntries
    <3>2. CASE k = n
      BY <1>1, <1>5, <3>1, <3>2
    <3>3. CASE k \in S
      BY <1>1, <1>5, <2>1, <3>3
    <3> QED
      BY <3>2, <3>3
  <2>2. CASE e[k].id # id
    <3>1. k \in S
      BY <1>1, <2>2
    <3>2. e[k].id \in D \ {id}
      BY <1>4, <2>2, <3>1 DEF IsGathered
    <3> QED
      BY <1>5, <3>1, <3>2 DEF IsGathered
  <2> QED
    BY <2>1, <2>2
<1>9. ASSUME NEW g \in DOMAIN p
      PROVE  \E k \in S \cup {n} : e[k].id = g /\ e[k].endpoint = p[g].endpoint
  <2>1. CASE g = id
    BY <1>1, <1>5, <2>1
  <2>2. CASE g # id
    <3>1. g \in D
      BY <1>5, <2>2
    <3>2. PICK k \in S : e[k].id = g /\ e[k].endpoint = m[g].endpoint
      BY <1>4, <3>1 DEF IsGathered
    <3> QED
      BY <1>5, <2>2, <3>1, <3>2
  <2> QED
    BY <2>1, <2>2
<1>10. ASSUME NEW g \in DOMAIN p
       PROVE  Places(p[g].addrs) = Given(e, S \cup {n}, g, p[g].endpoint)
  <2>1. CASE g = id
    BY <1>1, <1>5, <2>1
  <2>2. CASE g # id
    <3>1. g \in D
      BY <1>5, <2>2
    <3>2. Places(m[g].addrs) = Given(e, S, g, m[g].endpoint)
      BY <1>4, <3>1 DEF IsGathered
    <3>3. Given(e, S \cup {n}, g, m[g].endpoint) = Given(e, S, g, m[g].endpoint)
      <4>1. {k \in S \cup {n} : e[k].id = g /\ e[k].endpoint = m[g].endpoint}
            = {k \in S : e[k].id = g /\ e[k].endpoint = m[g].endpoint}
        BY <1>1, <2>2
      <4> QED
        BY <4>1 DEF Given
    <3>4. p[g] = m[g]
      BY <1>5, <2>2, <3>1
    <3> QED
      BY <3>2, <3>3, <3>4
  <2> QED
    BY <2>1, <2>2
<1> QED
  BY <1>2, <1>6, <1>7, <1>8, <1>9, <1>10 DEF IsGathered

\* mergeInstance: what is gathered from one more entry.
LEMMA MergeGathers ==
    ASSUME NEW e \in Known, NEW S \in SUBSET DOMAIN e, NEW n \in DOMAIN e, NEW m, IsGathered(m, e, S)
    PROVE  IsGathered(Browsing!MergeInstance(m, e[n]), e, S \cup {n})
<1>1. PICK id \in Gateways : e[n].id = id
  BY KnownEntries
<1>2. PICK b \in Nat : e[n].endpoint = b
  BY KnownEntries
<1>3. e[n] \in Announced /\ e[n].addrs \in Joint
  BY KnownEntries
<1>4. ASSUME NEW k \in S, e[k].id = id
      PROVE  id \in DOMAIN m /\ e[k].endpoint \in Nat /\ m[id].endpoint <= e[k].endpoint
  BY <1>4, KnownEntries DEF IsGathered
<1>5. ASSUME id \in DOMAIN m
      PROVE  /\ m[id] \in Announced /\ m[id].endpoint \in Nat /\ m[id].addrs \in Joint
             /\ Places(m[id].addrs) = Given(e, S, id, m[id].endpoint)
  <2>1. m[id] \in Announced
    BY <1>5 DEF IsGathered, Gathered
  <2> QED
    BY <1>5, <2>1, BrowseAssumption DEF IsGathered, Announced
<1>6. CASE id \notin DOMAIN m \/ b < m[id].endpoint
  <2>1. Browsing!MergeInstance(m, e[n]) = Browsing!Put(m, e[n])
    BY <1>1, <1>2, <1>6 DEF Browsing!MergeInstance
  <2>2. \A k \in S : e[k].id = id => b < e[k].endpoint
    <3> SUFFICES ASSUME NEW k \in S, e[k].id = id PROVE b < e[k].endpoint
      OBVIOUS
    <3>1. b < m[id].endpoint /\ m[id].endpoint <= e[k].endpoint /\ e[k].endpoint \in Nat
      BY <1>4, <1>6
    <3>2. m[id].endpoint \in Nat
      BY <1>4, <1>5
    <3> QED
      BY <3>1, <3>2
  <2>3. Places(e[n].addrs) = Given(e, S \cup {n}, id, b)
    <3>1. \A k \in S : ~(e[k].id = id /\ e[k].endpoint = b)
      BY <2>2
    <3>2. {k \in S \cup {n} : e[k].id = id /\ e[k].endpoint = b} = {n}
      BY <1>1, <1>2, <3>1
    <3> QED
      BY <3>2 DEF Given
  <2>4. \A k \in S : e[k].id = e[n].id => e[n].endpoint <= e[k].endpoint
    <3> SUFFICES ASSUME NEW k \in S, e[k].id = id PROVE b <= e[k].endpoint
      BY <1>1, <1>2
    <3>1. e[k].endpoint \in Nat /\ b < e[k].endpoint
      BY <1>4, <2>2
    <3> QED
      BY <3>1
  <2> QED
    BY <1>1, <1>2, <1>3, <2>1, <2>3, <2>4, PutIsGathered
<1>7. CASE id \in DOMAIN m /\ b = m[id].endpoint
  <2> DEFINE v == [e[n] EXCEPT !.addrs = Browsing!AppendUnique(m[id].addrs, e[n].addrs)]
  <2>1. Browsing!MergeInstance(m, e[n]) = Browsing!Put(m, v)
    BY <1>1, <1>2, <1>7 DEF Browsing!MergeInstance
  <2>2. PICK a \in Joint : /\ Browsing!AppendUnique(m[id].addrs, e[n].addrs) = a
                           /\ Places(a) = Places(m[id].addrs) \cup Places(e[n].addrs)
    BY <1>3, <1>5, <1>7, AddrsAreJoined
  <2>3. v \in Announced /\ v.id = e[n].id /\ v.endpoint = e[n].endpoint /\ v.addrs = a
    BY <1>3, <2>2 DEF Announced
  <2>4. Places(a) = Given(e, S \cup {n}, id, b)
    <3>1. {k \in S \cup {n} : e[k].id = id /\ e[k].endpoint = b}
          = {k \in S : e[k].id = id /\ e[k].endpoint = b} \cup {n}
      BY <1>1, <1>2
    <3>2. Given(e, S \cup {n}, id, b) = Given(e, S, id, b) \cup Places(e[n].addrs)
      BY <3>1 DEF Given
    <3> QED
      BY <1>5, <1>7, <2>2, <3>2
  <2>5. \A k \in S : e[k].id = e[n].id => e[n].endpoint <= e[k].endpoint
    BY <1>1, <1>2, <1>4, <1>7
  <2> HIDE DEF v
  <2> QED
    BY <1>1, <1>2, <2>1, <2>3, <2>4, <2>5, PutIsGathered
<1>8. CASE id \in DOMAIN m /\ ~(b < m[id].endpoint) /\ b # m[id].endpoint
  <2>1. Browsing!MergeInstance(m, e[n]) = m
    BY <1>1, <1>2, <1>8 DEF Browsing!MergeInstance
  <2>2. m[id].endpoint < b
    BY <1>5, <1>8
  <2>3. DOMAIN m = {e[k].id : k \in S \cup {n}}
    BY <1>1, <1>8 DEF IsGathered
  <2>4. \A k \in S \cup {n} : m[e[k].id].endpoint <= e[k].endpoint
    <3> SUFFICES ASSUME NEW k \in S \cup {n} PROVE m[e[k].id].endpoint <= e[k].endpoint
      OBVIOUS
    <3>1. CASE k = n
      BY <1>1, <1>2, <1>5, <1>8, <2>2, <3>1
    <3>2. CASE k \in S
      BY <3>2 DEF IsGathered
    <3> QED
      BY <3>1, <3>2
  <2>5. \A g \in DOMAIN m : Places(m[g].addrs) = Given(e, S \cup {n}, g, m[g].endpoint)
    <3> SUFFICES ASSUME NEW g \in DOMAIN m
                 PROVE  Places(m[g].addrs) = Given(e, S \cup {n}, g, m[g].endpoint)
      OBVIOUS
    <3>1. ~(e[n].id = g /\ e[n].endpoint = m[g].endpoint)
      BY <1>1, <1>2, <1>8
    <3>2. {k \in S \cup {n} : e[k].id = g /\ e[k].endpoint = m[g].endpoint}
          = {k \in S : e[k].id = g /\ e[k].endpoint = m[g].endpoint}
      BY <3>1
    <3>3. Given(e, S \cup {n}, g, m[g].endpoint) = Given(e, S, g, m[g].endpoint)
      BY <3>2 DEF Given
    <3> QED
      BY <3>3 DEF IsGathered
  <2> QED
    BY <2>1, <2>3, <2>4, <2>5 DEF IsGathered
<1> QED
  BY <1>6, <1>7, <1>8

\* mergeInstance of any gathered gateways.
LEMMA MergeType ==
    ASSUME NEW m \in Gathered, NEW inst \in Announced
    PROVE  Browsing!MergeInstance(m, inst) \in Gathered
<1>1. PICK D \in SUBSET Gateways : m \in [D -> Announced]
  BY DEF Gathered
<1>2. PICK id \in Gateways : inst.id = id
  BY DEF Announced
<1>3. ASSUME NEW v \in Announced, v.id = id PROVE Browsing!Put(m, v) \in Gathered
  <2>1. Browsing!Put(m, v) = [g \in DOMAIN m \cup {id} |-> IF g = id THEN v ELSE m[g]]
    BY <1>3 DEF Browsing!Put
  <2>2. Browsing!Put(m, v) \in [D \cup {id} -> Announced]
    BY <1>1, <2>1
  <2>3. D \cup {id} \in SUBSET Gateways
    OBVIOUS
  <2> QED
    BY <2>2, <2>3 DEF Gathered
<1>4. CASE id \in DOMAIN m
  <2>1. m[id].addrs \in Joint /\ inst.addrs \in Joint
    BY <1>1, <1>4 DEF Announced
  <2> DEFINE v == [inst EXCEPT !.addrs = Browsing!AppendUnique(m[id].addrs, inst.addrs)]
  <2>2. PICK a \in Joint : Browsing!AppendUnique(m[id].addrs, inst.addrs) = a
    BY <2>1, AddrsAreJoined
  <2>3. v \in Announced /\ v.id = id
    BY <1>2, <2>2 DEF Announced
  <2>4. Browsing!MergeInstance(m, inst) \in {Browsing!Put(m, inst), Browsing!Put(m, v), m}
    BY <1>2 DEF Browsing!MergeInstance
  <2>5. inst \in Announced /\ inst.id = id
    BY <1>2
  <2> HIDE DEF v
  <2>6. Browsing!Put(m, inst) \in Gathered
    BY <1>3, <2>5
  <2>7. Browsing!Put(m, v) \in Gathered
    BY <1>3, <2>3
  <2> QED
    BY <2>4, <2>6, <2>7
<1>5. CASE id \notin DOMAIN m
  <2>1. Browsing!MergeInstance(m, inst) = Browsing!Put(m, inst)
    BY <1>2, <1>5 DEF Browsing!MergeInstance
  <2> QED
    BY <1>2, <1>3, <2>1
<1> QED
  BY <1>4, <1>5

\* rebuildInstances: whichever way the map is walked, what is gathered from all
\* of its entries.
LEMMA RebuildGathers ==
    ASSUME NEW e \in Known, IsFiniteSet(DOMAIN e), NEW m \in Browsing!Rebuilds(e)
    PROVE  IsGathered(m, e, DOMAIN e)
<1>1. PICK order \in Browsing!Orders(DOMAIN e) : m = Browsing!Rebuild(e, order)
  BY DEF Browsing!Rebuilds
<1>2. PICK N \in Nat : Browsing!Cardinality(DOMAIN e) = N
  <2>1. Browsing!Cardinality(DOMAIN e) = Cardinality(DOMAIN e)
    BY DEF Browsing!Cardinality, Cardinality
  <2> QED
    BY <2>1, FS_CardinalityType
<1>3. order \in [1..N -> DOMAIN e] /\ Places(order) = DOMAIN e
  BY <1>2 DEF Browsing!Orders, Browsing!Range, Places
<1>4. Len(order) = N
  BY <1>3
<1> DEFINE Upto(k) == {order[i] : i \in 1..k}
<1>5. \A k \in 0..N : Upto(k) \in SUBSET DOMAIN e
  BY <1>3
<1>6. ASSUME NEW k \in 1..N, NEW g, IsGathered(g, e, Upto(k - 1))
      PROVE  IsGathered(Browsing!MergeInstance(g, e[order[k]]), e, Upto(k))
  <2>1. Upto(k) = Upto(k - 1) \cup {order[k]}
    <3>1. 1..k = 1..k - 1 \cup {k}
      OBVIOUS
    <3> QED
      BY <3>1
  <2>2. Upto(k - 1) \in SUBSET DOMAIN e /\ order[k] \in DOMAIN e
    BY <1>3, <1>5
  <2> HIDE DEF Upto
  <2> QED
    BY <1>6, <2>1, <2>2, MergeGathers
<1>7. IsGathered(<<>>, e, Upto(0))
  <2>1. Upto(0) = {} /\ DOMAIN <<>> = {}
    OBVIOUS
  <2>2. <<>> \in Gathered
    <3>1. <<>> \in [{} -> Announced] /\ {} \in SUBSET Gateways
      OBVIOUS
    <3> QED
      BY <3>1 DEF Gathered
  <2> HIDE DEF Upto
  <2> QED
    BY <2>1, <2>2 DEF IsGathered
<1>8. \A k \in 1..N : e[order[k]] \in Announced
  BY <1>3, KnownEntries
<1>9. PICK by : by = [k \in 1..N |-> [g \in Gathered |-> Browsing!MergeInstance(g, e[order[k]])]]
  OBVIOUS
<1>10. /\ by \in [1..N -> [Gathered -> Gathered]]
       /\ \A k \in 1..N, g \in Gathered : by[k][g] = Browsing!MergeInstance(g, e[order[k]])
  BY <1>8, <1>9, MergeType
<1>11. PICK f : Recursion(f, N, Gathered, <<>>, by)
  <2>1. <<>> \in Gathered
    BY <1>7 DEF IsGathered
  <2> QED
    BY <1>10, <2>1, RecursiveFunction
<1>12. f \in [0..N -> Gathered] /\ f[0] = <<>> /\ \A k \in 1..N : f[k] = by[k][f[k - 1]]
  BY <1>11 DEF Recursion
<1>13. \A k \in 1..N : k - 1 \in 0..N /\ f[k] = Browsing!MergeInstance(f[k - 1], e[order[k]])
  BY <1>10, <1>12
<1>14. f = [k \in 0..N |-> IF k = 0 THEN <<>>
                           ELSE Browsing!MergeInstance(f[k - 1], e[order[k]])]
  <2>1. ASSUME NEW k \in 0..N
        PROVE  f[k] = IF k = 0 THEN <<>> ELSE Browsing!MergeInstance(f[k - 1], e[order[k]])
    BY <1>12, <1>13
  <2> QED
    BY <1>12, <2>1
<1>15. PICK after : /\ after = [k \in 0..N |-> IF k = 0 THEN <<>>
                           ELSE Browsing!MergeInstance(after[k - 1], e[order[k]])]
                    /\ Browsing!Rebuild(e, order) = after[N]
  BY <1>4, <1>14 DEF Browsing!Rebuild
<1> HIDE DEF Upto
<1> DEFINE T == {k \in 0..N : IsGathered(after[k], e, Upto(k))}
<1>16. 0 \in T
  BY <1>7, <1>15
<1>17. ASSUME NEW k \in 1..N, k - 1 \in T PROVE k \in T
  <2>1. after[k] = Browsing!MergeInstance(after[k - 1], e[order[k]])
    BY <1>15
  <2> QED
    BY <1>6, <1>17, <2>1
<1>18. N \in T
  <2>1. T \in SUBSET (0..N)
    OBVIOUS
  <2> HIDE DEF T
  <2>2. T = 0..N
    BY <1>16, <1>17, <2>1, Upwards
  <2> QED
    BY <2>2
<1>19. Upto(N) = DOMAIN e
  BY <1>3 DEF Upto, Places
<1> QED
  BY <1>1, <1>15, <1>18, <1>19

\* What was last heard under a name is what is known of it, except that a response
\* that was ignored leaves what was known before.
EntriesShape ==
  /\ entriesByName \in Known /\ IsFiniteSet(DOMAIN entriesByName)
  /\ latest \in [Names -> Browsing!Instance \cup {Browsing!NoEvent, Browsing!Incompatible}]
  /\ \A n \in Names : latest[n] \in Browsing!Instance =>
         n \in DOMAIN entriesByName /\ entriesByName[n] = latest[n]
  /\ \A n \in DOMAIN entriesByName : latest[n] \in {entriesByName[n], Browsing!Incompatible}
  /\ IsGathered(instances, entriesByName, DOMAIN entriesByName)

\* What a browse returns, and when it fails.
ResultShape ==
  /\ result \in {Browsing!Pending, Browsing!Failed("error"), Browsing!Sorted(instances)}
  /\ result = Browsing!Failed("error") => parent # "live" \/ resolver = "failed"
  /\ resolver \in {"browsing", "failed", "ended"}
  /\ parent \in {"live", "expired", "canceled"} /\ window \in {TRUE, FALSE}
  /\ events \in 0..MaxEvents

\* The inductive invariant of a browse.
BrowseShape == EntriesShape /\ ResultShape

\* The three outcomes of a browse can be told apart.
LEMMA Outcomes ==
    ASSUME NEW found
    PROVE  /\ Browsing!Pending.status = "pending" /\ Browsing!Failed("error").status = "error"
           /\ Browsing!Sorted(found).status = "found" /\ Browsing!Sorted(found).instances = found
  BY DEF Browsing!Pending, Browsing!Failed, Browsing!Sorted

\* A response, what stands for its absence and what stands for an ignored one
\* can be told apart.
LEMMA Heard ==
    /\ Browsing!NoEvent \notin Browsing!Instance /\ Browsing!Incompatible \notin Browsing!Instance
    /\ Browsing!NoEvent # Browsing!Incompatible
<1>1. \A inst \in Browsing!Instance : DOMAIN inst = {"id", "endpoint", "addrs"}
  BY DEF Browsing!Instance
<1>2. DOMAIN Browsing!NoEvent = {"id"} /\ DOMAIN Browsing!Incompatible = {"id"}
  BY DEF Browsing!NoEvent, Browsing!Incompatible
<1>3. {"id"} # {"id", "endpoint", "addrs"}
  OBVIOUS
<1>4. Browsing!NoEvent.id = "none" /\ Browsing!Incompatible.id = "incompatible"
  BY DEF Browsing!NoEvent, Browsing!Incompatible
<1> QED
  BY <1>1, <1>2, <1>3, <1>4

\* A response comes while the browse has not returned.
LEMMA OfferedStep ==
    ASSUME ResultShape, Browsing!Offered
    PROVE  ResultShape'
<1>1. result = Browsing!Pending /\ result' = result /\ UNCHANGED <<resolver, parent, window>>
  BY DEF Browsing!Offered
<1>2. result # Browsing!Failed("error")
  BY <1>1, Outcomes
<1>3. events' \in 0..MaxEvents
  BY BrowseAssumption DEF ResultShape, Browsing!Offered
<1> QED
  BY <1>1, <1>2, <1>3 DEF ResultShape

\* A response under a name replaces what was known of it.
LEMMA RespondStep ==
    ASSUME BrowseShape, NEW name \in Names, NEW inst \in Browsing!Instance, Browsing!Respond(name, inst)
    PROVE  BrowseShape'
<1>1. PICK D \in SUBSET Names : entriesByName \in [D -> Browsing!Instance]
  BY DEF BrowseShape, EntriesShape, Known
<1>2. entriesByName' = [n \in D \cup {name} |-> IF n = name THEN inst ELSE entriesByName[n]]
  BY <1>1 DEF Browsing!Respond
<1>3. entriesByName' \in [D \cup {name} -> Browsing!Instance]
  BY <1>1, <1>2
<1>4. entriesByName' \in Known /\ DOMAIN entriesByName' = D \cup {name}
  BY <1>3 DEF Known
<1>5. IsFiniteSet(DOMAIN entriesByName')
  <2>1. IsFiniteSet(D)
    BY <1>1 DEF BrowseShape, EntriesShape
  <2> QED
    BY <1>4, <2>1, FS_AddElement
<1>6. IsGathered(instances, entriesByName, DOMAIN entriesByName)'
  BY <1>4, <1>5, RebuildGathers DEF Browsing!Respond
<1>7. latest' \in [Names -> Browsing!Instance \cup {Browsing!NoEvent, Browsing!Incompatible}]
      /\ latest'[name] = inst /\ \A n \in Names \ {name} : latest'[n] = latest[n]
  BY DEF BrowseShape, EntriesShape, Browsing!Respond
<1>8. \A n \in Names : latest'[n] \in Browsing!Instance =>
         n \in DOMAIN entriesByName' /\ entriesByName'[n] = latest'[n]
  BY <1>1, <1>2, <1>7 DEF BrowseShape, EntriesShape
<1>9. \A n \in DOMAIN entriesByName' : latest'[n] \in {entriesByName'[n], Browsing!Incompatible}
  BY <1>1, <1>2, <1>7 DEF BrowseShape, EntriesShape
<1>10. EntriesShape'
  BY <1>4, <1>5, <1>6, <1>7, <1>8, <1>9 DEF EntriesShape
<1>11. ResultShape'
  BY OfferedStep DEF BrowseShape, Browsing!Respond
<1> QED
  BY <1>10, <1>11 DEF BrowseShape

\* A withdrawal takes away what was known of its name.
LEMMA WithdrawStep ==
    ASSUME BrowseShape, NEW name \in Names, Browsing!Withdraw(name)
    PROVE  BrowseShape'
<1>1. PICK D \in SUBSET Names : entriesByName \in [D -> Browsing!Instance]
  BY DEF BrowseShape, EntriesShape, Known
<1>2. entriesByName' = [n \in D \ {name} |-> entriesByName[n]]
  BY <1>1 DEF Browsing!Withdraw
<1>3. entriesByName' \in [D \ {name} -> Browsing!Instance]
  BY <1>1, <1>2
<1>4. entriesByName' \in Known /\ DOMAIN entriesByName' = D \ {name}
  BY <1>3 DEF Known
<1>5. IsFiniteSet(DOMAIN entriesByName')
  <2>1. IsFiniteSet(D)
    BY <1>1 DEF BrowseShape, EntriesShape
  <2>2. D \ {name} \subseteq D
    OBVIOUS
  <2> QED
    BY <1>4, <2>1, <2>2, FS_Subset
<1>6. IsGathered(instances, entriesByName, DOMAIN entriesByName)'
  BY <1>4, <1>5, RebuildGathers DEF Browsing!Withdraw
<1>7. latest' \in [Names -> Browsing!Instance \cup {Browsing!NoEvent, Browsing!Incompatible}]
      /\ latest'[name] = Browsing!NoEvent /\ \A n \in Names \ {name} : latest'[n] = latest[n]
  BY DEF BrowseShape, EntriesShape, Browsing!Withdraw
<1>8. \A n \in Names : latest'[n] \in Browsing!Instance =>
         n \in DOMAIN entriesByName' /\ entriesByName'[n] = latest'[n]
  BY <1>1, <1>2, <1>7, Heard DEF BrowseShape, EntriesShape
<1>9. \A n \in DOMAIN entriesByName' : latest'[n] \in {entriesByName'[n], Browsing!Incompatible}
  BY <1>1, <1>2, <1>7 DEF BrowseShape, EntriesShape
<1>10. EntriesShape'
  BY <1>4, <1>5, <1>6, <1>7, <1>8, <1>9 DEF EntriesShape
<1>11. ResultShape'
  BY OfferedStep DEF BrowseShape, Browsing!Withdraw
<1> QED
  BY <1>10, <1>11 DEF BrowseShape

\* A response that is ignored is heard and changes nothing.
LEMMA IgnoreStep ==
    ASSUME BrowseShape, NEW name \in Names, Browsing!Ignore(name)
    PROVE  BrowseShape'
<1>1. latest' \in [Names -> Browsing!Instance \cup {Browsing!NoEvent, Browsing!Incompatible}]
      /\ latest'[name] = Browsing!Incompatible /\ \A n \in Names \ {name} : latest'[n] = latest[n]
  BY DEF BrowseShape, EntriesShape, Browsing!Ignore
<1>2. UNCHANGED <<entriesByName, instances>>
  BY DEF Browsing!Ignore
<1>3. DOMAIN entriesByName \subseteq Names
  BY DEF BrowseShape, EntriesShape, Known
<1>4. \A n \in Names : latest'[n] \in Browsing!Instance =>
         n \in DOMAIN entriesByName /\ entriesByName[n] = latest'[n]
  BY <1>1, Heard DEF BrowseShape, EntriesShape
<1>5. \A n \in DOMAIN entriesByName : latest'[n] \in {entriesByName[n], Browsing!Incompatible}
  BY <1>1, <1>3 DEF BrowseShape, EntriesShape
<1>6. EntriesShape'
  BY <1>1, <1>2, <1>4, <1>5 DEF BrowseShape, EntriesShape
<1>7. ResultShape'
  BY OfferedStep DEF BrowseShape, Browsing!Ignore
<1> QED
  BY <1>6, <1>7 DEF BrowseShape

\* Time, the resolver and the end of the browse leave what was gathered.
LEMMA QuietStep ==
    ASSUME BrowseShape, UNCHANGED <<entriesByName, instances, latest>>, ResultShape'
    PROVE  BrowseShape'
  BY DEF BrowseShape, EntriesShape

\* Every step of a browse.
LEMMA BrowseStep ==
    ASSUME BrowseShape, [Browsing!Next]_browser
    PROVE  BrowseShape'
<1>1. ASSUME NEW name \in Names, NEW inst \in Browsing!Instance, Browsing!Respond(name, inst)
      PROVE  BrowseShape'
  BY <1>1, RespondStep
<1>2. ASSUME NEW name \in Names, Browsing!Ignore(name) PROVE BrowseShape'
  BY <1>2, IgnoreStep
<1>3. ASSUME NEW name \in Names, Browsing!Withdraw(name) PROVE BrowseShape'
  BY <1>3, WithdrawStep
<1>4. CASE Browsing!WindowEnds
  <2>1. ResultShape'
    BY <1>4, Outcomes DEF BrowseShape, ResultShape, Browsing!WindowEnds, Browsing!Done
  <2> QED
    BY <1>4, <2>1, QuietStep DEF Browsing!WindowEnds
<1>5. CASE Browsing!ParentEnds
  <2>1. ResultShape'
    BY <1>5, Outcomes DEF BrowseShape, ResultShape, Browsing!ParentEnds
  <2> QED
    BY <1>5, <2>1, QuietStep DEF Browsing!ParentEnds
<1>6. CASE Browsing!ResolverFails
  <2>1. ResultShape'
    BY <1>6, Outcomes DEF BrowseShape, ResultShape, Browsing!ResolverFails
  <2> QED
    BY <1>6, <2>1, QuietStep DEF Browsing!ResolverFails
<1>7. CASE Browsing!ResolverReturns
  <2>1. ResultShape'
    BY <1>7, Outcomes DEF BrowseShape, ResultShape, Browsing!ResolverReturns
  <2> QED
    BY <1>7, <2>1, QuietStep DEF Browsing!ResolverReturns
<1>8. CASE Browsing!ReturnOnResolver
  <2>1. ResultShape'
    BY <1>8, Outcomes DEF BrowseShape, ResultShape, Browsing!ReturnOnResolver
  <2> QED
    BY <1>8, <2>1, QuietStep DEF Browsing!ReturnOnResolver
<1>9. CASE Browsing!ReturnOnDeadline
  <2>1. ResultShape'
    BY <1>9, Outcomes DEF BrowseShape, ResultShape, Browsing!ReturnOnDeadline
  <2> QED
    BY <1>9, <2>1, QuietStep DEF Browsing!ReturnOnDeadline
<1>10. CASE UNCHANGED browser
  BY <1>10 DEF BrowseShape, EntriesShape, ResultShape, browser
<1> QED
  BY <1>1, <1>2, <1>3, <1>4, <1>5, <1>6, <1>7, <1>8, <1>9, <1>10 DEF Browsing!Next

\* Whichever way the responses were taken, the answer is the same and current.
LEMMA EveryAnswer ==
    ASSUME BrowseShape
    PROVE  BrowseInvariant
<1>1. PICK D \in SUBSET Names : entriesByName \in [D -> Browsing!Instance]
  BY DEF BrowseShape, EntriesShape, Known
<1>2. PICK m : /\ instances = m /\ IsGathered(m, entriesByName, D)
  BY <1>1 DEF BrowseShape, EntriesShape
<1>3. PICK G \in SUBSET Gateways : m \in [G -> Announced]
  BY <1>2 DEF IsGathered, Gathered
<1>4. Browsing!TypeOK
  BY <1>1, <1>2, <1>3 DEF Browsing!TypeOK, BrowseShape, ResultShape
<1>5. ASSUME result.status = "found" PROVE result.instances = m
  BY <1>2, <1>5, Outcomes DEF BrowseShape, ResultShape
<1>6. \A n \in D : entriesByName[n].endpoint \in Nat /\ entriesByName[n].id \in G
  BY <1>1, <1>2, <1>3, KnownEntries DEF IsGathered, Known
<1>7. ASSUME NEW id \in G
      PROVE  /\ m[id].endpoint = Browsing!Best(entriesByName, id).endpoint
             /\ Browsing!Range(m[id].addrs) = Browsing!Best(entriesByName, id).addrs
             /\ Browsing!IsInjective(m[id].addrs)
  <2> DEFINE own == {n \in D : entriesByName[n].id = id}
             best == {n \in own : \A k \in own : entriesByName[n].endpoint <= entriesByName[k].endpoint}
  <2>1. PICK k \in own : entriesByName[k].endpoint = m[id].endpoint
    BY <1>2, <1>3 DEF IsGathered
  <2>2. \A n \in own : m[id].endpoint <= entriesByName[n].endpoint
    BY <1>2 DEF IsGathered
  <2>3. m[id].endpoint \in Nat
    BY <1>6, <2>1
  <2>4. best = {n \in D : entriesByName[n].id = id /\ entriesByName[n].endpoint = m[id].endpoint}
    <3>1. ASSUME NEW n \in best PROVE entriesByName[n].endpoint = m[id].endpoint
      BY <1>6, <2>1, <2>2, <2>3
    <3>2. ASSUME NEW n \in own, entriesByName[n].endpoint = m[id].endpoint PROVE n \in best
      BY <2>2, <3>2
    <3> QED
      BY <3>1, <3>2
  <2>5. k \in best
    BY <2>1, <2>4
  <2>6. (CHOOSE n \in best : TRUE) \in best
    BY <2>5
  <2>7. \A l : Browsing!Range(l) = Places(l)
    BY DEF Browsing!Range, Places
  <2>8. Browsing!Best(entriesByName, id) =
          [endpoint |-> entriesByName[CHOOSE n \in best : TRUE].endpoint,
           addrs |-> UNION {Places(entriesByName[n].addrs) : n \in best}]
    BY <1>1, <2>7 DEF Browsing!Best
  <2>9. Places(m[id].addrs) = UNION {Places(entriesByName[n].addrs) : n \in best}
    <3>1. Given(entriesByName, D, id, m[id].endpoint) = UNION {Places(entriesByName[n].addrs) : n \in best}
      <4> HIDE DEF best
      <4> QED
        BY <2>4 DEF Given
    <3> QED
      BY <1>2, <1>3, <3>1 DEF IsGathered
  <2>10. Injective(m[id].addrs)
    BY <1>3 DEF Announced, Joint
  <2>11. Browsing!IsInjective(m[id].addrs)
    BY <2>10 DEF Injective, Browsing!IsInjective
  <2> HIDE DEF best
  <2>12. entriesByName[CHOOSE n \in best : TRUE].endpoint = m[id].endpoint
    BY <2>4, <2>6
  <2> QED
    BY <2>7, <2>8, <2>9, <2>11, <2>12
<1>8. Browsing!AnswerIsOrderFree
  BY <1>1, <1>2, <1>3, <1>5, <1>7 DEF Browsing!AnswerIsOrderFree, IsGathered
<1>9. Browsing!AnswerIsCurrent
  <2>1. ASSUME NEW n \in Names, latest[n] \in Browsing!Instance PROVE latest[n].id \in DOMAIN m
    BY <1>1, <1>2, <2>1 DEF BrowseShape, EntriesShape, IsGathered
  <2>2. ASSUME NEW id \in DOMAIN m
        PROVE  \E n \in Names : \/ latest[n] = Browsing!Incompatible
                                \/ (latest[n] \in Browsing!Instance /\ latest[n].id = id)
    <3>1. PICK n \in D : entriesByName[n].id = id
      BY <1>2, <2>2 DEF IsGathered
    <3>2. entriesByName[n] \in Browsing!Instance /\ n \in Names
      BY <1>1
    <3>3. latest[n] \in {entriesByName[n], Browsing!Incompatible}
      BY <1>1 DEF BrowseShape, EntriesShape
    <3> QED
      BY <3>1, <3>2, <3>3
  <2> QED
    BY <1>5, <2>1, <2>2 DEF Browsing!AnswerIsCurrent
<1>10. Browsing!PatientCallerIsAnswered
  BY Outcomes DEF Browsing!PatientCallerIsAnswered, BrowseShape, ResultShape
<1> QED
  BY <1>4, <1>8, <1>9, <1>10 DEF BrowseInvariant, Browsing!BrowseInvariant

\* The answer of a browse is what is announced, whatever arrived in which order and
\* whichever way the entries were taken: for any gateways, endpoints and names.
THEOREM BrowseSafe == Browsing!Spec => []BrowseInvariant
<1>1. Browsing!Init => BrowseShape
  <2> SUFFICES ASSUME Browsing!Init PROVE BrowseShape
    OBVIOUS
  <2>1. <<>> \in [{} -> Browsing!Instance] /\ <<>> \in [{} -> Announced] /\ DOMAIN <<>> = {}
    OBVIOUS
  <2>2. <<>> \in Known /\ <<>> \in Gathered
    BY <2>1 DEF Known, Gathered
  <2>3. IsGathered(<<>>, <<>>, {})
    BY <2>1, <2>2 DEF IsGathered
  <2>4. IsFiniteSet({})
    BY FS_EmptySet
  <2>5. entriesByName = <<>> /\ instances = <<>> /\ latest = [n \in Names |-> Browsing!NoEvent]
    BY DEF Browsing!Init
  <2>6. EntriesShape
    BY <2>1, <2>2, <2>3, <2>4, <2>5, Heard DEF EntriesShape
  <2>7. ResultShape
    <3>1. result = Browsing!Pending /\ Browsing!Pending # Browsing!Failed("error")
      BY Outcomes DEF Browsing!Init
    <3>2. events = 0 /\ 0 \in 0..MaxEvents
      BY BrowseAssumption DEF Browsing!Init
    <3>3. resolver = "browsing" /\ parent = "live" /\ window = FALSE
      BY DEF Browsing!Init
    <3> QED
      BY <3>1, <3>2, <3>3 DEF ResultShape
  <2> QED
    BY <2>6, <2>7 DEF BrowseShape
<1>2. BrowseShape /\ [Browsing!Next]_(Browsing!vars) => BrowseShape'
  <2>1. Browsing!vars = browser
    BY DEF Browsing!vars, browser
  <2> QED
    BY <2>1, BrowseStep DEF browser, Browsing!vars
<1>3. BrowseShape => BrowseInvariant
  BY EveryAnswer
<1> QED
  BY <1>1, <1>2, <1>3, PTL DEF Browsing!Spec

-----------------------------------------------------------------------------
(* A record on its way from the options of a gateway to a device.          *)

\* preferInterfaceSubnets: the addresses that are wanted, if there are any.
LEMMA ThoseAreWanted ==
    ASSUME NEW A, NEW addrs \in Seq(A), NEW wanted
    PROVE  /\ Record!Those(addrs, wanted) \in Seq(wanted)
           /\ \A i \in 1..Len(addrs) : addrs[i] \in wanted => Len(Record!Those(addrs, wanted)) > 0
<1>1. PICK N \in Nat : Len(addrs) = N
  OBVIOUS
<1> DEFINE Add(s, a) == IF a \in wanted THEN Append(s, a) ELSE s
<1>2. \A s \in Seq(wanted), a \in A : Add(s, a) \in Seq(wanted)
  OBVIOUS
<1>3. PICK by : by = [k \in 1..N |-> [s \in Seq(wanted) |-> Add(s, addrs[k])]]
  OBVIOUS
<1>4. /\ by \in [1..N -> [Seq(wanted) -> Seq(wanted)]]
      /\ \A k \in 1..N, s \in Seq(wanted) : by[k][s] = Add(s, addrs[k])
  <2>1. \A k \in 1..N : addrs[k] \in A
    BY <1>1
  <2> HIDE DEF Add
  <2> QED
    BY <1>2, <1>3, <2>1
<1>5. PICK f : Recursion(f, N, Seq(wanted), <<>>, by)
  <2>1. <<>> \in Seq(wanted)
    OBVIOUS
  <2> QED
    BY <1>4, <2>1, RecursiveFunction
<1>6. f \in [0..N -> Seq(wanted)] /\ f[0] = <<>> /\ \A k \in 1..N : f[k] = by[k][f[k - 1]]
  BY <1>5 DEF Recursion
<1>7. \A k \in 1..N : k - 1 \in 0..N /\ f[k] = Add(f[k - 1], addrs[k])
  <2> HIDE DEF Add
  <2> QED
    BY <1>4, <1>6
<1>8. f = [k \in 0..N |-> IF k = 0 THEN <<>> ELSE Add(f[k - 1], addrs[k])]
  <2> HIDE DEF Add
  <2>1. ASSUME NEW k \in 0..N PROVE f[k] = IF k = 0 THEN <<>> ELSE Add(f[k - 1], addrs[k])
    BY <1>6, <1>7
  <2> QED
    BY <1>6, <2>1
<1>9. PICK g : /\ g = [k \in 0..N |-> IF k = 0 THEN <<>> ELSE Add(g[k - 1], addrs[k])]
               /\ Record!Those(addrs, wanted) = g[N]
  <2>1. f = [k \in 0..N |-> IF k = 0 THEN <<>>
                            ELSE IF addrs[k] \in wanted THEN Append(f[k - 1], addrs[k])
                            ELSE f[k - 1]]
    BY <1>8
  <2> QED
    BY <1>1, <2>1 DEF Record!Those
<1> HIDE DEF Add
<1> DEFINE Kept(k) == \A i \in 1..k : addrs[i] \in wanted => Len(g[k]) > 0
           T == {k \in 0..N : g[k] \in Seq(wanted) /\ Kept(k)}
<1>10. 0 \in T
  BY <1>9
<1>11. ASSUME NEW k \in 1..N, k - 1 \in T PROVE k \in T
  <2>1. g[k] = Add(g[k - 1], addrs[k]) /\ addrs[k] \in A
    BY <1>1, <1>9
  <2>2. PICK s \in Seq(wanted) : g[k - 1] = s
    BY <1>11
  <2>3. \A i \in 1..k - 1 : addrs[i] \in wanted => Len(s) > 0
    BY <1>11, <2>2
  <2>4. CASE addrs[k] \in wanted
    <3>1. g[k] = Append(s, addrs[k])
      BY <2>1, <2>2, <2>4 DEF Add
    <3>2. Append(s, addrs[k]) \in Seq(wanted) /\ Len(Append(s, addrs[k])) > 0
      BY <2>4
    <3>3. PICK u \in Seq(wanted) : g[k] = u /\ Len(u) > 0
      BY <3>1, <3>2
    <3>4. Kept(k)
      BY <3>3
    <3> QED
      BY <3>3, <3>4
  <2>5. CASE addrs[k] \notin wanted
    <3>1. g[k] = s
      BY <2>1, <2>2, <2>5 DEF Add
    <3>2. \A i \in 1..k : addrs[i] \in wanted => i \in 1..k - 1
      BY <2>5
    <3> QED
      BY <2>3, <3>1, <3>2
  <2> QED
    BY <2>4, <2>5
<1>12. N \in T
  <2>1. T \in SUBSET (0..N)
    OBVIOUS
  <2> HIDE DEF T
  <2>2. T = 0..N
    BY <1>10, <1>11, <2>1, Upwards
  <2> QED
    BY <2>2
<1> QED
  BY <1>1, <1>9, <1>12

\* Sequences joined.
LEMMA Joined ==
    ASSUME NEW S, NEW w \in Seq(S), NEW c \in Seq(S)
    PROVE  /\ w \o c \in Seq(S) /\ Len(w \o c) = Len(w) + Len(c)
           /\ \A i \in 1..Len(w) : (w \o c)[i] = w[i]
           /\ \A i \in 1..Len(c) : (w \o c)[Len(w) + i] = c[i]
  OBVIOUS

\* A sequence is one of a larger set.
LEMMA Widened ==
    ASSUME NEW S, NEW U, S \subseteq U, NEW s \in Seq(S)
    PROVE  s \in Seq(U)
  OBVIOUS

\* The length of a sequence.
LEMMA LengthIs ==
    ASSUME NEW S, NEW s \in Seq(S)
    PROVE  Len(s) \in Nat
  OBVIOUS

\* The first of a sequence.
LEMMA HeadIs ==
    ASSUME NEW S, NEW s \in Seq(S), Len(s) > 0
    PROVE  s # <<>> /\ Head(s) = s[1] /\ s[1] \in S
  OBVIOUS

\* Two strings one after the other.
LEMMA Pair ==
    ASSUME NEW a, NEW b
    PROVE  /\ <<a, b>> \in Seq({a, b}) /\ Len(<<a, b>>) = 2
           /\ <<a, b>>[1] = a /\ <<a, b>>[2] = b
  OBVIOUS

\* The device has the address on its own network before the others.
LEMMA NearestFirst ==
    ASSUME NEW far, NEW near
    PROVE  /\ Record!PreferInterfaceSubnets(<<far, near>>, {near}) # <<>>
           /\ Head(Record!PreferInterfaceSubnets(<<far, near>>, {near})) = near
<1>1. PICK both : <<far, near>> = both
  OBVIOUS
<1>2. both \in Seq({far, near}) /\ Len(both) = 2 /\ both[2] = near
  BY <1>1, Pair
<1>3. PICK p : Record!Those(both, {near}) = p
  OBVIOUS
<1>4. p \in Seq({near}) /\ Len(p) > 0
  <2>1. 2 \in 1..Len(both)
    BY <1>2
  <2>2. both[2] \in {near}
    BY <1>2
  <2> QED
    BY <1>2, <1>3, <2>1, <2>2, ThoseAreWanted
<1>5. PICK R : {both[i] : i \in DOMAIN both} \ {near} = R
  OBVIOUS
<1>6. PICK q : Record!Those(both, R) = q
  OBVIOUS
<1>7. q \in Seq(R)
  BY <1>2, <1>6, ThoseAreWanted
<1>8. PICK U : U = {near} \cup R
  OBVIOUS
<1>9. p \in Seq(U) /\ q \in Seq(U)
  <2>1. {near} \subseteq U /\ R \subseteq U
    BY <1>8
  <2> QED
    BY <1>4, <1>7, <2>1, Widened
<1>10. PICK r : p \o q = r
  OBVIOUS
<1>11. r \in Seq(U) /\ Len(r) > 0 /\ r[1] = p[1]
  <2>1. /\ r \in Seq(U) /\ Len(r) = Len(p) + Len(q)
        /\ \A i \in 1..Len(p) : r[i] = p[i]
    BY <1>9, <1>10, Joined
  <2>2. PICK l \in Nat : Len(p) = l
    BY <1>4, LengthIs
  <2>3. PICK k \in Nat : Len(q) = k
    BY <1>7, LengthIs
  <2>4. 1 \in 1..l /\ l + k > 0
    BY <1>4, <2>2
  <2> QED
    BY <2>1, <2>2, <2>3, <2>4
<1>12. p[1] = near
  BY <1>4, HeadIs
<1>13. Record!PreferInterfaceSubnets(both, {near}) = r
  BY <1>3, <1>5, <1>6, <1>10 DEF Record!PreferInterfaceSubnets
<1> QED
  BY <1>1, <1>11, <1>12, <1>13, HeadIs

\* The last value of a key is the one at its last place.
LEMMA LastValue ==
    ASSUME NEW t, NEW key, NEW default, DOMAIN t \subseteq Nat, NEW i \in DOMAIN t,
           t[i].key = key, t[i].found, \A j \in DOMAIN t : t[j].key = key => j <= i
    PROVE  Record!ValueOf(t, key, default) = t[i].value
<1> DEFINE at == {j \in DOMAIN t : t[j].key = key /\ t[j].found}
<1>1. i \in at /\ at \subseteq Nat /\ \A j \in at : j <= i
  OBVIOUS
<1> HIDE DEF at
<1>2. \A j \in at : (\A k \in at : k <= j) => j = i
  BY <1>1
<1>3. (CHOOSE j \in at : \A k \in at : k <= j) = i
  BY <1>1, <1>2
<1>4. at # {}
  BY <1>1
<1> QED
  BY <1>3, <1>4 DEF Record!ValueOf, at

\* Four strings one after the other.
LEMMA Four ==
    ASSUME NEW a, NEW b, NEW c, NEW d
    PROVE  /\ <<a, b, c, d>> \in Seq({a, b, c, d}) /\ Len(<<a, b, c, d>>) = 4
           /\ <<a, b, c, d>>[1] = a /\ <<a, b, c, d>>[2] = b
           /\ <<a, b, c, d>>[3] = c /\ <<a, b, c, d>>[4] = d
  OBVIOUS

\* One string.
LEMMA One ==
    ASSUME NEW a
    PROVE  <<a>> \in Seq({a}) /\ Len(<<a>>) = 1 /\ <<a>>[1] = a
  OBVIOUS

\* The four strings of a record, and one more that somebody appended.
LEMMA TextOfEntry ==
    ASSUME NEW txt, NEW more \in Record!Extras, NEW t, Record!Encode(txt) \o more = t
    PROVE  /\ DOMAIN t = 1..4 + Len(more) /\ Len(more) \in 0..1
           /\ t[1] = Record!Text("protocol", txt.protocol) /\ t[2] = Record!Text("server_id", txt.id)
           /\ t[3] = Record!Text("tls", IF txt.tls THEN "1" ELSE "0")
           /\ t[4] = Record!Text("path", IF txt.path = Record!Empty THEN Record!DefaultPath ELSE txt.path)
           /\ Len(more) = 1 => t[5] = more[1]
<1>1. PICK a : Record!Text("protocol", txt.protocol) = a
  OBVIOUS
<1>2. PICK b : Record!Text("server_id", txt.id) = b
  OBVIOUS
<1>3. PICK c : Record!Text("tls", IF txt.tls THEN "1" ELSE "0") = c
  OBVIOUS
<1>4. PICK d : Record!Text("path", IF txt.path = Record!Empty THEN Record!DefaultPath ELSE txt.path) = d
  OBVIOUS
<1>5. PICK w : <<a, b, c, d>> = w
  OBVIOUS
<1>6. Record!Encode(txt) = w
  BY <1>1, <1>2, <1>3, <1>4, <1>5 DEF Record!Encode
<1>7. w \in Seq({a, b, c, d}) /\ Len(w) = 4 /\ w[1] = a /\ w[2] = b /\ w[3] = c /\ w[4] = d
  BY <1>5, Four
<1>8. PICK x : more = <<>> \/ more = <<x>>
  BY DEF Record!Extras
<1>9. more \in Seq({x}) /\ Len(more) \in 0..1
  <2>1. CASE more = <<>>
    BY <2>1
  <2>2. CASE more = <<x>>
    BY <2>2, One
  <2> QED
    BY <1>8, <2>1, <2>2
<1>10. PICK S : S = {a, b, c, d, x}
  OBVIOUS
<1>11. w \in Seq(S) /\ more \in Seq(S)
  <2>1. {a, b, c, d} \subseteq S /\ {x} \subseteq S
    BY <1>10
  <2> QED
    BY <1>7, <1>9, <2>1, Widened
<1>12. t = w \o more
  BY <1>6
<1>13. /\ t \in Seq(S) /\ Len(t) = Len(w) + Len(more)
       /\ \A i \in 1..Len(w) : t[i] = w[i]
       /\ \A i \in 1..Len(more) : t[Len(w) + i] = more[i]
  <2>1. PICK m : more = m
    OBVIOUS
  <2>2. /\ w \o m \in Seq(S) /\ Len(w \o m) = Len(w) + Len(m)
        /\ \A i \in 1..Len(w) : (w \o m)[i] = w[i]
        /\ \A i \in 1..Len(m) : (w \o m)[Len(w) + i] = m[i]
    BY <1>11, <2>1, Joined
  <2> QED
    BY <1>12, <2>1, <2>2, Zenon
<1>14. PICK l \in 0..1 : Len(more) = l
  BY <1>9
<1>15. DOMAIN t = 1..4 + l
  BY <1>7, <1>13, <1>14
<1>16. l = 1 => t[5] = more[1]
  BY <1>7, <1>13, <1>14
<1>17. t[1] = a /\ t[2] = b /\ t[3] = c /\ t[4] = d
  BY <1>7, <1>13
<1> QED
  BY <1>1, <1>2, <1>3, <1>4, <1>9, <1>14, <1>15, <1>16, <1>17

\* The service a gateway publishes under its options, as a device receives it.
LEMMA EntryIs ==
    ASSUME NEW inst, Record!Advertisement(options) = inst
    PROVE  /\ Record!entry.hostname = Record!ForkHostname(Record!ProxyHost(inst.host))
           /\ Record!entry.port = inst.port
           /\ Record!entry.addrs # <<>> /\ Head(Record!entry.addrs) = "lan"
           /\ Record!entry.text = Record!Encode(inst.txt) \o extra
<1>1. PICK text : Record!Encode(inst.txt) = text
  OBVIOUS
<1>2. PICK near : Record!PreferInterfaceSubnets(<<"vm", "lan">>, {"lan"}) = near
  OBVIOUS
<1>3. near # <<>> /\ Head(near) = "lan"
  BY <1>2, NearestFirst
<1>4. Record!entry = [hostname |-> Record!ForkHostname(Record!ProxyHost(inst.host)), port |-> inst.port,
                      addrs |-> near, text |-> text \o extra]
  <2>1. PICK host : Record!ForkHostname(Record!ProxyHost(inst.host)) = host
    OBVIOUS
  <2>2. PICK port : inst.port = port
    OBVIOUS
  <2>3. Record!Publish(inst, <<"vm", "lan">>)
        = [hostname |-> host, port |-> port, addrs |-> <<"vm", "lan">>, text |-> text]
    BY <1>1, <2>1, <2>2 DEF Record!Publish
  <2>4. PICK both : <<"vm", "lan">> = both
    OBVIOUS
  <2>5. PICK all : text \o extra = all
    OBVIOUS
  <2>6. [[hostname |-> host, port |-> port, addrs |-> both, text |-> text] EXCEPT !.text = @ \o extra]
        = [hostname |-> host, port |-> port, addrs |-> both, text |-> all]
    <3>1. \A x : [[hostname |-> host, port |-> port, addrs |-> both, text |-> text] EXCEPT !.text = x]
                 = [hostname |-> host, port |-> port, addrs |-> both, text |-> x]
      OBVIOUS
    <3>2. [hostname |-> host, port |-> port, addrs |-> both, text |-> text].text = text
      OBVIOUS
    <3> QED
      BY <2>5, <3>1, <3>2, Zenon
  <2>7. [[hostname |-> host, port |-> port, addrs |-> both, text |-> all]
         EXCEPT !.addrs = Record!PreferInterfaceSubnets(@, {"lan"})]
        = [hostname |-> host, port |-> port, addrs |-> near, text |-> all]
    BY <1>2, <2>4
  <2>8. Record!entry =
          Record!Received([hostname |-> host, port |-> port, addrs |-> both, text |-> all], {"lan"})
    BY <2>3, <2>4, <2>6, Zenon DEF Record!entry
  <2> QED
    BY <2>1, <2>2, <2>5, <2>7, <2>8, Zenon DEF Record!Received
<1> QED
  BY <1>1, <1>3, <1>4

\* A name without its dot.
LEMMA WithoutDot ==
    ASSUME NEW label, NEW domain, NEW dot
    PROVE  Record!TrimDot([label |-> label, domain |-> domain, dot |-> dot])
           = [label |-> label, domain |-> domain, dot |-> FALSE]
<1>1. \A no : [[label |-> label, domain |-> domain, dot |-> dot] EXCEPT !.dot = no]
              = [label |-> label, domain |-> domain, dot |-> no]
  OBVIOUS
<1> QED
  BY <1>1, Zenon DEF Record!TrimDot

\* The host of a service is one of the mDNS domain, and the host the gateway was
\* configured with if that was one.
LEMMA PublishedHost ==
    ASSUME NEW host \in Record!HostNames(Labels) \cup {Record!NoHost}
    PROVE  LET published == Record!ForkHostname(Record!ProxyHost(host))
           IN  /\ Record!IsLocal(Record!TrimDot(published))
               /\ Record!IsLocal(host) => Record!TrimDot(published) = Record!TrimDot(host)
<1>1. PICK label, domain, dot : domain \in Record!Domains
                               /\ [label |-> label, domain |-> domain, dot |-> dot] = host
  <2>1. CASE host \in Record!HostNames(Labels)
    <3>1. \A L, D, B : \A h \in [label : L, domain : D, dot : B] :
              [label |-> h.label, domain |-> h.domain, dot |-> h.dot] = h /\ h.domain \in D
      OBVIOUS
    <3>2. host \in [label : Labels, domain : Record!Domains, dot : BOOLEAN]
      BY <2>1 DEF Record!HostNames
    <3>3. /\ [label |-> host.label, domain |-> host.domain, dot |-> host.dot] = host
          /\ host.domain \in Record!Domains
      BY <3>1, <3>2, Zenon
    <3> QED
      BY <3>3, Zenon
  <2>2. CASE host = Record!NoHost
    <3>1. "none" \in Record!Domains
      BY DEF Record!Domains
    <3>2. [label |-> Record!Empty, domain |-> "none", dot |-> FALSE] = host
      BY <2>2, Zenon DEF Record!NoHost
    <3> QED
      BY <3>1, <3>2, Zenon
  <2> QED
    BY <2>1, <2>2
<1>2. Record!TrimDot(host) = [label |-> label, domain |-> domain, dot |-> FALSE]
  BY <1>1, WithoutDot
<1>3. PICK left : (CASE domain = "local" -> "none"
                    [] domain = "dns.local" -> "dns"
                    [] OTHER -> domain) = left
  OBVIOUS
<1>4. Record!ProxyHost(host) = [label |-> label, domain |-> left, dot |-> FALSE]
  <2>1. PICK no : FALSE = no
    OBVIOUS
  <2>2. host.domain = domain /\ [label |-> label, domain |-> domain, dot |-> no].domain = domain
    BY <1>1
  <2>3. [[label |-> label, domain |-> domain, dot |-> no] EXCEPT !.domain = left]
        = [label |-> label, domain |-> left, dot |-> no]
    OBVIOUS
  <2>4. Record!ProxyHost(host) = [Record!TrimDot(host) EXCEPT !.domain = left]
    BY <1>2, <1>3, <2>1, <2>2 DEF Record!ProxyHost
  <2> QED
    BY <1>2, <2>1, <2>3, <2>4
<1>5. PICK back : (IF left = "dns" THEN "dns.local" ELSE "local") = back
  OBVIOUS
<1>6. Record!ForkHostname(Record!ProxyHost(host)) = [label |-> label, domain |-> back, dot |-> FALSE]
  <2>1. PICK no : FALSE = no
    OBVIOUS
  <2>2. [[label |-> label, domain |-> left, dot |-> no] EXCEPT !.domain = back]
        = [label |-> label, domain |-> back, dot |-> no]
    OBVIOUS
  <2>3. [label |-> label, domain |-> left, dot |-> no].domain = left
    OBVIOUS
  <2> QED
    BY <1>4, <1>5, <2>1, <2>2, <2>3 DEF Record!ForkHostname
<1>7. Record!TrimDot([label |-> label, domain |-> back, dot |-> FALSE])
      = [label |-> label, domain |-> back, dot |-> FALSE]
  BY WithoutDot
<1>8. back \in {"local", "dns.local"} /\ (domain \in {"local", "dns.local"} => back = domain)
  BY <1>3, <1>5
<1> QED
  <2>1. PICK no : FALSE = no
    OBVIOUS
  <2>2. Record!IsLocal([label |-> label, domain |-> back, dot |-> no])
    BY <1>8 DEF Record!IsLocal
  <2>3. Record!IsLocal(host) => domain \in {"local", "dns.local"}
    BY <1>1 DEF Record!IsLocal
  <2> QED
    BY <1>2, <1>6, <1>7, <1>8, <2>1, <2>2, <2>3

\* The device path is not the empty one.
LEMMA Written ==
    Record!DefaultPath = "device" /\ "device" # Record!Empty
  BY Zenon DEF Record!DefaultPath, Record!Empty

\* The text of a record nobody added anything to.
LEMMA TextUnchanged ==
    ASSUME NEW txt, NEW t, Record!Encode(txt) \o <<>> = t
    PROVE  /\ DOMAIN t = 1..4
           /\ t[1] = Record!Text("protocol", txt.protocol) /\ t[2] = Record!Text("server_id", txt.id)
           /\ t[3] = Record!Text("tls", IF txt.tls THEN "1" ELSE "0")
           /\ t[4] = Record!Text("path", IF txt.path = Record!Empty THEN Record!DefaultPath ELSE txt.path)
<1>1. PICK none : <<>> = none
  OBVIOUS
<1>2. none \in Record!Extras
  BY <1>1 DEF Record!Extras
<1>3. Len(none) = 0
  BY <1>1
<1>4. Record!Encode(txt) \o none = t
  BY <1>1
<1>5. DOMAIN t = 1..4 + Len(none)
  BY <1>2, <1>4, TextOfEntry
<1>6. DOMAIN t = 1..4
  BY <1>3, <1>5
<1> QED
  BY <1>2, <1>4, <1>6, TextOfEntry

\* Whatever a gateway may advertise, the device that receives it finds the gateway.
LEMMA AdvertisedFound ==
    ASSUME options \in Record!Options, extra \in Record!Extras
    PROVE  Record!FoundAsAdvertised
<1> SUFFICES ASSUME extra = <<>>, Record!Advertisable(Record!Advertisement(options))
             PROVE  LET inst == Record!Advertisement(options)
                        found == Record!FromEntry(Record!entry)
                    IN  /\ Record!Accepted(Record!entry) /\ found.id = inst.id
                        /\ Record!EndpointURL(found).scheme = "wss"
                        /\ Record!EndpointURL(found).host = "lan"
                        /\ Record!EndpointURL(found).port = Record!EndpointURL(inst).port
                        /\ Record!EndpointURL(found).path = Record!EndpointURL(inst).path
                        /\ Record!IsLocal(inst.host) =>
                               Record!TLSServerName(found) = Record!TrimDot(inst.host)
  BY DEF Record!FoundAsAdvertised
<1>1. PICK inst : Record!Advertisement(options) = inst
  OBVIOUS
<1>2. PICK id, host, port, path : /\ options.id = id /\ options.host = host
                                  /\ options.port = port /\ options.path = path
  OBVIOUS
<1>3. PICK txt : [protocol |-> 1, id |-> id, tls |-> TRUE, path |-> path] = txt
  OBVIOUS
<1>4. [id |-> id, host |-> host, port |-> port, addrs |-> <<>>, txt |-> txt] = inst
  BY <1>1, <1>2, <1>3 DEF Record!Advertisement
<1>5. host \in Record!HostNames(Labels) \cup {Record!NoHost}
  BY <1>2 DEF Record!Options
<1>6. id # Record!Empty /\ port \in 1..Record!MaxPort /\ path = "device" /\ txt.path = "device"
  <2>1. Record!ValidInstance(inst) /\ inst.port # 0 /\ inst.txt.path = Record!DefaultPath
    BY <1>1 DEF Record!Advertisable
  <2>2. inst.id # Record!Empty /\ inst.port \in 0..Record!MaxPort
    BY <2>1 DEF Record!ValidInstance
  <2> QED
    BY <1>3, <1>4, <2>1, <2>2 DEF Record!DefaultPath
<1>7. PICK t : Record!entry.text = t
  OBVIOUS
<1>8. /\ DOMAIN t = 1..4
      /\ t[1] = Record!Text("protocol", 1) /\ t[2] = Record!Text("server_id", id)
      /\ t[3] = Record!Text("tls", "1") /\ t[4] = Record!Text("path", "device")
  <2>1. Record!Encode(txt) \o extra = t
    BY <1>1, <1>4, <1>7, EntryIs
  <2>2. /\ DOMAIN t = 1..4
        /\ t[1] = Record!Text("protocol", txt.protocol) /\ t[2] = Record!Text("server_id", txt.id)
        /\ t[3] = Record!Text("tls", IF txt.tls THEN "1" ELSE "0")
        /\ t[4] = Record!Text("path", IF txt.path = Record!Empty THEN Record!DefaultPath ELSE txt.path)
    BY <2>1, TextUnchanged
  <2>4. txt.protocol = 1 /\ txt.id = id /\ txt.tls /\ txt.path = "device"
    BY <1>3, <1>6
  <2> QED
    BY <2>2, <2>4, Written
<1>9. /\ t[1].key = "protocol" /\ t[1].value = 1 /\ t[1].found
      /\ t[2].key = "server_id" /\ t[2].value = id /\ t[2].found
      /\ t[3].key = "tls" /\ t[3].value = "1" /\ t[3].found
      /\ t[4].key = "path" /\ t[4].value = "device" /\ t[4].found
  BY <1>8 DEF Record!Text
<1>10. /\ Record!ValueOf(t, "protocol", 0) = 1 /\ Record!ValueOf(t, "server_id", Record!Empty) = id
       /\ Record!ValueOf(t, "tls", "0") = "1" /\ Record!ValueOf(t, "path", Record!Empty) = "device"
  <2>1. Record!ValueOf(t, "protocol", 0) = t[1].value
    <3>1. \A j \in DOMAIN t : t[j].key = "protocol" => j <= 1
      BY <1>8, <1>9
    <3>2. DOMAIN t \subseteq Nat /\ 1 \in DOMAIN t
      BY <1>8
    <3>3. t[1].key = "protocol" /\ t[1].found
      BY <1>9
    <3> QED
      BY <3>1, <3>2, <3>3, LastValue
  <2>2. Record!ValueOf(t, "server_id", Record!Empty) = t[2].value
    <3>1. \A j \in DOMAIN t : t[j].key = "server_id" => j <= 2
      BY <1>8, <1>9
    <3>2. DOMAIN t \subseteq Nat /\ 2 \in DOMAIN t
      BY <1>8
    <3>3. t[2].key = "server_id" /\ t[2].found
      BY <1>9
    <3> QED
      BY <3>1, <3>2, <3>3, LastValue
  <2>3. Record!ValueOf(t, "tls", "0") = t[3].value
    <3>1. \A j \in DOMAIN t : t[j].key = "tls" => j <= 3
      BY <1>8, <1>9
    <3>2. DOMAIN t \subseteq Nat /\ 3 \in DOMAIN t
      BY <1>8
    <3>3. t[3].key = "tls" /\ t[3].found
      BY <1>9
    <3> QED
      BY <3>1, <3>2, <3>3, LastValue
  <2>4. Record!ValueOf(t, "path", Record!Empty) = t[4].value
    <3>1. \A j \in DOMAIN t : t[j].key = "path" => j <= 4
      BY <1>8, <1>9
    <3>2. DOMAIN t \subseteq Nat /\ 4 \in DOMAIN t
      BY <1>8
    <3>3. t[4].key = "path" /\ t[4].found
      BY <1>9
    <3> QED
      BY <3>1, <3>2, <3>3, LastValue
  <2> QED
    BY <1>9, <2>1, <2>2, <2>3, <2>4
<1>11. Record!ParseTXT(t) = [protocol |-> 1, id |-> id, tls |-> TRUE, path |-> "device"]
  <2>1. "device" # Record!Empty
    BY Written
  <2>2. ("1" \in {"1", "true", "TRUE"}) = TRUE
    OBVIOUS
  <2> QED
    BY <1>10, <2>1, <2>2, Zenon DEF Record!ParseTXT
<1>12. PICK published : Record!ForkHostname(Record!ProxyHost(host)) = published
  OBVIOUS
<1>13. PICK addrs : Record!entry.addrs = addrs
  OBVIOUS
<1>14. addrs # <<>> /\ Head(addrs) = "lan" /\ Record!entry.port = port
       /\ Record!entry.hostname = published
  BY <1>1, <1>4, <1>12, <1>13, EntryIs
<1>15. PICK parsed : [protocol |-> 1, id |-> id, tls |-> TRUE, path |-> "device"] = parsed
  OBVIOUS
<1>16. PICK found : [id |-> id, host |-> published, port |-> port, addrs |-> addrs, txt |-> parsed] = found
  OBVIOUS
<1>17. Record!FromEntry(Record!entry) = found
  BY <1>7, <1>11, <1>13, <1>14, <1>15, <1>16 DEF Record!FromEntry
<1>18. /\ Record!IsLocal(Record!TrimDot(published))
       /\ Record!IsLocal(host) => Record!TrimDot(published) = Record!TrimDot(host)
  BY <1>5, <1>12, PublishedHost
<1>19. found.addrs # <<>> /\ Record!IsLocal(Record!TrimDot(found.host)) /\ Record!ByAddress(found)
  BY <1>14, <1>16, <1>18 DEF Record!ByAddress
<1>20. Record!Readable(t)
  <2>1. ASSUME NEW i \in DOMAIN t
        PROVE  t[i].key # "credential" /\ (t[i].key = "protocol" /\ t[i].found => t[i].value \in Nat)
    BY <1>8, <1>9
  <2> QED
    BY <2>1 DEF Record!Readable
<1>21. Record!Accepted(Record!entry)
  <2>1. Record!ValidTXT(parsed)
    BY <1>6, <1>15 DEF Record!ValidTXT
  <2>2. Record!HasEndpoint(found)
    BY <1>19 DEF Record!HasEndpoint
  <2>3. found.id = id /\ found.port = port /\ found.txt = parsed /\ parsed.id = id
    BY <1>15, <1>16
  <2>4. Record!ValidInstance(found)
    BY <1>6, <2>1, <2>2, <2>3 DEF Record!ValidInstance
  <2> QED
    BY <1>6, <1>7, <1>14, <1>17, <1>20, <2>4 DEF Record!Accepted
<1>22. /\ Record!EndpointURL(found).scheme = "wss" /\ Record!EndpointURL(found).host = "lan"
       /\ Record!EndpointURL(found).port = port /\ Record!EndpointURL(found).path = "device"
  <2>1. found.txt.tls /\ found.port = port /\ port # 0 /\ found.txt.path = "device" /\ found.addrs = addrs
    BY <1>6, <1>15, <1>16
  <2> QED
    BY <1>14, <1>19, <2>1, Written DEF Record!EndpointURL
<1>23. Record!EndpointURL(inst).port = port /\ Record!EndpointURL(inst).path = "device"
  <2>1. inst.port = port /\ port # 0 /\ inst.txt.path = "device"
    BY <1>4, <1>6
  <2> QED
    BY <2>1, Written DEF Record!EndpointURL
<1>24. Record!IsLocal(host) => Record!TLSServerName(found) = Record!TrimDot(host)
  <2>1. found.host = published
    BY <1>16
  <2> QED
    BY <1>18, <1>19, <2>1 DEF Record!TLSServerName
<1>25. found.id = id /\ inst.id = id /\ inst.host = host
  BY <1>4, <1>16
<1> QED
  BY <1>1, <1>17, <1>21, <1>22, <1>23, <1>24, <1>25

\* A record with a credential is refused, and one whose TLS mark was taken back is
\* not dialled over TLS.
LEMMA TamperedRefused ==
    ASSUME options \in Record!Options, extra \in Record!Extras
    PROVE  Record!TamperedIsNotTrusted
<1>1. PICK inst : Record!Advertisement(options) = inst
  OBVIOUS
<1>2. PICK t : Record!entry.text = t
  OBVIOUS
<1>3. Record!Encode(inst.txt) \o extra = t
  BY <1>1, <1>2, EntryIs
<1>4. PICK l \in 0..1 : Len(extra) = l
  BY <1>3, TextOfEntry
<1>5. /\ DOMAIN t = 1..4 + l /\ (l = 1 => t[5] = extra[1])
      /\ t[1] = Record!Text("protocol", inst.txt.protocol) /\ t[2] = Record!Text("server_id", inst.txt.id)
  BY <1>3, <1>4, TextOfEntry
<1>6. DOMAIN extra = 1..l
  <2>1. PICK x : extra = <<>> \/ extra = <<x>>
    BY DEF Record!Extras
  <2>2. CASE extra = <<>>
    BY <1>4, <2>2
  <2>3. CASE extra = <<x>>
    BY <1>4, <2>3
  <2> QED
    BY <2>1, <2>2, <2>3
<1>7. ASSUME NEW i \in DOMAIN extra, extra[i].key = "credential" PROVE ~Record!Accepted(Record!entry)
  <2>1. i = 1 /\ l = 1
    BY <1>6
  <2>2. 5 \in DOMAIN t /\ t[5].key = "credential"
    BY <1>5, <1>7, <2>1
  <2>3. ~Record!Readable(t)
    BY <2>2 DEF Record!Readable
  <2> QED
    BY <1>2, <2>3 DEF Record!Accepted
<1>8. ASSUME NEW i \in DOMAIN extra, extra[i].key = "tls", extra[i].found
      PROVE  Record!EndpointURL(Record!FromEntry(Record!entry)).scheme = "ws"
  <2>1. i = 1 /\ l = 1
    BY <1>6
  <2>2. DOMAIN t = 1..5 /\ 5 \in 1..5 /\ t[5].key = "tls" /\ t[5].found /\ t[5] = extra[1]
    BY <1>5, <1>8, <2>1
  <2>3. Record!ValueOf(t, "tls", "0") = t[5].value
    <3>1. \A j \in DOMAIN t : t[j].key = "tls" => j <= 5
      BY <2>2
    <3>2. DOMAIN t \subseteq Nat /\ 5 \in DOMAIN t
      BY <2>2
    <3> QED
      BY <2>2, <3>1, <3>2, LastValue
  <2>4. extra[1].value \in {"0", "bad"}
    <3>1. PICK x : extra = <<x>> /\ x.value \in {"0", "bad"}
      BY <1>6, <2>1 DEF Record!Extras
    <3> QED
      BY <3>1, One
  <2>5. ~(Record!ValueOf(t, "tls", "0") \in {"1", "true", "TRUE"})
    BY <2>2, <2>3, <2>4
  <2>6. ~Record!ParseTXT(t).tls
    BY <2>5 DEF Record!ParseTXT
  <2>7. ~Record!FromEntry(Record!entry).txt.tls
    BY <1>2, <2>6 DEF Record!FromEntry
  <2> QED
    BY <2>7 DEF Record!EndpointURL
<1> QED
  BY <1>7, <1>8 DEF Record!TamperedIsNotTrusted

-----------------------------------------------------------------------------
(* The servers of an advertisement.                                        *)

\* The host has its interfaces in an order, and an advertisement that names
\* addresses names one.
HostShape ==
  /\ \E n \in Nat : DOMAIN ifaces = 1..n
  /\ configured # <<>> => Advertise!Range(configured) # {}

\* What was selected is what the configuration asks for, and nothing else is
\* published.
AdvertiserShape ==
  /\ HostShape
  /\ advertising \in {"select", "register", "serving", "failed", "stopped"}
  /\ advertising \in {"select", "failed", "stopped"} => servers = {}
  /\ advertising \in {"register", "serving"} =>
         Advertise!Selectable /\ targets = Advertise!AdvertisementTargets /\ servers \subseteq targets
  /\ advertising = "serving" => servers = targets

\* A set of numbers up to some number that is not empty has a greatest member.
LEMMA Greatest ==
    ASSUME NEW n \in Nat, NEW T \in SUBSET (1..n), T # {}
    PROVE  \E x \in T : \A y \in T : y <= x
<1> DEFINE D == {n - x : x \in T}
<1>1. D \in SUBSET Nat
  <2>1. \A x \in 1..n : n - x \in Nat
    OBVIOUS
  <2> QED
    BY <2>1
<1>0. D # {}
  <2>1. PICK x : x \in T
    OBVIOUS
  <2>2. n - x \in D
    BY <2>1
  <2> QED
    BY <2>2
<1> HIDE DEF D
<1>2. PICK d \in D : \A c \in D : d <= c
  BY <1>0, <1>1, NatMin
<1>3. PICK x \in T : d = n - x
  BY DEF D
<1>4. ASSUME NEW y \in T PROVE y <= x
  <2>1. n - y \in D
    BY DEF D
  <2>2. n - x <= n - y
    BY <1>2, <1>3, <2>1
  <2>3. x \in 1..n /\ y \in 1..n
    OBVIOUS
  <2> QED
    BY <2>2, <2>3
<1> QED
  BY <1>4

\* The interface that is given a configured address is one that has it.
LEMMA OwnerHas ==
    ASSUME HostShape, NEW a, Advertise!Owner(a) # 0
    PROVE  Advertise!Owner(a) \in Advertise!Selected /\ a \in Advertise!Assigned(Advertise!Owner(a))
<1> DEFINE at == {i \in Advertise!Selected : a \in Advertise!Assigned(i)}
<1>1. PICK n \in Nat : DOMAIN ifaces = 1..n
  BY DEF HostShape
<1>2. at \in SUBSET (1..n)
  BY <1>1 DEF Advertise!Selected
<1>3. Advertise!Owner(a) = IF at = {} THEN 0 ELSE CHOOSE i \in at : \A j \in at : j <= i
  BY DEF Advertise!Owner
<1>4. (CHOOSE i \in at : \A j \in at : j <= i) \in at
  <2> HIDE DEF at
  <2>1. \E i \in at : \A j \in at : j <= i
    BY <1>2, <1>3, Greatest
  <2> QED
    BY <2>1
<1>5. Advertise!Owner(a) \in at
  <2> HIDE DEF at
  <2> QED
    BY <1>3, <1>4
<1> QED
  BY <1>5

\* What advertisementTargets selects: addresses of the interface they are published
\* on, one target for an interface, and every configured address.
LEMMA TargetsAreRight ==
    ASSUME HostShape, Advertise!Selectable
    PROVE  /\ \A t \in Advertise!AdvertisementTargets :
                  /\ t.iface \in Advertise!Selected /\ t.ips # {}
                  /\ t.ips \subseteq Advertise!Assigned(t.iface)
           /\ \A t, u \in Advertise!AdvertisementTargets : t.iface = u.iface => t = u
           /\ configured = <<>> => \A i \in Advertise!Selected :
                  \E t \in Advertise!AdvertisementTargets : t.iface = i
           /\ configured # <<>> =>
                  UNION {t.ips : t \in Advertise!AdvertisementTargets} = Advertise!Range(configured)
<1>1. \A i \in Advertise!Selected : Advertise!Assigned(i) # {}
  BY DEF Advertise!Selected
<1>2. CASE configured = <<>>
  <2>1. Advertise!AdvertisementTargets =
          {[iface |-> i, ips |-> Advertise!Assigned(i)] :
               i \in {j \in Advertise!Selected : Advertise!Assigned(j) # {}}}
    BY <1>2 DEF Advertise!AdvertisementTargets, Advertise!Targets, Advertise!All
  <2>2. ASSUME NEW t \in Advertise!AdvertisementTargets
        PROVE  \E i \in Advertise!Selected : t = [iface |-> i, ips |-> Advertise!Assigned(i)]
    BY <2>1
  <2>3. ASSUME NEW i \in Advertise!Selected
        PROVE  \E t \in Advertise!AdvertisementTargets : t.iface = i
    <3>1. [iface |-> i, ips |-> Advertise!Assigned(i)] \in Advertise!AdvertisementTargets
      BY <1>1, <2>1
    <3> QED
      BY <3>1
  <2> QED
    BY <1>1, <1>2, <2>2, <2>3
<1>3. CASE configured # <<>>
  <2>1. Advertise!AdvertisementTargets =
          {[iface |-> i, ips |-> Advertise!Owned[i]] :
               i \in {j \in Advertise!Selected : Advertise!Owned[j] # {}}}
    BY <1>3 DEF Advertise!AdvertisementTargets, Advertise!Targets
  <2>2. ASSUME NEW t \in Advertise!AdvertisementTargets
        PROVE  \E i \in Advertise!Selected :
                   t = [iface |-> i, ips |-> Advertise!Owned[i]] /\ Advertise!Owned[i] # {}
    BY <2>1
  <2>3. ASSUME NEW i \in Advertise!Selected, NEW a \in Advertise!Owned[i]
        PROVE  a \in Advertise!Assigned(i) /\ a \in Advertise!Range(configured)
    <3>1. Advertise!Owner(a) = i /\ a \in Advertise!Range(configured)
      BY DEF Advertise!Owned
    <3>2. i # 0
      BY DEF Advertise!Selected, HostShape
    <3> QED
      BY <3>1, <3>2, OwnerHas
  <2>4. ASSUME NEW a \in Advertise!Range(configured)
        PROVE  \E t \in Advertise!AdvertisementTargets : a \in t.ips
    <3>1. PICK i : Advertise!Owner(a) = i
      OBVIOUS
    <3>2. i \in Advertise!Selected
      BY <3>1, OwnerHas DEF Advertise!Selectable
    <3>3. a \in Advertise!Owned[i]
      BY <3>1, <3>2 DEF Advertise!Owned
    <3>4. [iface |-> i, ips |-> Advertise!Owned[i]] \in Advertise!AdvertisementTargets
      BY <2>1, <3>2, <3>3
    <3> QED
      BY <3>3, <3>4
  <2>5. UNION {t.ips : t \in Advertise!AdvertisementTargets} = Advertise!Range(configured)
    <3>1. ASSUME NEW t \in Advertise!AdvertisementTargets, NEW a \in t.ips
          PROVE  a \in Advertise!Range(configured)
      BY <2>2, <2>3
    <3> QED
      BY <2>4, <3>1
  <2>6. \A t \in Advertise!AdvertisementTargets :
            /\ t.iface \in Advertise!Selected /\ t.ips # {}
            /\ t.ips \subseteq Advertise!Assigned(t.iface)
    BY <2>2, <2>3
  <2>7. \A t, u \in Advertise!AdvertisementTargets : t.iface = u.iface => t = u
    BY <2>2
  <2> QED
    BY <1>3, <2>5, <2>6, <2>7
<1> QED
  BY <1>2, <1>3

\* What a configuration selects does not change while the host stays as it is.
LEMMA SelectionStays ==
    ASSUME UNCHANGED <<ifaces, configured>>
    PROVE  /\ HostShape' <=> HostShape
           /\ Advertise!Selectable' <=> Advertise!Selectable
           /\ Advertise!AdvertisementTargets' = Advertise!AdvertisementTargets
<1>1. ifaces' = ifaces /\ configured' = configured
  OBVIOUS
<1>2. HostShape' <=> HostShape
  BY <1>1 DEF HostShape, Advertise!Range
<1>3. Advertise!Selectable' <=> Advertise!Selectable
  BY <1>1 DEF Advertise!Selectable, Advertise!Owner, Advertise!Assigned, Advertise!Selected,
              Advertise!Range
<1>4. Advertise!AdvertisementTargets' = Advertise!AdvertisementTargets
  BY <1>1 DEF Advertise!AdvertisementTargets, Advertise!Targets, Advertise!All, Advertise!Owned,
              Advertise!Owner, Advertise!Assigned, Advertise!Selected, Advertise!Range
<1> QED
  BY <1>2, <1>3, <1>4

\* Every step of an advertisement.
LEMMA AdvertiserStep ==
    ASSUME AdvertiserShape, [Advertise!Next]_advertiser
    PROVE  AdvertiserShape'
<1>1. UNCHANGED <<ifaces, configured>>
  <2>1. CASE Advertise!Select
    BY <2>1 DEF Advertise!Select
  <2>2. CASE Advertise!Register
    BY <2>2 DEF Advertise!Register
  <2>3. CASE Advertise!Serve
    BY <2>3 DEF Advertise!Serve
  <2>4. CASE Advertise!Stop
    BY <2>4 DEF Advertise!Stop
  <2>5. CASE UNCHANGED advertiser
    BY <2>5 DEF advertiser
  <2> QED
    BY <2>1, <2>2, <2>3, <2>4, <2>5 DEF Advertise!Next
<1>2. /\ HostShape' /\ (Advertise!Selectable' <=> Advertise!Selectable)
      /\ Advertise!AdvertisementTargets' = Advertise!AdvertisementTargets
  BY <1>1, SelectionStays DEF AdvertiserShape
<1>3. CASE Advertise!Select
  BY <1>2, <1>3 DEF AdvertiserShape, Advertise!Select
<1>4. CASE Advertise!Register
  <2>1. \/ /\ servers' \subseteq targets /\ advertising' = advertising
        \/ servers' = {} /\ advertising' = "failed"
    BY <1>4 DEF AdvertiserShape, Advertise!Register, Advertise!Opened
  <2>2. advertising = "register" /\ targets' = targets
    BY <1>4 DEF Advertise!Register
  <2> QED
    BY <1>2, <2>1, <2>2 DEF AdvertiserShape
<1>5. CASE Advertise!Serve
  <2>1. targets \ servers = {}
    BY <1>5 DEF Advertise!Serve, Advertise!Unopened
  <2>2. advertising = "register" /\ advertising' = "serving" /\ UNCHANGED <<targets, servers>>
    BY <1>5 DEF Advertise!Serve
  <2> QED
    BY <1>2, <2>1, <2>2 DEF AdvertiserShape
<1>6. CASE Advertise!Stop
  BY <1>2, <1>6 DEF AdvertiserShape, Advertise!Stop
<1>7. CASE UNCHANGED advertiser
  BY <1>2, <1>7 DEF AdvertiserShape, advertiser
<1> QED
  BY <1>3, <1>4, <1>5, <1>6, <1>7 DEF Advertise!Next

\* What is published is the gateway as it is.
LEMMA AdvertisementShown ==
    ASSUME AdvertiserShape
    PROVE  Advertise!AdvertisementIsTrue
<1>1. Advertise!NothingLeftPublished
  BY DEF AdvertiserShape, Advertise!NothingLeftPublished
<1>2. CASE ~(advertising \in {"register", "serving"})
  <2>1. servers = {}
    <3>1. advertising \in {"select", "failed", "stopped"}
      BY <1>2 DEF AdvertiserShape
    <3> QED
      BY <3>1 DEF AdvertiserShape
  <2>2. Advertise!OwnAddressesOnly
    BY <2>1 DEF Advertise!OwnAddressesOnly
  <2>3. Advertise!ServingIsComplete
    BY <1>2 DEF Advertise!ServingIsComplete
  <2> QED
    BY <1>1, <2>2, <2>3 DEF Advertise!AdvertisementIsTrue
<1>3. CASE advertising \in {"register", "serving"}
  <2>1. /\ HostShape /\ Advertise!Selectable
        /\ servers \subseteq Advertise!AdvertisementTargets
        /\ advertising = "serving" => servers = Advertise!AdvertisementTargets
    BY <1>3 DEF AdvertiserShape
  <2>2. /\ \A t \in servers : /\ t.iface \in Advertise!Selected /\ t.ips # {}
                               /\ t.ips \subseteq Advertise!Assigned(t.iface)
        /\ \A t, u \in servers : t.iface = u.iface => t = u
    BY <2>1, TargetsAreRight
  <2>3. Advertise!OwnAddressesOnly
    BY <2>2 DEF Advertise!OwnAddressesOnly, Advertise!Selected, Advertise!Assigned
  <2>4. ASSUME advertising = "serving", configured = <<>>
        PROVE  Advertise!ServingIsComplete
    <3>1. \A i \in Advertise!Selected : \E t \in servers : t.iface = i
      BY <2>1, <2>4, TargetsAreRight
    <3>2. servers # {}
      BY <2>1, <3>1 DEF Advertise!Selectable
    <3> QED
      BY <2>4, <3>1, <3>2 DEF Advertise!ServingIsComplete, Advertise!Selected, Advertise!Assigned
  <2>5. ASSUME advertising = "serving", configured # <<>>
        PROVE  Advertise!ServingIsComplete
    <3>1. UNION {t.ips : t \in servers} = Advertise!Range(configured)
      BY <2>1, <2>5, TargetsAreRight
    <3>2. Advertise!Range(configured) # {}
      BY <2>1, <2>5 DEF HostShape
    <3>3. servers # {}
      BY <3>1, <3>2
    <3> QED
      BY <2>5, <3>1, <3>3 DEF Advertise!ServingIsComplete
  <2>6. Advertise!ServingIsComplete
    <3>1. CASE advertising # "serving"
      BY <3>1 DEF Advertise!ServingIsComplete
    <3> QED
      BY <2>4, <2>5, <3>1
  <2> QED
    BY <1>1, <2>3, <2>6 DEF Advertise!AdvertisementIsTrue
<1> QED
  BY <1>2, <1>3

\* An advertisement begins with nothing published.
LEMMA AdvertiserInit ==
    ASSUME Advertise!Init
    PROVE  AdvertiserShape
<1>1. \E n \in Nat : DOMAIN ifaces = 1..n
  <2>1. PICK n \in 0..MaxIfaces :
            ifaces \in [1..n -> [multicast : BOOLEAN, readable : BOOLEAN, addrs : SUBSET IPs]]
    BY DEF Advertise!Init, Advertise!SeqOf
  <2>2. n \in Nat
    BY IfacesAssumption
  <2> QED
    BY <2>1, <2>2
<1>2. ASSUME configured # <<>> PROVE Advertise!Range(configured) # {}
  <2>1. PICK n \in 0..2 : configured \in [1..n -> IPs]
    BY DEF Advertise!Init, Advertise!SeqOf
  <2>2. CASE n = 0
    <3>1. DOMAIN configured = {}
      BY <2>1, <2>2
    <3>2. configured = <<>>
      BY <2>1, <2>2
    <3> QED
      BY <1>2, <3>2
  <2>3. CASE n # 0
    <3>1. 1 \in DOMAIN configured
      BY <2>1, <2>3
    <3> QED
      BY <3>1 DEF Advertise!Range
  <2> QED
    BY <2>2, <2>3
<1>3. advertising = "select" /\ servers = {}
  BY DEF Advertise!Init
<1> QED
  BY <1>1, <1>2, <1>3 DEF AdvertiserShape, HostShape

-----------------------------------------------------------------------------
(* From the options of a gateway to what a device finds.                   *)

\* Record!RecordIsFaithful: whatever the options of the gateway and whatever a
\* third party put into its TXT record, a device finds the gateway that was
\* advertised, over TLS, or nothing it would trust.
THEOREM RecordSafe == Record!Spec => []Record!RecordIsFaithful
<1>1. Record!Init => options \in Record!Options /\ extra \in Record!Extras
  BY DEF Record!Init
<1>2. /\ options \in Record!Options /\ extra \in Record!Extras
      /\ [Record!Next]_(<<options, extra>>)
      => (options \in Record!Options /\ extra \in Record!Extras)'
  BY DEF Record!Next, Record!Options, Record!Extras
<1>3. options \in Record!Options /\ extra \in Record!Extras => Record!RecordIsFaithful
  BY AdvertisedFound, TamperedRefused DEF Record!RecordIsFaithful
<1> QED
  BY <1>1, <1>2, <1>3, PTL DEF Record!Spec

\* AdvertisedIsFound: what is published is true of the gateway at every moment,
\* also when a server cannot be opened half way, and a device that receives it
\* finds the gateway.
THEOREM AdvertisedSafe == Record!Spec /\ Advertise!Spec => []AdvertisedIsFound
<1>1. Advertise!Init => AdvertiserShape
  BY AdvertiserInit
<1>2. AdvertiserShape /\ [Advertise!Next]_(Advertise!vars) => AdvertiserShape'
  BY AdvertiserStep DEF Advertise!vars, advertiser
<1>3. AdvertiserShape => Advertise!AdvertisementIsTrue
  BY AdvertisementShown
<1>4. Advertise!Spec => []Advertise!AdvertisementIsTrue
  BY <1>1, <1>2, <1>3, PTL DEF Advertise!Spec
<1> QED
  BY <1>4, RecordSafe, PTL DEF AdvertisedIsFound
=============================================================================
