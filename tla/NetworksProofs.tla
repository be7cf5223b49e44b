--------------------------- MODULE NetworksProofs ---------------------------
(***************************************************************************)
(* Proofs about the platform that tenants share.                           *)
(*                                                                         *)
(* Networks, for every number of networks, applications, devices and       *)
(* requests, whichever address spaces overlap, and in every window of      *)
(* Cases.  A network that is gone never comes back, and while there is one *)
(* every change of its attachments makes a revision; so a request whose    *)
(* revision is still the network's has seen what is attached.  Two         *)
(* requests that look for a free space while no network goes both choose   *)
(* the first free overlay space; so one of them fails by its unique key,   *)
(* whatever address space it was asked for.                                *)
(*                                                                         *)
(* Installs and resets, for every number of runs, of events on the host    *)
(* and of generations of secrets: what a mark says is there stays until a  *)
(* reset undoes it, and whatever has a secret has that of the files.       *)
(*                                                                         *)
(* Updates, for every set of releases that are reached from earlier ones   *)
(* and every number of failures and kills: the journal names the release   *)
(* that its databases, or those of its snapshot, fit.                      *)
(***************************************************************************)
EXTENDS MCPlatform, Sequences, TLAPS

Rows ==
    [status : {"None", "Provisioning", "Ready", "Error", "Deleting", "Gone"},
     block : Blocks \cup {{}}, overlay : Nat, rev : Nat, crossed : BOOLEAN]
Devs ==
    [status : {"None", "Pending", "Ready", "Suspended", "Error", "Revoked"}, revoked : BOOLEAN,
     links : SUBSET Nets, active : BOOLEAN]
Calls ==
    [pc : {"Idle", "Create", "Delete", "Attach", "Detach", "Access"}, net : Nets \cup {None},
     app : Apps \cup {None}, device : Devices \cup {None}, block : Blocks \cup {{}},
     overlay : Nat, links : SUBSET Nets, expected : Nat, seen : SUBSET Apps, there : SUBSET Nets,
     crossed : BOOLEAN]
Peers == [Devices -> (SUBSET Nets) \cup {None}]
Lanes ==
    [pc : {"Idle", "Run", "Deploy"}, pending : SUBSET Nets, deleting : SUBSET Nets, peers : Peers]

Types ==
    /\ net \in [Nets -> Rows]
    /\ attached \in SUBSET (Nets \X Apps)
    /\ device \in [Devices -> Devs]
    /\ appVersion \in [Apps -> (SUBSET Nets) \cup {None}]
    /\ appStack \in [Apps -> SUBSET Nets]
    /\ swarm \in SUBSET Nets
    /\ peers \in Peers
    /\ call \in [Callers -> Calls]
    /\ gate \in Lanes
    /\ vpn \in Lanes
    /\ blind \in BOOLEAN
    /\ calls \in Nat
    /\ failures \in Nat

\* A request names what it is about.
Named(c) ==
    /\ call[c].pc \in {"Create", "Delete", "Attach", "Detach"} => call[c].net \in Nets
    /\ call[c].pc = "Create" => call[c].block \in Blocks
    /\ call[c].pc \in {"Attach", "Detach"} => call[c].app \in Apps
    /\ call[c].pc = "Access" => call[c].device \in Devices

\* While a network has the revision that a request expects, what is attached to it is what
\* the request has seen.
Seen(c) ==
    LET n == call[c].net IN
    call[c].pc \in {"Attach", "Detach"} =>
        /\ net[n].status # "None" /\ call[c].expected <= net[n].rev
        /\ Live(n) /\ call[c].expected = net[n].rev => call[c].seen = AppsOf(n)

\* What the reconcilers have read is still there.
LanesKnow ==
    /\ \A n \in gate.pending : Live(n)
    /\ \A d \in Devices : vpn.peers[d] # None => Known(d)

Held(k) == \E n \in Nets : Live(n) /\ net[n].overlay = k

\* No network went since the request looked for a space.
Pending(c) == call[c].pc = "Create" /\ ~call[c].crossed

\* The networks that a request saw are there, without its space; its overlay space was the
\* first free one, and it has been taken if a network was created since.
Chosen(c) ==
    Pending(c) =>
        /\ \A n \in call[c].there : /\ Live(n) /\ net[n].block \cap call[c].block = {}
                                    /\ net[n].overlay # call[c].overlay
        /\ \A k \in 0..(call[c].overlay - 1) : \E n \in call[c].there : net[n].overlay = k
        /\ (\E n \in Nets \ call[c].there : Live(n) /\ ~net[n].crossed) => Held(call[c].overlay)

\* Who looked later saw all that who looked earlier had seen.
Nested(c, d) ==
    Pending(c) /\ Pending(d) => call[c].there \subseteq call[d].there \/ call[d].there \subseteq call[c].there

Choices == \A c \in Callers : Chosen(c) /\ \A d \in Callers : Nested(c, d)

IInv ==
    /\ Types
    /\ \A c \in Callers : Named(c) /\ Seen(c)
    /\ Choices
    /\ LanesKnow
    /\ SpacesAreDisjoint
    /\ ExpectedWasSeen
    /\ PeersHaveNetworks
    /\ ReadyIsNotRevoked

-----------------------------------------------------------------------------
(* Requests *)

LEMMA InitIInv == ASSUME NetworksAssumption, Init PROVE IInv
<1>1. Types
  <2>1. IdleLane \in Lanes /\ NoCall \in Calls /\ IdleLane.pending = {}
    BY DEF Lanes, Calls, IdleLane, NoCall, Peers
  <2> QED
    BY <2>1 DEF Init, Types, Rows, Devs, Peers
<1>2. \A c \in Callers : Named(c) /\ Seen(c)
  BY DEF Init, Named, Seen, NoCall
<1>3. (\A n \in Nets : ~Live(n)) /\ Choices
  BY DEF Init, Live, Choices, Chosen, Nested, Pending, NoCall
<1>4. LanesKnow
  BY DEF Init, LanesKnow, IdleLane
<1>5. SpacesAreDisjoint /\ ExpectedWasSeen /\ PeersHaveNetworks /\ ReadyIsNotRevoked
  BY <1>3 DEF Init, SpacesAreDisjoint, ExpectedWasSeen, PeersHaveNetworks, ReadyIsNotRevoked
<1> QED
  BY <1>1, <1>2, <1>3, <1>4, <1>5 DEF IInv

\* A request that begins or ends, with r, disturbs no other.
LEMMA CallStep ==
    ASSUME IInv, NEW c \in Callers, NEW r \in Calls, call' = [call EXCEPT ![c] = r],
           UNCHANGED <<net, attached, device, appVersion, appStack, swarm, peers, gate, vpn, blind, failures>>,
           calls' \in Nat,
           r.pc \in {"Create", "Delete", "Attach", "Detach"} => r.net \in Nets,
           r.pc = "Create" => /\ r.block \in Blocks /\ r.there = {m \in Nets : Live(m)}
                              /\ Free(r.block) /\ NextOverlay(r.overlay),
           r.pc = "Access" => r.device \in Devices,
           r.pc \in {"Attach", "Detach"} =>
              /\ r.app \in Apps /\ net[r.net].status # "None"
              /\ r.expected <= net[r.net].rev /\ r.seen = AppsOf(r.net)
    PROVE  IInv'
<1>1. Types'
  BY DEF IInv, Types
<1>2. \A d \in Callers : Named(d)' /\ Seen(d)'
  BY DEF IInv, Types, Named, Seen, Live, AppsOf
<1>3. call'[c] = r /\ \A d \in Callers \ {c} : call'[d] = call[d]
  BY DEF IInv, Types
<1>4. \A d \in Callers : Chosen(d)'
  <2>1. \A d \in Callers \ {c} : Chosen(d)'
    BY <1>3 DEF IInv, Choices, Chosen, Pending, Held, Live
  <2>2. Chosen(c)'
    BY <1>3 DEF Chosen, Pending, Held, Live, Free, NextOverlay
  <2> QED
    BY <2>1, <2>2
<1>5. \A d, e \in Callers : Nested(d, e)'
  <2>1. \A d \in Callers : Pending(d) => call[d].there \subseteq {m \in Nets : Live(m)}
    BY DEF IInv, Types, Calls, Choices, Chosen
  <2>2. ASSUME NEW d \in Callers \ {c} PROVE Nested(c, d)' /\ Nested(d, c)'
    BY <1>3, <2>1 DEF Nested, Pending
  <2>3. \A d, e \in Callers \ {c} : Nested(d, e)'
    BY <1>3 DEF IInv, Choices, Nested, Pending
  <2>4. Nested(c, c)'
    BY DEF Nested
  <2> QED
    BY <2>2, <2>3, <2>4
<1> QED
  BY <1>1, <1>2, <1>4, <1>5 DEF IInv, Choices, LanesKnow, SpacesAreDisjoint, ExpectedWasSeen, PeersHaveNetworks,
                    ReadyIsNotRevoked, Live, Known

LEMMA AskStep ==
    ASSUME NetworksAssumption, IInv, NEW c \in Callers, NEW n \in Nets
    PROVE  /\ \A block \in Blocks : AskForNetwork(c, n, block) => IInv'
           /\ CountUsers(c, n) => IInv'
           /\ \A a \in Apps, step \in {"Attach", "Detach"} : AskToChange(c, n, a, step) => IInv'
<1>1. ASSUME NEW block \in Blocks, AskForNetwork(c, n, block) PROVE IInv'
  <2> DEFINE r(k) == [NoCall EXCEPT !.pc = "Create", !.net = n, !.block = block, !.overlay = k,
                                    !.there = {m \in Nets : Live(m)}]
  <2>1. PICK k \in 0..(PoolSize - 1) : NextOverlay(k) /\ Begin(c, r(k))
    BY <1>1 DEF AskForNetwork
  <2>2. k \in Nat
    BY DEF NetworksAssumption
  <2>3. r(k) \in Calls /\ r(k).pc = "Create" /\ r(k).net = n /\ r(k).block = block
    BY <2>2 DEF Calls, NoCall
  <2>4. r(k).overlay = k /\ r(k).there = {m \in Nets : Live(m)}
    BY DEF NoCall
  <2>5. call' = [call EXCEPT ![c] = r(k)] /\ calls' \in Nat
    BY <2>1 DEF Begin, IInv, Types
  <2>6. Free(block) /\ UNCHANGED <<net, attached, device, appVersion, appStack, swarm, peers, gate, vpn, blind, failures>>
    BY <1>1, <2>1 DEF AskForNetwork, Begin
  <2> HIDE DEF r
  <2> QED
    BY <2>1, <2>3, <2>4, <2>5, <2>6, CallStep
<1>2. ASSUME CountUsers(c, n) PROVE IInv'
  <2> DEFINE r == [NoCall EXCEPT !.pc = "Delete", !.net = n]
  <2>1. r \in Calls /\ r.pc = "Delete" /\ r.net = n
    BY DEF Calls, NoCall
  <2>2. call' = [call EXCEPT ![c] = r] /\ calls' \in Nat
    BY <1>2 DEF CountUsers, Begin, IInv, Types
  <2> QED
    BY <1>2, <2>1, <2>2, CallStep DEF CountUsers, Begin
<1>3. ASSUME NEW a \in Apps, NEW step \in {"Attach", "Detach"}, AskToChange(c, n, a, step) PROVE IInv'
  <2> PICK e \in {0, net[n].rev} :
         Begin(c, [NoCall EXCEPT !.pc = step, !.net = n, !.app = a, !.expected = e, !.seen = AppsOf(n)])
    BY <1>3 DEF AskToChange
  <2> DEFINE r == [NoCall EXCEPT !.pc = step, !.net = n, !.app = a, !.expected = e, !.seen = AppsOf(n)]
  <2>1. AppsOf(n) \in SUBSET Apps /\ e \in Nat /\ e <= net[n].rev
    BY DEF AppsOf, IInv, Types, Rows
  <2>2. r \in Calls /\ r.pc = step /\ r.net = n /\ r.app = a /\ r.expected = e /\ r.seen = AppsOf(n)
    BY <2>1 DEF Calls, NoCall
  <2>3. call' = [call EXCEPT ![c] = r] /\ calls' \in Nat
    BY DEF Begin, IInv, Types
  <2>4. net[n].status # "None"
    BY <1>3 DEF AskToChange, Usable, Live
  <2> QED
    BY <2>1, <2>2, <2>3, <2>4, CallStep DEF Begin
<1> QED
  BY <1>1, <1>2, <1>3

\* A request ends.
LEMMA EndStep ==
    ASSUME IInv, NEW c \in Callers, call' = [call EXCEPT ![c] = NoCall]
    PROVE  /\ call' \in [Callers -> Calls]
           /\ \A d \in Callers : call'[d].pc # "Idle" => call'[d] = call[d]
           /\ call'[c].pc = "Idle"
           /\ \A d \in Callers : Named(d)'
<1>1. NoCall \in Calls /\ NoCall.pc = "Idle"
  BY DEF Calls, NoCall
<1> QED
  BY <1>1 DEF IInv, Types, Named

\* A request that changes the networks: those that are alive stay so, with their addresses
\* and at least their revision, and with what is attached unless the revision grows.
LEMMA NetStep ==
    ASSUME NetworksAssumption, IInv, net' \in [Nets -> Rows], attached' \in SUBSET (Nets \X Apps),
           \A n \in Nets :
              /\ net[n].status # "None" => net'[n].status # "None" /\ net'[n].rev >= net[n].rev
              /\ Live(n)' => Live(n) \/ net[n].status = "None"
              /\ net[n].status # "None" /\ Live(n)' /\ net'[n].rev = net[n].rev
                    => AppsOf(n)' = AppsOf(n),
           call' \in [Callers -> Calls], \A c \in Callers : Named(c)',
           \A c \in Callers : call'[c].pc # "Idle" => call'[c] = call[c]
    PROVE  \A c \in Callers : Seen(c)'
<1> SUFFICES ASSUME NEW c \in Callers, call'[c].pc \in {"Attach", "Detach"} PROVE Seen(c)'
  BY DEF Seen
<1>1. call'[c] = call[c] /\ call[c].net \in Nets /\ Seen(c) /\ call[c].expected \in Nat
  BY DEF IInv, Types, Named, Calls
<1>2. net[call[c].net].rev \in Nat /\ net'[call[c].net].rev \in Nat
  BY <1>1 DEF IInv, Types, Rows
<1> QED
  BY <1>1, <1>2 DEF Seen

SameSpace(n) ==
    /\ Live(n)' <=> Live(n)
    /\ net'[n].block = net[n].block /\ net'[n].overlay = net[n].overlay /\ net'[n].crossed = net[n].crossed

\* Networks keep their spaces, and no request begins to look for one.
LEMMA SpacesStep ==
    ASSUME IInv, \A n \in Nets : SameSpace(n),
           \A c \in Callers : call'[c].pc = "Create" => call'[c] = call[c]
    PROVE  Choices' /\ SpacesAreDisjoint'
<1>1. \A c \in Callers : Pending(c)' => Pending(c) /\ call'[c] = call[c] /\ call[c].there \subseteq Nets
  BY DEF Pending, IInv, Types, Calls
<1>2. \A k : Held(k) => Held(k)'
  BY DEF Held, SameSpace
<1>3. \A c \in Callers : Chosen(c)'
  <2> SUFFICES ASSUME NEW c \in Callers, Pending(c)' PROVE Chosen(c)'
    BY DEF Chosen
  <2>1. Chosen(c) /\ Pending(c) /\ call'[c] = call[c] /\ call[c].there \subseteq Nets
    BY <1>1 DEF IInv, Choices
  <2> QED
    BY <1>2, <2>1 DEF Chosen, SameSpace
<1>4. \A c, d \in Callers : Nested(c, d)'
  BY <1>1 DEF IInv, Choices, Nested
<1>5. SpacesAreDisjoint'
  BY DEF IInv, SpacesAreDisjoint, SameSpace
<1> QED
  BY <1>3, <1>4, <1>5 DEF Choices

\* A network is created with an overlay space that none has.  Another request that looked
\* when the same networks, or some more or fewer, were there has chosen the same space, or
\* one that has been taken.
LEMMA CreateSpaces ==
    ASSUME IInv, NEW c \in Callers, NEW n \in Nets, CreateNetwork(c), n = call[c].net,
           net[n].status = "None", UniqueCidr(call[c].block, call[c].overlay),
           call' = [call EXCEPT ![c] = NoCall],
           \A m \in Nets \ {n} : net'[m] = net[m],
           Live(n)', net'[n].block = call[c].block, net'[n].overlay = call[c].overlay,
           net'[n].crossed = call[c].crossed
    PROVE  Choices' /\ SpacesAreDisjoint'
<1>1. /\ call[c].pc = "Create" /\ ~Live(n) /\ \A m \in Nets \ {n} : Live(m)' <=> Live(m)
      /\ \A k : Held(k) => Held(k)'
  BY DEF CreateNetwork, Live, Held
<1>2. ~Held(call[c].overlay) /\ \A k : k = call[c].overlay => Held(k)'
  BY DEF UniqueCidr, Held
<1>3. /\ \A d \in Callers : call[d].there \subseteq Nets /\ call[d].overlay \in Nat
      /\ \A d \in Callers : Pending(d)' => d # c /\ Pending(d) /\ call'[d] = call[d]
  BY DEF IInv, Types, Calls, Pending, NoCall
<1>4. SpacesAreDisjoint'
  <2> SUFFICES ASSUME NEW m \in Nets \ {n}, Live(m), ~net[m].crossed, ~call[c].crossed
               PROVE  net[m].block \cap call[c].block = {}
    BY <1>1 DEF IInv, SpacesAreDisjoint
  <2> QED
    BY <1>1, <1>2 DEF IInv, Choices, Chosen, Pending
<1>5. \A d \in Callers : Chosen(d)'
  <2> SUFFICES ASSUME NEW d \in Callers, Pending(d)' PROVE Chosen(d)'
    BY DEF Chosen
  <2>1. d # c /\ Pending(d) /\ call'[d] = call[d] /\ Chosen(d) /\ n \notin call[d].there
    BY <1>1, <1>3 DEF IInv, Choices, Chosen
  <2>2. /\ \A m \in call[d].there : /\ Live(m)' /\ net'[m].block \cap call[d].block = {}
                                     /\ net'[m].overlay # call[d].overlay
        /\ \A k \in 0..(call[d].overlay - 1) : \E m \in call[d].there : net'[m].overlay = k
    BY <1>1, <1>3, <2>1 DEF Chosen
  <2>3. ASSUME ~call[c].crossed PROVE Held(call[d].overlay)'
    <3>1. Pending(c) /\ Chosen(c) /\ Nested(c, d)
      BY <1>1, <2>3 DEF IInv, Choices, Pending
    <3>2. CASE call[c].there \subseteq call[d].there
      <4>1. \A m \in call[d].there : net[m].overlay # call[c].overlay
        BY <1>2, <1>3, <2>1 DEF Chosen, Held
      <4>2. ~(call[d].overlay < call[c].overlay)
        BY <1>3, <2>1, <3>1, <3>2 DEF Chosen
      <4>3. ~(call[c].overlay < call[d].overlay)
        BY <1>3, <2>1, <4>1 DEF Chosen
      <4> QED
        BY <1>2, <1>3, <2>1, <4>2, <4>3
    <3>3. CASE call[d].there \subseteq call[c].there
      <4>1. ~(call[c].overlay < call[d].overlay)
        BY <1>3, <2>1, <3>1, <3>3 DEF Chosen
      <4>2. CASE call[d].overlay < call[c].overlay
        <5>1. PICK m \in call[c].there : net[m].overlay = call[d].overlay
          BY <1>3, <3>1, <4>2 DEF Chosen
        <5> QED
          BY <1>1, <1>3, <3>1, <5>1 DEF Chosen, Held
      <4> QED
        BY <1>2, <1>3, <2>1, <4>1, <4>2
    <3> QED
      BY <3>1, <2>1, <3>2, <3>3 DEF Nested
  <2>4. ASSUME NEW m \in Nets \ call[d].there, Live(m)', ~net'[m].crossed PROVE Held(call[d].overlay)'
    <3>1. CASE m = n
      BY <2>3, <2>4, <3>1
    <3>2. CASE m # n
      BY <1>1, <2>1, <2>4, <3>2 DEF Chosen
    <3> QED
      BY <3>1, <3>2
  <2> QED
    BY <2>1, <2>2, <2>4 DEF Chosen
<1>6. \A d, e \in Callers : Nested(d, e)'
  BY <1>3 DEF IInv, Choices, Nested
<1> QED
  BY <1>4, <1>5, <1>6 DEF Choices

LEMMA ChangeStep ==
    ASSUME NetworksAssumption, IInv, NEW c \in Callers, NEW n, n = call[c].net
    PROVE  /\ CreateNetwork(c) => IInv'
           /\ MarkDeleting(c) => IInv'
           /\ Attach(c) => IInv'
           /\ GrantAccess(c) => IInv'
<1>1. ASSUME CreateNetwork(c) PROVE IInv'
  <2>1. n \in Nets /\ call[c].block \in Blocks
    BY <1>1 DEF CreateNetwork, IInv, Named
  <2>2. /\ call' \in [Callers -> Calls] /\ \A d \in Callers : Named(d)'
        /\ \A d \in Callers : call'[d].pc # "Idle" => call'[d] = call[d]
    BY <1>1, EndStep DEF CreateNetwork, End
  <2>3. CASE UniqueCidr(call[c].block, call[c].overlay) /\ net[n].status = "None"
    <3> DEFINE entry == [status |-> "Provisioning", block |-> call[c].block, overlay |-> call[c].overlay,
                         rev |-> 1, crossed |-> call[c].crossed]
    <3>1. net' = [net EXCEPT ![n] = entry]
      BY <1>1, <2>3 DEF CreateNetwork
    <3>2. /\ net' \in [Nets -> Rows] /\ Live(n)' /\ net'[n].block = call[c].block
          /\ net'[n].overlay = call[c].overlay /\ net'[n].crossed = call[c].crossed
          /\ \A m \in Nets \ {n} : net'[m] = net[m]
      <4>1. entry \in Rows /\ entry.status = "Provisioning"
        BY <2>1 DEF Rows, IInv, Types, Calls
      <4>2. net' \in [Nets -> Rows] /\ net'[n] = entry /\ \A m \in Nets \ {n} : net'[m] = net[m]
        BY <2>1, <3>1, <4>1 DEF IInv, Types
      <4> QED
        BY <4>1, <4>2 DEF Live
    <3>3. attached' = attached
      BY <1>1 DEF CreateNetwork
    <3>4. \A d \in Callers : Seen(d)'
      <4>1. attached' \in SUBSET (Nets \X Apps) /\ \A m \in Nets : AppsOf(m)' = AppsOf(m)
        BY <3>3 DEF IInv, Types, AppsOf
      <4>2. \A m \in Nets \ {n} : net'[m] = net[m] /\ (Live(m)' <=> Live(m)) /\ net[m].rev \in Nat
        BY <3>2 DEF IInv, Types, Rows, Live
      <4> QED
        BY <2>1, <2>2, <2>3, <3>2, <4>1, <4>2, NetStep
    <3>5. Choices' /\ SpacesAreDisjoint'
      BY <1>1, <2>1, <2>3, <3>2, CreateSpaces DEF CreateNetwork, End
    <3>7. LanesKnow'
      BY <1>1, <3>2 DEF CreateNetwork, End, IInv, LanesKnow, Live, Known, Types, Lanes
    <3> QED
      BY <1>1, <2>2, <3>2, <3>4, <3>5, <3>7
      DEF CreateNetwork, End, IInv, Types, ExpectedWasSeen, PeersHaveNetworks, ReadyIsNotRevoked,
      Known
  <2>4. CASE ~(UniqueCidr(call[c].block, call[c].overlay) /\ net[n].status = "None")
    <3>1. UNCHANGED <<net, attached, device, appVersion, appStack, swarm, peers, gate, vpn, blind, calls, failures>>
      BY <1>1, <2>4 DEF CreateNetwork, End
    <3>2. \A d \in Callers : Seen(d)'
      BY <2>2, <3>1, NetStep DEF IInv, Types, Rows, Live, AppsOf
    <3>3. Choices' /\ SpacesAreDisjoint'
      BY <2>2, <3>1, SpacesStep DEF SameSpace, Live
    <3> QED
      BY <2>2, <3>1, <3>2, <3>3 DEF IInv, Types, LanesKnow, ExpectedWasSeen,
                              PeersHaveNetworks, ReadyIsNotRevoked, Live, Known
  <2> QED
    BY <2>3, <2>4
<1>2. ASSUME MarkDeleting(c) PROVE IInv'
  <2>1. n \in Nets
    BY <1>2 DEF MarkDeleting, IInv, Named
  <2>2. /\ call' \in [Callers -> Calls] /\ \A d \in Callers : Named(d)'
        /\ \A d \in Callers : call'[d].pc # "Idle" => call'[d] = call[d]
    BY <1>2, EndStep DEF MarkDeleting, End
  <2>3. /\ net' \in [Nets -> Rows] /\ \A m \in Nets \ {n} : net'[m] = net[m]
        /\ SameSpace(n)
        /\ net'[n].rev >= net[n].rev
        /\ net[n].status # "None" => net'[n].status # "None"
    <3>1. CASE Live(n)
      <4>1. net' = [net EXCEPT ![n].status = "Deleting", ![n].rev = @ + 1]
        BY <1>2, <3>1 DEF MarkDeleting
      <4>2. /\ net' \in [Nets -> Rows] /\ \A m \in Nets \ {n} : net'[m] = net[m]
            /\ net'[n].status = "Deleting" /\ net'[n].block = net[n].block
            /\ net'[n].overlay = net[n].overlay /\ net'[n].crossed = net[n].crossed
            /\ net'[n].rev = net[n].rev + 1 /\ net[n].rev \in Nat
        BY <2>1, <4>1 DEF IInv, Types, Rows
      <4> QED
        BY <3>1, <4>2 DEF Live, SameSpace
    <3>2. CASE ~Live(n)
      BY <1>2, <2>1, <3>2 DEF MarkDeleting, IInv, Types, Rows, Live, SameSpace
    <3> QED
      BY <3>1, <3>2
  <2>4. /\ UNCHANGED <<attached, device, appVersion, appStack, swarm, peers, gate, vpn, blind, calls, failures>>
        /\ \A m \in Nets : SameSpace(m)
    <3>1. \A m \in Nets \ {n} : SameSpace(m)
      BY <2>3 DEF Live, SameSpace
    <3> QED
      BY <1>2, <2>1, <2>3, <3>1 DEF MarkDeleting, End
  <2>5. \A d \in Callers : Seen(d)'
    <3>1. \A m \in Nets : AppsOf(m)' = AppsOf(m)
      BY <2>4 DEF AppsOf
    <3> QED
      BY <2>2, <2>3, <2>4, <3>1, NetStep DEF IInv, Types, Rows, SameSpace
  <2>6. Choices' /\ SpacesAreDisjoint'
    BY <2>2, <2>4, SpacesStep
  <2>7. LanesKnow'
    BY <2>4 DEF IInv, Types, Lanes, LanesKnow, SameSpace, Known
  <2> QED
    BY <2>2, <2>3, <2>4, <2>5, <2>6, <2>7
    DEF IInv, Types, ExpectedWasSeen, PeersHaveNetworks, ReadyIsNotRevoked, Known
<1>3. ASSUME Attach(c) PROVE IInv'
  <2> DEFINE a == call[c].app
  <2> DEFINE allowed == /\ Live(n) /\ call[c].expected \in {0, net[n].rev}
                        /\ ("attach" \in Cases \/ Usable(n))
  <2>1. n \in Nets /\ a \in Apps /\ call[c].pc \in {"Attach", "Detach"} /\ call[c].expected \in Nat
    BY <1>3 DEF Attach, IInv, Types, Named, Calls
  <2>2. /\ call' \in [Callers -> Calls] /\ \A d \in Callers : Named(d)'
        /\ \A d \in Callers : call'[d].pc # "Idle" => call'[d] = call[d]
    BY <1>3, EndStep DEF Attach, End
  <2>3. UNCHANGED <<device, appVersion, appStack, swarm, peers, gate, vpn, calls, failures>>
    BY <1>3 DEF Attach, End
  <2>4. CASE allowed /\ (a \in AppsOf(n) <=> call[c].pc = "Detach")
    <3>1. /\ net' = [net EXCEPT ![n].rev = @ + 1]
          /\ attached' = IF call[c].pc = "Attach" THEN attached \cup {<<n, a>>}
                         ELSE attached \ {<<n, a>>}
          /\ blind' = (blind \/ (call[c].expected > 0 /\ call[c].seen # AppsOf(n)))
      BY <1>3, <2>4 DEF Attach, BumpNetworkRevision
    <3>2. /\ net' \in [Nets -> Rows] /\ \A m \in Nets \ {n} : net'[m] = net[m]
          /\ net'[n].block = net[n].block /\ net'[n].status = net[n].status
          /\ net'[n].overlay = net[n].overlay /\ net'[n].crossed = net[n].crossed
          /\ net'[n].rev = net[n].rev + 1 /\ net[n].rev \in Nat
      BY <2>1, <3>1 DEF IInv, Types, Rows
    <3>3. attached' \in SUBSET (Nets \X Apps) /\ \A m \in Nets \ {n} : AppsOf(m)' = AppsOf(m)
      BY <2>1, <3>1 DEF IInv, Types, AppsOf
    <3>4. \A d \in Callers : Seen(d)'
      BY <2>2, <3>2, <3>3, NetStep DEF IInv, Types, Rows, Live
    <3>5. blind' = FALSE
      BY <2>1, <2>4, <3>1 DEF IInv, Seen, ExpectedWasSeen, Types
    <3>6. \A m \in Nets : SameSpace(m)
      BY <3>2 DEF Live, SameSpace
    <3>7. Choices' /\ SpacesAreDisjoint'
      BY <2>2, <3>6, SpacesStep
    <3>8. LanesKnow'
      BY <2>3, <3>6 DEF IInv, Types, Lanes, LanesKnow, SameSpace, Known
    <3> QED
      BY <2>2, <2>3, <3>2, <3>3, <3>4, <3>5, <3>7, <3>8
      DEF IInv, Types, ExpectedWasSeen, PeersHaveNetworks, ReadyIsNotRevoked, Known
  <2>5. CASE ~(allowed /\ (a \in AppsOf(n) <=> call[c].pc = "Detach"))
    <3>1. UNCHANGED <<net, attached, blind>>
      BY <1>3, <2>5 DEF Attach
    <3>2. \A d \in Callers : Seen(d)'
      BY <2>2, <3>1, NetStep DEF IInv, Types, Rows, Live, AppsOf
    <3>3. Choices' /\ SpacesAreDisjoint'
      BY <2>2, <3>1, SpacesStep DEF SameSpace, Live
    <3> QED
      BY <2>2, <2>3, <3>1, <3>2, <3>3
      DEF IInv, Types, LanesKnow, ExpectedWasSeen, PeersHaveNetworks, ReadyIsNotRevoked, Known, Live
  <2> QED
    BY <2>4, <2>5
<1>4. ASSUME GrantAccess(c) PROVE IInv'
  <2> DEFINE d0 == call[c].device
  <2>1. d0 \in Devices /\ call[c].links \in SUBSET Nets
    BY <1>4 DEF GrantAccess, IInv, Types, Named, Calls
  <2>2. /\ call' \in [Callers -> Calls] /\ \A d \in Callers : Named(d)'
        /\ \A d \in Callers : call'[d].pc # "Idle" => call'[d] = call[d]
    BY <1>4, EndStep DEF GrantAccess, End
  <2>3. UNCHANGED <<net, attached, appVersion, appStack, swarm, peers, gate, vpn, blind, calls, failures>>
    BY <1>4 DEF GrantAccess, End
  <2>4. /\ device' \in [Devices -> Devs]
        /\ \A d \in Devices : device'[d] = device[d] \/ device'[d].status = "Pending"
    BY <1>4, <2>1 DEF GrantAccess, IInv, Types, Devs
  <2>5. \A d \in Callers : Seen(d)'
    BY <2>2, <2>3, NetStep DEF IInv, Types, Rows, Live, AppsOf
  <2>6. Choices' /\ SpacesAreDisjoint'
    BY <2>2, <2>3, SpacesStep DEF SameSpace, Live
  <2> QED
    BY <2>2, <2>3, <2>4, <2>5, <2>6
    DEF IInv, Types, LanesKnow, ExpectedWasSeen, PeersHaveNetworks, ReadyIsNotRevoked, Known, Live
<1> QED
  BY <1>1, <1>2, <1>3, <1>4

LEMMA AccessStep ==
    ASSUME NetworksAssumption, IInv, NEW c \in Callers, NEW d \in Devices, NEW links \in SUBSET Nets,
           AskForAccess(c, d, links)
    PROVE  IInv'
<1> DEFINE r == [NoCall EXCEPT !.pc = "Access", !.device = d, !.links = links]
<1>1. r \in Calls /\ r.pc = "Access" /\ r.device = d
  BY DEF Calls, NoCall
<1>2. call' = [call EXCEPT ![c] = r] /\ calls' \in Nat
  BY DEF AskForAccess, Begin, IInv, Types
<1> QED
  BY <1>1, <1>2, CallStep DEF AskForAccess, Begin

\* The rows of devices change; one that is known stays known.
LEMMA DeviceStep ==
    ASSUME IInv, device' \in [Devices -> Devs],
           \A d \in Devices : /\ Known(d) => Known(d)'
                              /\ device'[d].status = "Ready" => ~device'[d].revoked,
           UNCHANGED <<net, attached, appVersion, appStack, call, gate, blind>>, calls' \in Nat,
           failures' \in Nat, vpn' \in Lanes, \A d \in Devices : vpn'.peers[d] # None => Known(d)',
           swarm' \in SUBSET Nets, swarm \subseteq swarm', peers' \in Peers,
           \A d \in Devices : peers'[d] # None => Known(d)' /\ peers'[d] \subseteq swarm'
    PROVE  IInv'
<1>1. \A c \in Callers : Named(c)' /\ Seen(c)'
  BY DEF IInv, Named, Seen, Live, AppsOf
<1>2. Choices' /\ SpacesAreDisjoint'
  BY SpacesStep DEF SameSpace, Live
<1> QED
  BY <1>1, <1>2 DEF IInv, Types, LanesKnow, ExpectedWasSeen, PeersHaveNetworks, ReadyIsNotRevoked, Live

\* The version of an application is made or deployed.
LEMMA StackStep ==
    ASSUME IInv, NEW a \in Apps, CreateVersion(a) \/ DeployStack(a)
    PROVE  IInv'
<1>1. UNCHANGED <<net, attached, device, peers, call, gate, vpn, blind, calls>> /\ failures' \in Nat
  BY DEF CreateVersion, DeployStack, IInv, Types
<1>2. /\ appVersion' \in [Apps -> (SUBSET Nets) \cup {None}] /\ appStack' \in [Apps -> SUBSET Nets]
      /\ swarm' \in SUBSET Nets /\ swarm \subseteq swarm'
      /\ \A x \in Apps : appStack'[x] \subseteq swarm'
  <2>1. CASE CreateVersion(a)
    BY <2>1 DEF CreateVersion, IInv, Types, PeersHaveNetworks
  <2>2. CASE DeployStack(a)
    <3>1. appVersion[a] \in SUBSET Nets /\ appVersion' \in [Apps -> (SUBSET Nets) \cup {None}]
      BY <2>2 DEF DeployStack, IInv, Types
    <3>2. CASE appStack' = [appStack EXCEPT ![a] = appVersion[a]] /\ swarm' = swarm \cup appVersion[a]
      BY <3>1, <3>2 DEF IInv, Types, PeersHaveNetworks
    <3>3. CASE swarm' \in {swarm, swarm \cup appVersion[a]} /\ UNCHANGED appStack
      BY <3>1, <3>3 DEF IInv, Types, PeersHaveNetworks
    <3> QED
      BY <2>2, <3>1, <3>2, <3>3 DEF DeployStack
  <2> QED
    BY <2>1, <2>2
<1>3. \A c \in Callers : Named(c)' /\ Seen(c)'
  BY <1>1 DEF IInv, Named, Seen, Live, AppsOf
<1>4. Choices' /\ SpacesAreDisjoint'
  BY <1>1, SpacesStep DEF SameSpace, Live
<1> QED
  BY <1>1, <1>2, <1>3, <1>4
  DEF IInv, Types, LanesKnow, ExpectedWasSeen, PeersHaveNetworks, ReadyIsNotRevoked, Live, Known

LEMMA UserStep ==
    ASSUME NetworksAssumption, IInv, NEW d \in Devices, Revoke(d) \/ ToggleUser(d)
    PROVE  IInv'
<1>1. device' \in [Devices -> Devs]
  <2>1. ASSUME Revoke(d) PROVE device' \in [Devices -> Devs]
    BY <2>1 DEF Revoke, IInv, Types, Devs
  <2>2. ASSUME ToggleUser(d) PROVE device' \in [Devices -> Devs]
    BY <2>2 DEF ToggleUser, IInv, Types, Devs
  <2> QED
    BY <2>1, <2>2
<1>2. \A x \in Devices : /\ Known(x) => Known(x)'
                         /\ device'[x].status = "Ready" => ~device'[x].revoked
  BY <1>1 DEF Revoke, ToggleUser, IInv, Types, Devs, Known, ReadyIsNotRevoked
<1>3. UNCHANGED <<net, attached, appVersion, appStack, call, gate, blind, vpn, swarm, peers, failures>> /\ calls' \in Nat
  BY DEF Revoke, ToggleUser, IInv, Types
<1> QED
  BY <1>1, <1>2, <1>3, DeviceStep DEF IInv, Types, LanesKnow, PeersHaveNetworks

-----------------------------------------------------------------------------
(* Reconcilers *)

LEMMA GatesStep == ASSUME NetworksAssumption, IInv, Gates PROVE IInv'
<1>1. ASSUME ReadNetworks \/ EndOfNetworks PROVE IInv'
  <2>1. gate' \in Lanes /\ \A n \in gate'.pending : Live(n)
    <3>1. CASE ReadNetworks
      BY <3>1 DEF ReadNetworks, IInv, Types, Lanes, Live
    <3>2. CASE EndOfNetworks
      BY <3>2 DEF EndOfNetworks, IdleLane, Lanes, Peers
    <3> QED
      BY <1>1, <3>1, <3>2
  <2>2. UNCHANGED <<net, attached, device, appVersion, appStack, swarm, peers, call, vpn, blind, calls, failures>>
    BY <1>1 DEF ReadNetworks, EndOfNetworks
  <2>3. \A c \in Callers : Named(c)' /\ Seen(c)'
    BY <2>2 DEF IInv, Named, Seen, Live, AppsOf
  <2>4. Choices' /\ SpacesAreDisjoint'
    BY <2>2, SpacesStep DEF SameSpace, Live
  <2> QED
    BY <2>1, <2>2, <2>3, <2>4
    DEF IInv, Types, LanesKnow, ExpectedWasSeen, PeersHaveNetworks, ReadyIsNotRevoked, Live, Known
<1>2. ASSUME NEW n \in Nets, PrepareNetwork(n) PROVE IInv'
  <2>1. Live(n) /\ gate' = [gate EXCEPT !.pending = @ \ {n}] /\ gate' \in Lanes
    BY <1>2 DEF PrepareNetwork, IInv, Types, LanesKnow, Lanes
  <2>2. /\ net' \in [Nets -> Rows] /\ \A m \in Nets \ {n} : net'[m] = net[m]
        /\ net'[n].block = net[n].block /\ net'[n].rev = net[n].rev
        /\ net'[n].overlay = net[n].overlay /\ net'[n].crossed = net[n].crossed
        /\ net'[n].status \in {"Ready", "Error"}
    BY <1>2 DEF PrepareNetwork, IInv, Types, Rows
  <2>3. \A m \in Nets : /\ Live(m)' <=> Live(m)
                        /\ SameSpace(m) /\ net'[m].rev = net[m].rev
                        /\ net[m].status # "None" <=> net'[m].status # "None"
    BY <2>1, <2>2 DEF Live, SameSpace
  <2>4. /\ UNCHANGED <<attached, device, appVersion, appStack, peers, call, vpn, blind, calls>>
        /\ failures' \in Nat
        /\ swarm' \in SUBSET Nets /\ swarm \subseteq swarm'
    BY <1>2 DEF PrepareNetwork, IInv, Types
  <2>5. \A c \in Callers : Named(c)' /\ Seen(c)'
    BY <2>3, <2>4 DEF IInv, Types, Calls, Named, Seen, AppsOf
  <2>6. LanesKnow'
    BY <2>1, <2>3, <2>4 DEF IInv, LanesKnow, Known, Types, Lanes
  <2>7. Choices' /\ SpacesAreDisjoint'
    BY <2>3, <2>4, SpacesStep
  <2>8. PeersHaveNetworks'
    BY <2>4 DEF IInv, PeersHaveNetworks, Known
  <2> QED
    BY <2>1, <2>2, <2>4, <2>5, <2>6, <2>7, <2>8
    DEF IInv, Types, ExpectedWasSeen, ReadyIsNotRevoked
<1>3. ASSUME NEW n \in Nets, RemoveNetwork(n) PROVE IInv'
  <2>1. /\ gate.pending = {} /\ gate' \in Lanes /\ gate'.pending = {}
        /\ UNCHANGED <<appVersion, appStack, peers, vpn, blind, calls>> /\ failures' \in Nat
    BY <1>3 DEF RemoveNetwork, IInv, Types, Lanes
  <2>2. CASE UNCHANGED <<swarm, net, attached, device, call>>
    <3>1. \A c \in Callers : Named(c)' /\ Seen(c)'
      BY <2>1, <2>2 DEF IInv, Named, Seen, Live, AppsOf
    <3>2. Choices' /\ SpacesAreDisjoint'
      BY <2>2, SpacesStep DEF SameSpace, Live
    <3> QED
      BY <2>1, <2>2, <3>1, <3>2
      DEF IInv, Types, LanesKnow, ExpectedWasSeen, PeersHaveNetworks, ReadyIsNotRevoked, Live, Known
  <2>3. CASE /\ ~InUse(n) /\ swarm' = swarm \ {n} /\ net' = [net EXCEPT ![n].status = "Gone"]
             /\ attached' = {x \in attached : x[1] # n}
             /\ device' = [d \in Devices |-> [device[d] EXCEPT !.links = @ \ {n}]]
             /\ call' = [c \in Callers |-> [call[c] EXCEPT !.crossed = call[c].pc = "Create"]]
    <3>1. /\ net' \in [Nets -> Rows] /\ ~Live(n)' /\ net'[n].status # "None"
          /\ \A m \in Nets \ {n} : net'[m] = net[m] /\ AppsOf(m)' = AppsOf(m)
          /\ net'[n].rev = net[n].rev
      BY <2>3 DEF IInv, Types, Rows, Live, AppsOf
    <3>2. attached' \in SUBSET (Nets \X Apps) /\ swarm' \in SUBSET Nets /\ device' \in [Devices -> Devs]
      BY <2>3 DEF IInv, Types, Devs
    <3>3. \A d \in Devices : device'[d].status = device[d].status /\ device'[d].revoked = device[d].revoked
      BY <2>3 DEF IInv, Types, Devs
    <3>4. /\ call' \in [Callers -> Calls]
          /\ \A c \in Callers :
                /\ call'[c].pc = call[c].pc /\ call'[c].net = call[c].net /\ call'[c].app = call[c].app
                /\ call'[c].device = call[c].device /\ call'[c].block = call[c].block
                /\ call'[c].expected = call[c].expected /\ call'[c].seen = call[c].seen
                /\ call[c].pc = "Create" => call'[c].crossed
      <4>1. call \in [Callers -> Calls]
        BY DEF IInv, Types
      <4>2. \A c \in Callers : call'[c] = [call[c] EXCEPT !.crossed = call[c].pc = "Create"]
        BY <2>3
      <4>3. ASSUME NEW c \in Callers PROVE call'[c] \in Calls
        <5>1. PICK b \in BOOLEAN : call'[c] = [call[c] EXCEPT !.crossed = b]
          BY <4>2
        <5> QED
          BY <4>1, <5>1 DEF Calls
      <4>4. call' \in [Callers -> Calls]
        BY <2>3, <4>3
      <4>5. ASSUME NEW c \in Callers, call[c].pc = "Create" PROVE call'[c].crossed
        <5>1. call'[c] = [call[c] EXCEPT !.crossed = TRUE]
          BY <4>2, <4>5
        <5> QED
          BY <4>1, <5>1 DEF Calls
      <4>6. \A c \in Callers :
                /\ call'[c].pc = call[c].pc /\ call'[c].net = call[c].net /\ call'[c].app = call[c].app
                /\ call'[c].device = call[c].device /\ call'[c].block = call[c].block
                /\ call'[c].expected = call[c].expected /\ call'[c].seen = call[c].seen
        BY <4>1, <4>2 DEF Calls
      <4> QED
        BY <4>4, <4>5, <4>6
    <3>5. \A c \in Callers : Named(c)' /\ Seen(c)'
      <4>1. \A c \in Callers : Named(c)'
        BY <3>4 DEF IInv, Named
      <4>2. \A c \in Callers : Seen(c)'
        BY <3>1, <3>4 DEF IInv, Named, Seen, Live
      <4> QED
        BY <4>1, <4>2
    <3>6. Choices' /\ SpacesAreDisjoint'
      <4>1. \A c \in Callers : ~Pending(c)'
        BY <3>4 DEF Pending
      <4>2. SpacesAreDisjoint'
        BY <3>1 DEF IInv, SpacesAreDisjoint, Live
      <4> QED
        BY <4>1, <4>2 DEF Choices, Chosen, Nested
    <3>7. PeersHaveNetworks'
      BY <2>1, <2>3, <3>3 DEF IInv, PeersHaveNetworks, InUse, Known
    <3>8. Types'
      BY <2>1, <3>1, <3>2, <3>4 DEF IInv, Types
    <3>9. LanesKnow' /\ ReadyIsNotRevoked'
      BY <2>1, <3>3 DEF IInv, LanesKnow, ReadyIsNotRevoked, Known
    <3> QED
      BY <2>1, <3>5, <3>6, <3>7, <3>8, <3>9 DEF IInv, ExpectedWasSeen
  <2> QED
    BY <1>3, <2>2, <2>3 DEF RemoveNetwork
<1> QED
  BY <1>1, <1>2, <1>3 DEF Gates

LEMMA VpnStep == ASSUME NetworksAssumption, IInv, Vpn PROVE IInv'
<1>1. ASSUME ReadDevices PROVE IInv'
  <2> DEFINE found == [d \in Devices |-> IF ActiveDevice(d) THEN device[d].links ELSE None]
  <2>1. found \in Peers /\ \A d \in Devices : found[d] # None => Known(d)
    BY DEF IInv, Types, Peers, Devs, ActiveDevice
  <2>2. device' \in [Devices -> Devs]
    BY <1>1 DEF ReadDevices, IInv, Types, Devs
  <2>3. \A d \in Devices : /\ Known(d) => Known(d)'
                           /\ device'[d].status = "Ready" => ~device'[d].revoked
    BY <1>1, <2>2 DEF ReadDevices, IInv, Types, Devs, Known, ReadyIsNotRevoked
  <2>4. /\ UNCHANGED <<net, attached, appVersion, appStack, swarm, call, gate, blind, calls, failures>>
        /\ \/ peers' = found /\ vpn' = vpn /\ \A d \in Devices : found[d] = None
           \/ peers' = peers /\ vpn' = [vpn EXCEPT !.pc = "Deploy", !.peers = found]
    BY <1>1 DEF ReadDevices
  <2>5. vpn' \in Lanes /\ \A d \in Devices : vpn'.peers[d] # None => Known(d)'
    BY <2>1, <2>3, <2>4 DEF IInv, Types, Lanes, LanesKnow
  <2>6. peers' \in Peers /\ \A d \in Devices : peers'[d] # None => Known(d)' /\ peers'[d] \subseteq swarm'
    BY <2>1, <2>3, <2>4 DEF IInv, Types, PeersHaveNetworks
  <2> QED
    BY <2>2, <2>3, <2>4, <2>5, <2>6, DeviceStep DEF IInv, Types
<1>2. ASSUME DeployGateway PROVE IInv'
  <2> DEFINE Wanted == UNION {vpn.peers[d] : d \in {x \in Devices : vpn.peers[x] # None}}
  <2>1. vpn.peers \in Peers /\ Wanted \in SUBSET Nets
    BY DEF IInv, Types, Lanes, Peers
  <2>2. vpn' = IdleLane /\ IdleLane \in Lanes /\ \A d \in Devices : IdleLane.peers[d] = None
    BY <1>2 DEF DeployGateway, IdleLane, Lanes, Peers
  <2>3. UNCHANGED <<net, attached, appVersion, appStack, call, gate, blind, calls>> /\ failures' \in Nat
    BY <1>2 DEF DeployGateway, IInv, Types
  <2>4. CASE /\ swarm' = swarm \cup Wanted /\ peers' = vpn.peers
             /\ device' = ShowReady(vpn.peers)
    <3>1. device' \in [Devices -> Devs]
      BY <2>4 DEF ShowReady, IInv, Types, Devs
    <3>2. \A d \in Devices : /\ Known(d) => Known(d)'
                             /\ device'[d].status = "Ready" => ~device'[d].revoked
      BY <2>4, <3>1 DEF ShowReady, IInv, Types, Devs, Known, ReadyIsNotRevoked
    <3>3. \A d \in Devices : peers'[d] # None => Known(d)' /\ peers'[d] \subseteq swarm'
      BY <2>1, <2>4, <3>2 DEF IInv, LanesKnow
    <3> QED
      BY <2>1, <2>2, <2>3, <2>4, <3>1, <3>2, <3>3, DeviceStep DEF IInv, Types
  <2>5. CASE /\ swarm' \in {swarm, swarm \cup Wanted} /\ peers' = peers
             /\ device' = [d \in Devices |-> IF vpn.peers[d] # None /\ ~device[d].revoked
                                             THEN [device[d] EXCEPT !.status = "Error"] ELSE device[d]]
    <3>1. device' \in [Devices -> Devs]
      BY <2>5 DEF IInv, Types, Devs
    <3>2. \A d \in Devices : /\ Known(d) => Known(d)'
                             /\ device'[d].status = "Ready" => ~device'[d].revoked
      BY <2>5, <3>1 DEF IInv, Types, Devs, Known, ReadyIsNotRevoked
    <3>3. \A d \in Devices : peers'[d] # None => Known(d)' /\ peers'[d] \subseteq swarm'
      BY <2>5, <3>2 DEF IInv, PeersHaveNetworks
    <3>4. swarm' \in SUBSET Nets
      BY <2>1, <2>5 DEF IInv, Types
    <3> QED
      BY <2>1, <2>2, <2>3, <2>5, <3>1, <3>2, <3>3, <3>4, DeviceStep DEF IInv, Types
  <2> QED
    BY <1>2, <2>4, <2>5 DEF DeployGateway
<1> QED
  BY <1>1, <1>2 DEF Vpn

-----------------------------------------------------------------------------
(* Theorems *)

\* What a request has seen of a network holds as long as its revision, and what the two
\* reconcilers have read is still there when they act on it.
THEOREM Inductive ==
    ASSUME NetworksAssumption
    PROVE  Spec => []IInv
<1>1. Init => IInv
  BY InitIInv
<1>2. IInv /\ [Next]_vars => IInv'
  <2> SUFFICES ASSUME IInv, [Next]_vars PROVE IInv'
    OBVIOUS
  <2>1. CASE UNCHANGED vars
    <3>1. UNCHANGED <<net, attached, device, appVersion, appStack, swarm, peers, call, gate, vpn, blind>>
      BY <2>1 DEF vars
    <3>2. Choices' /\ SpacesAreDisjoint'
      BY <3>1, SpacesStep DEF SameSpace, Live
    <3> QED
      BY <2>1, <3>2 DEF vars, IInv, Types, Named, Seen, LanesKnow, ExpectedWasSeen,
                        PeersHaveNetworks, ReadyIsNotRevoked, Live, Known, AppsOf
  <2> QED
    BY <2>1, AskStep, ChangeStep, AccessStep, StackStep, UserStep, GatesStep, VpnStep DEF Next
<1> QED
  BY <1>1, <1>2, PTL DEF Spec

\* Networks have address spaces of their own unless one went while another was created, a
\* request changes the topology it expected or nothing, the networks of the VPN's peers and of
\* deployed stacks exist, and a revoked device is not shown as ready (NetworkingService and its
\* reconcilers), in whatever windows the requests meet.
THEOREM NetworksAreSafe ==
    ASSUME NetworksAssumption
    PROVE  Spec => []NetworkSafety
<1>1. IInv => NetworkSafety
  <2>1. Types => TypeOK
    BY DEF Types, TypeOK, Rows, Devs, Peers
  <2> QED
    BY <2>1 DEF IInv, NetworkSafety
<1> QED
  BY <1>1, Inductive, PTL

-----------------------------------------------------------------------------
(* Installs and resets of the primary node, for any number of runs, of events on the host and *)
(* of generations of secrets.  Marks follow the order of the phases, what a mark says is there *)
(* until a reset undoes it, and whatever has a secret has that of the files. *)

Marks ==
    {"storage", "swarm", "secrets", "bootstrap", "migrations", "identity", "ingress", "final",
     "persist"}
ResetMarks ==
    {"preserve", "stack", "resources", "unmount", "leave", "wipe", "data", "state", "cleanup"}
Stacks == [stage : {"None", "bootstrap", "ingress", "final"}, url : Nat, key : Nat, oidc : Nat]
Swarms == [active : BOOLEAN, named : Nat, url : Nat]
Data == [rp : Nat, idp : Nat, client : 0..MaxStamp, schema : BOOLEAN]
Procs ==
    [mode : {"Idle", "Install", "Factory"},
     did : {"None", "Restored", "files", "client", "issued"} \cup Marks \cup ResetMarks,
     oidc : 0..MaxStamp]

InstallTypes ==
    /\ done \in SUBSET Marks /\ fdone \in SUBSET ResetMarks
    /\ installFiles \in 0..MaxStamp /\ stamp \in 0..MaxStamp /\ conf \in (0..MaxStamp) \cup {None}
    /\ installSwarm \in Swarms /\ stack \in Stacks /\ installDb \in Data /\ proc \in Procs
    /\ docker = TRUE /\ {mounted, cert, cache, spared} \subseteq BOOLEAN
    /\ disk \in {"storage", "spare"} /\ plan \in {None, "storage"}
    /\ issued \in Nat /\ report \in {"None", "Installed", "Reset"}

\* Phases are marked in their order.
InOrder ==
    /\ "swarm" \in done => "storage" \in done
    /\ "secrets" \in done => "swarm" \in done
    /\ "bootstrap" \in done => "secrets" \in done
    /\ "migrations" \in done => "bootstrap" \in done
    /\ "identity" \in done => "migrations" \in done
    /\ "ingress" \in done => "identity" \in done
    /\ "final" \in done => "ingress" \in done
    /\ "persist" \in done => "final" \in done
ResetInOrder ==
    /\ "stack" \in fdone => "preserve" \in fdone
    /\ "resources" \in fdone => "stack" \in fdone
    /\ "unmount" \in fdone => "resources" \in fdone
    /\ "leave" \in fdone => "unmount" \in fdone
    /\ "wipe" \in fdone => "leave" \in fdone
    /\ "data" \in fdone => "wipe" \in fdone
    /\ "state" \in fdone => "data" \in fdone
    /\ "cleanup" \notin fdone

\* An effect is there: it was marked, or this run has it and has not marked it yet.
Has(phase) == phase \in done \/ (proc.mode = "Install" /\ proc.did = phase)
Undone(phase) == phase \in fdone \/ (proc.mode = "Factory" /\ proc.did = phase)

\* A run is at the phase that follows what is marked.
AtPhase ==
    /\ proc.mode = "Idle" => proc.did = "None"
    /\ proc.mode = "Install" =>
          /\ fdone = {} /\ disk = "storage"
          /\ proc.did \in {"None", "Restored", "files", "client", "issued"} \cup Marks
          /\ proc.did \in Marks => proc.did \notin done
          /\ proc.did \in {"swarm"} => "storage" \in done
          /\ proc.did \in {"files", "secrets"} => "swarm" \in done /\ "secrets" \notin done
          /\ proc.did = "bootstrap" => "secrets" \in done
          /\ proc.did = "migrations" => "bootstrap" \in done
          /\ proc.did \in {"client", "identity"} => "migrations" \in done
          /\ proc.did = "client" => "identity" \notin done
          /\ proc.did = "ingress" => "identity" \in done
          /\ proc.did \in {"issued", "final"} => "ingress" \in done
          /\ proc.did = "issued" => "final" \notin done
          /\ proc.did = "persist" => "final" \in done
    /\ proc.mode = "Factory" =>
          /\ proc.did \in {"None"} \cup ResetMarks
          /\ proc.did \notin fdone
          /\ proc.did = "stack" => "preserve" \in fdone
          /\ proc.did = "resources" => "stack" \in fdone
          /\ proc.did = "unmount" => "resources" \in fdone
          /\ proc.did = "leave" => "unmount" \in fdone
          /\ proc.did = "wipe" => "leave" \in fdone
          /\ proc.did = "data" => "wipe" \in fdone
          /\ proc.did = "state" => "data" \in fdone
          /\ proc.did = "cleanup" => "state" \in fdone
    /\ report # "None" => proc.mode = "Idle"

\* Whatever has a secret has that of the files.
SecretsAreFiles ==
    /\ installSwarm.named \in {0, installFiles} /\ installSwarm.url \in {0, installFiles}
    /\ installDb.rp \in {0, installFiles} /\ installDb.idp \in {0, installFiles}
    /\ ~installSwarm.active => installSwarm = Install!NoSwarm
    /\ stack.stage = "None" => stack = Install!NoStack
    /\ stack.stage # "None" =>
          /\ installFiles # 0 /\ installSwarm.active /\ mounted
          /\ stack.url = installFiles /\ stack.key = installFiles
          /\ installDb.rp = installFiles /\ installDb.idp = installFiles
    /\ proc.mode = "Install" =>
          /\ proc.did = "files" \/ Has("secrets") =>
                installFiles # 0 /\ installSwarm.active /\ installSwarm.named = installFiles
          /\ Has("secrets") => installSwarm.url = installFiles

\* What the marks of an install say is so, until a reset undoes it.
MarksAreTrue ==
    /\ fdone = {} /\ Has("storage") => mounted
    /\ fdone = {} /\ Has("bootstrap") => stack.stage # "None"
    /\ fdone = {} /\ Has("migrations") => installDb.schema
    /\ fdone = {} /\ (Has("identity") \/ Has("client")) => installDb.client # 0
    /\ fdone = {} /\ (Has("final") \/ Has("issued")) =>
          stack.stage = "final" /\ stack.oidc = installDb.client
    /\ fdone = {} /\ Has("persist") => conf # None

\* The client of the identity provider is the one that the configuration names, or this run.
ClientIsKnown ==
    /\ fdone = {} /\ installDb.client # 0 =>
          /\ "migrations" \in done
          /\ conf = installDb.client \/ (proc.mode = "Install" /\ proc.did = "client")
    /\ proc.mode = "Install" /\ installDb.client # 0 => proc.oidc = installDb.client

\* What a reset undid stays undone until it ends.
ResetIsTrue ==
    /\ Undone("stack") => stack = Install!NoStack
    /\ Undone("unmount") => ~mounted
    /\ Undone("leave") => installSwarm = Install!NoSwarm
    /\ Undone("wipe") => installDb = Install!NoData
    /\ Undone("data") => conf = None
    /\ Undone("state") => done = {} /\ installFiles = 0
    /\ plan = None => conf = None \/ disk = "storage"
    /\ proc.mode = "Factory" => plan # None \/ proc.did = "cleanup"
    /\ plan = None => fdone = {} \/ "state" \in fdone

\* The certificate that was ordered is on the storage or in the cache.
CertificateIsKept ==
    /\ issued <= 1
    /\ issued # 0 => cache \/ (cert /\ mounted)
    /\ issued # 0 /\ Undone("preserve") => cache
    /\ fdone = {} /\ (Has("ingress") \/ Has("issued")) /\ issued # 0 => cert
    /\ proc.mode = "Install" /\ proc.did = "issued" => cert

InstallInv ==
    /\ InstallTypes /\ InOrder /\ ResetInOrder /\ AtPhase
    /\ SecretsAreFiles /\ MarksAreTrue /\ ClientIsKnown
    /\ ResetIsTrue /\ CertificateIsKept /\ spared
    /\ Install!InstalledIsDeployed /\ Install!ResetDestroys

-----------------------------------------------------------------------------
(* The phase a run is at *)

\* The first phase that is not marked is the one that is run.
LEMMA FirstLeft ==
    ASSUME NEW phases, NEW marked, Len(phases) \in Nat, NEW k \in 1..Len(phases),
           phases[k] \notin marked, \A i \in 1..(k - 1) : phases[i] \in marked
    PROVE  Install!Current(phases, marked) = phases[k]
<1> DEFINE left == {i \in 1..Len(phases) : phases[i] \notin marked}
<1>1. k \in left /\ \A j \in left : k <= j
  OBVIOUS
<1>2. \A i \in left : (\A j \in left : i <= j) => i = k
  BY <1>1
<1>3. (CHOOSE i \in left : \A j \in left : i <= j) = k
  BY <1>1, <1>2
<1> QED
  BY <1>1, <1>3 DEF Install!Current

LEMMA NoneLeft ==
    ASSUME NEW phases, NEW marked, \A i \in 1..Len(phases) : phases[i] \in marked
    PROVE  Install!Current(phases, marked) = "End"
BY DEF Install!Current

\* The phases of an install, one after the other.
LEMMA InstallOrder ==
    \/ Install!Current(Install!InstallPhases, done) = "End" /\ Marks \subseteq done
    \/ Install!Current(Install!InstallPhases, done) = "storage" /\ "storage" \notin done
    \/ /\ Install!Current(Install!InstallPhases, done) = "swarm"
       /\ {"storage"} \subseteq done /\ "swarm" \notin done
    \/ /\ Install!Current(Install!InstallPhases, done) = "secrets"
       /\ {"storage", "swarm"} \subseteq done /\ "secrets" \notin done
    \/ /\ Install!Current(Install!InstallPhases, done) = "bootstrap"
       /\ {"storage", "swarm", "secrets"} \subseteq done /\ "bootstrap" \notin done
    \/ /\ Install!Current(Install!InstallPhases, done) = "migrations"
       /\ {"storage", "swarm", "secrets", "bootstrap"} \subseteq done /\ "migrations" \notin done
    \/ /\ Install!Current(Install!InstallPhases, done) = "identity"
       /\ {"storage", "swarm", "secrets", "bootstrap", "migrations"} \subseteq done
       /\ "identity" \notin done
    \/ /\ Install!Current(Install!InstallPhases, done) = "ingress"
       /\ {"storage", "swarm", "secrets", "bootstrap", "migrations", "identity"} \subseteq done
       /\ "ingress" \notin done
    \/ /\ Install!Current(Install!InstallPhases, done) = "final"
       /\ {"storage", "swarm", "secrets", "bootstrap", "migrations", "identity", "ingress"} \subseteq done
       /\ "final" \notin done
    \/ /\ Install!Current(Install!InstallPhases, done) = "persist"
       /\ {"storage", "swarm", "secrets", "bootstrap", "migrations", "identity", "ingress", "final"} \subseteq done
       /\ "persist" \notin done
<1>1. Len(Install!InstallPhases) = 9
  BY DEF Install!InstallPhases
<1>2. ASSUME "storage" \notin done PROVE Install!Current(Install!InstallPhases, done) = "storage"
  <2>1. \A i \in 1..(1 - 1) : Install!InstallPhases[i] \in done
    BY <1>2 DEF Install!InstallPhases
  <2>2. Install!InstallPhases[1] = "storage"
    BY DEF Install!InstallPhases
  <2>3. /\ Len(Install!InstallPhases) \in Nat /\ 1 \in 1..Len(Install!InstallPhases)
        /\ Install!InstallPhases[1] \notin done
    BY <1>1, <1>2, <2>2
  <2>4. Install!Current(Install!InstallPhases, done) = Install!InstallPhases[1]
    BY <2>1, <2>3, FirstLeft
  <2> QED
    BY <2>2, <2>4
<1>3. ASSUME {"storage"} \subseteq done, "swarm" \notin done
      PROVE  Install!Current(Install!InstallPhases, done) = "swarm"
  <2>1. \A i \in 1..(2 - 1) : Install!InstallPhases[i] \in done
    BY <1>3 DEF Install!InstallPhases
  <2>2. Install!InstallPhases[2] = "swarm"
    BY DEF Install!InstallPhases
  <2>3. /\ Len(Install!InstallPhases) \in Nat /\ 2 \in 1..Len(Install!InstallPhases)
        /\ Install!InstallPhases[2] \notin done
    BY <1>1, <1>3, <2>2
  <2>4. Install!Current(Install!InstallPhases, done) = Install!InstallPhases[2]
    BY <2>1, <2>3, FirstLeft
  <2> QED
    BY <2>2, <2>4
<1>4. ASSUME {"storage", "swarm"} \subseteq done, "secrets" \notin done
      PROVE  Install!Current(Install!InstallPhases, done) = "secrets"
  <2>1. \A i \in 1..(3 - 1) : Install!InstallPhases[i] \in done
    BY <1>4 DEF Install!InstallPhases
  <2>2. Install!InstallPhases[3] = "secrets"
    BY DEF Install!InstallPhases
  <2>3. /\ Len(Install!InstallPhases) \in Nat /\ 3 \in 1..Len(Install!InstallPhases)
        /\ Install!InstallPhases[3] \notin done
    BY <1>1, <1>4, <2>2
  <2>4. Install!Current(Install!InstallPhases, done) = Install!InstallPhases[3]
    BY <2>1, <2>3, FirstLeft
  <2> QED
    BY <2>2, <2>4
<1>5. ASSUME {"storage", "swarm", "secrets"} \subseteq done, "bootstrap" \notin done
      PROVE  Install!Current(Install!InstallPhases, done) = "bootstrap"
  <2>1. \A i \in 1..(4 - 1) : Install!InstallPhases[i] \in done
    BY <1>5 DEF Install!InstallPhases
  <2>2. Install!InstallPhases[4] = "bootstrap"
    BY DEF Install!InstallPhases
  <2>3. /\ Len(Install!InstallPhases) \in Nat /\ 4 \in 1..Len(Install!InstallPhases)
        /\ Install!InstallPhases[4] \notin done
    BY <1>1, <1>5, <2>2
  <2>4. Install!Current(Install!InstallPhases, done) = Install!InstallPhases[4]
    BY <2>1, <2>3, FirstLeft
  <2> QED
    BY <2>2, <2>4
<1>6. ASSUME {"storage", "swarm", "secrets", "bootstrap"} \subseteq done, "migrations" \notin done
      PROVE  Install!Current(Install!InstallPhases, done) = "migrations"
  <2>1. \A i \in 1..(5 - 1) : Install!InstallPhases[i] \in done
    BY <1>6 DEF Install!InstallPhases
  <2>2. Install!InstallPhases[5] = "migrations"
    BY DEF Install!InstallPhases
  <2>3. /\ Len(Install!InstallPhases) \in Nat /\ 5 \in 1..Len(Install!InstallPhases)
        /\ Install!InstallPhases[5] \notin done
    BY <1>1, <1>6, <2>2
  <2>4. Install!Current(Install!InstallPhases, done) = Install!InstallPhases[5]
    BY <2>1, <2>3, FirstLeft
  <2> QED
    BY <2>2, <2>4
<1>7. ASSUME {"storage", "swarm", "secrets", "bootstrap", "migrations"} \subseteq done,
             "identity" \notin done
      PROVE  Install!Current(Install!InstallPhases, done) = "identity"
  <2>1. \A i \in 1..(6 - 1) : Install!InstallPhases[i] \in done
    BY <1>7 DEF Install!InstallPhases
  <2>2. Install!InstallPhases[6] = "identity"
    BY DEF Install!InstallPhases
  <2>3. /\ Len(Install!InstallPhases) \in Nat /\ 6 \in 1..Len(Install!InstallPhases)
        /\ Install!InstallPhases[6] \notin done
    BY <1>1, <1>7, <2>2
  <2>4. Install!Current(Install!InstallPhases, done) = Install!InstallPhases[6]
    BY <2>1, <2>3, FirstLeft
  <2> QED
    BY <2>2, <2>4
<1>8. ASSUME {"storage", "swarm", "secrets", "bootstrap", "migrations", "identity"} \subseteq done,
             "ingress" \notin done
      PROVE  Install!Current(Install!InstallPhases, done) = "ingress"
  <2>1. \A i \in 1..(7 - 1) : Install!InstallPhases[i] \in done
    BY <1>8 DEF Install!InstallPhases
  <2>2. Install!InstallPhases[7] = "ingress"
    BY DEF Install!InstallPhases
  <2>3. /\ Len(Install!InstallPhases) \in Nat /\ 7 \in 1..Len(Install!InstallPhases)
        /\ Install!InstallPhases[7] \notin done
    BY <1>1, <1>8, <2>2
  <2>4. Install!Current(Install!InstallPhases, done) = Install!InstallPhases[7]
    BY <2>1, <2>3, FirstLeft
  <2> QED
    BY <2>2, <2>4
<1>9. ASSUME {"storage", "swarm", "secrets", "bootstrap", "migrations", "identity", "ingress"}
                 \subseteq done,
             "final" \notin done
      PROVE  Install!Current(Install!InstallPhases, done) = "final"
  <2>1. \A i \in 1..(8 - 1) : Install!InstallPhases[i] \in done
    BY <1>9 DEF Install!InstallPhases
  <2>2. Install!InstallPhases[8] = "final"
    BY DEF Install!InstallPhases
  <2>3. /\ Len(Install!InstallPhases) \in Nat /\ 8 \in 1..Len(Install!InstallPhases)
        /\ Install!InstallPhases[8] \notin done
    BY <1>1, <1>9, <2>2
  <2>4. Install!Current(Install!InstallPhases, done) = Install!InstallPhases[8]
    BY <2>1, <2>3, FirstLeft
  <2> QED
    BY <2>2, <2>4
<1>10. ASSUME {"storage", "swarm", "secrets", "bootstrap", "migrations", "identity", "ingress", "final"}
                 \subseteq done,
             "persist" \notin done
       PROVE  Install!Current(Install!InstallPhases, done) = "persist"
  <2>1. \A i \in 1..(9 - 1) : Install!InstallPhases[i] \in done
    BY <1>10 DEF Install!InstallPhases
  <2>2. Install!InstallPhases[9] = "persist"
    BY DEF Install!InstallPhases
  <2>3. /\ Len(Install!InstallPhases) \in Nat /\ 9 \in 1..Len(Install!InstallPhases)
        /\ Install!InstallPhases[9] \notin done
    BY <1>1, <1>10, <2>2
  <2>4. Install!Current(Install!InstallPhases, done) = Install!InstallPhases[9]
    BY <2>1, <2>3, FirstLeft
  <2> QED
    BY <2>2, <2>4
<1>11. ASSUME Marks \subseteq done PROVE Install!Current(Install!InstallPhases, done) = "End"
  BY <1>1, <1>11, NoneLeft DEF Install!InstallPhases, Marks
<1> QED
  BY <1>2, <1>3, <1>4, <1>5, <1>6, <1>7, <1>8, <1>9, <1>10, <1>11 DEF Marks

\* The phases of a reset, one after the other.
LEMMA ResetOrder ==
    \/ Install!Current(Install!ResetPhases, fdone) = "End" /\ ResetMarks \subseteq fdone
    \/ Install!Current(Install!ResetPhases, fdone) = "preserve" /\ "preserve" \notin fdone
    \/ /\ Install!Current(Install!ResetPhases, fdone) = "stack"
       /\ {"preserve"} \subseteq fdone /\ "stack" \notin fdone
    \/ /\ Install!Current(Install!ResetPhases, fdone) = "resources"
       /\ {"preserve", "stack"} \subseteq fdone /\ "resources" \notin fdone
    \/ /\ Install!Current(Install!ResetPhases, fdone) = "unmount"
       /\ {"preserve", "stack", "resources"} \subseteq fdone /\ "unmount" \notin fdone
    \/ /\ Install!Current(Install!ResetPhases, fdone) = "leave"
       /\ {"preserve", "stack", "resources", "unmount"} \subseteq fdone /\ "leave" \notin fdone
    \/ /\ Install!Current(Install!ResetPhases, fdone) = "wipe"
       /\ {"preserve", "stack", "resources", "unmount", "leave"} \subseteq fdone
       /\ "wipe" \notin fdone
    \/ /\ Install!Current(Install!ResetPhases, fdone) = "data"
       /\ {"preserve", "stack", "resources", "unmount", "leave", "wipe"} \subseteq fdone
       /\ "data" \notin fdone
    \/ /\ Install!Current(Install!ResetPhases, fdone) = "state"
       /\ {"preserve", "stack", "resources", "unmount", "leave", "wipe", "data"} \subseteq fdone
       /\ "state" \notin fdone
    \/ /\ Install!Current(Install!ResetPhases, fdone) = "cleanup"
       /\ {"preserve", "stack", "resources", "unmount", "leave", "wipe", "data", "state"} \subseteq fdone
       /\ "cleanup" \notin fdone
<1>1. Len(Install!ResetPhases) = 9
  BY DEF Install!ResetPhases
<1>2. ASSUME "preserve" \notin fdone
      PROVE  Install!Current(Install!ResetPhases, fdone) = "preserve"
  <2>1. \A i \in 1..(1 - 1) : Install!ResetPhases[i] \in fdone
    BY <1>2 DEF Install!ResetPhases
  <2>2. Install!ResetPhases[1] = "preserve"
    BY DEF Install!ResetPhases
  <2>3. /\ Len(Install!ResetPhases) \in Nat /\ 1 \in 1..Len(Install!ResetPhases)
        /\ Install!ResetPhases[1] \notin fdone
    BY <1>1, <1>2, <2>2
  <2>4. Install!Current(Install!ResetPhases, fdone) = Install!ResetPhases[1]
    BY <2>1, <2>3, FirstLeft
  <2> QED
    BY <2>2, <2>4
<1>3. ASSUME {"preserve"} \subseteq fdone, "stack" \notin fdone
      PROVE  Install!Current(Install!ResetPhases, fdone) = "stack"
  <2>1. \A i \in 1..(2 - 1) : Install!ResetPhases[i] \in fdone
    BY <1>3 DEF Install!ResetPhases
  <2>2. Install!ResetPhases[2] = "stack"
    BY DEF Install!ResetPhases
  <2>3. /\ Len(Install!ResetPhases) \in Nat /\ 2 \in 1..Len(Install!ResetPhases)
        /\ Install!ResetPhases[2] \notin fdone
    BY <1>1, <1>3, <2>2
  <2>4. Install!Current(Install!ResetPhases, fdone) = Install!ResetPhases[2]
    BY <2>1, <2>3, FirstLeft
  <2> QED
    BY <2>2, <2>4
<1>4. ASSUME {"preserve", "stack"} \subseteq fdone, "resources" \notin fdone
      PROVE  Install!Current(Install!ResetPhases, fdone) = "resources"
  <2>1. \A i \in 1..(3 - 1) : Install!ResetPhases[i] \in fdone
    BY <1>4 DEF Install!ResetPhases
  <2>2. Install!ResetPhases[3] = "resources"
    BY DEF Install!ResetPhases
  <2>3. /\ Len(Install!ResetPhases) \in Nat /\ 3 \in 1..Len(Install!ResetPhases)
        /\ Install!ResetPhases[3] \notin fdone
    BY <1>1, <1>4, <2>2
  <2>4. Install!Current(Install!ResetPhases, fdone) = Install!ResetPhases[3]
    BY <2>1, <2>3, FirstLeft
  <2> QED
    BY <2>2, <2>4
<1>5. ASSUME {"preserve", "stack", "resources"} \subseteq fdone, "unmount" \notin fdone
      PROVE  Install!Current(Install!ResetPhases, fdone) = "unmount"
  <2>1. \A i \in 1..(4 - 1) : Install!ResetPhases[i] \in fdone
    BY <1>5 DEF Install!ResetPhases
  <2>2. Install!ResetPhases[4] = "unmount"
    BY DEF Install!ResetPhases
  <2>3. /\ Len(Install!ResetPhases) \in Nat /\ 4 \in 1..Len(Install!ResetPhases)
        /\ Install!ResetPhases[4] \notin fdone
    BY <1>1, <1>5, <2>2
  <2>4. Install!Current(Install!ResetPhases, fdone) = Install!ResetPhases[4]
    BY <2>1, <2>3, FirstLeft
  <2> QED
    BY <2>2, <2>4
<1>6. ASSUME {"preserve", "stack", "resources", "unmount"} \subseteq fdone, "leave" \notin fdone
      PROVE  Install!Current(Install!ResetPhases, fdone) = "leave"
  <2>1. \A i \in 1..(5 - 1) : Install!ResetPhases[i] \in fdone
    BY <1>6 DEF Install!ResetPhases
  <2>2. Install!ResetPhases[5] = "leave"
    BY DEF Install!ResetPhases
  <2>3. /\ Len(Install!ResetPhases) \in Nat /\ 5 \in 1..Len(Install!ResetPhases)
        /\ Install!ResetPhases[5] \notin fdone
    BY <1>1, <1>6, <2>2
  <2>4. Install!Current(Install!ResetPhases, fdone) = Install!ResetPhases[5]
    BY <2>1, <2>3, FirstLeft
  <2> QED
    BY <2>2, <2>4
<1>7. ASSUME {"preserve", "stack", "resources", "unmount", "leave"} \subseteq fdone,
             "wipe" \notin fdone
      PROVE  Install!Current(Install!ResetPhases, fdone) = "wipe"
  <2>1. \A i \in 1..(6 - 1) : Install!ResetPhases[i] \in fdone
    BY <1>7 DEF Install!ResetPhases
  <2>2. Install!ResetPhases[6] = "wipe"
    BY DEF Install!ResetPhases
  <2>3. /\ Len(Install!ResetPhases) \in Nat /\ 6 \in 1..Len(Install!ResetPhases)
        /\ Install!ResetPhases[6] \notin fdone
    BY <1>1, <1>7, <2>2
  <2>4. Install!Current(Install!ResetPhases, fdone) = Install!ResetPhases[6]
    BY <2>1, <2>3, FirstLeft
  <2> QED
    BY <2>2, <2>4
<1>8. ASSUME {"preserve", "stack", "resources", "unmount", "leave", "wipe"} \subseteq fdone,
             "data" \notin fdone
      PROVE  Install!Current(Install!ResetPhases, fdone) = "data"
  <2>1. \A i \in 1..(7 - 1) : Install!ResetPhases[i] \in fdone
    BY <1>8 DEF Install!ResetPhases
  <2>2. Install!ResetPhases[7] = "data"
    BY DEF Install!ResetPhases
  <2>3. /\ Len(Install!ResetPhases) \in Nat /\ 7 \in 1..Len(Install!ResetPhases)
        /\ Install!ResetPhases[7] \notin fdone
    BY <1>1, <1>8, <2>2
  <2>4. Install!Current(Install!ResetPhases, fdone) = Install!ResetPhases[7]
    BY <2>1, <2>3, FirstLeft
  <2> QED
    BY <2>2, <2>4
<1>9. ASSUME {"preserve", "stack", "resources", "unmount", "leave", "wipe", "data"} \subseteq fdone,
             "state" \notin fdone
      PROVE  Install!Current(Install!ResetPhases, fdone) = "state"
  <2>1. \A i \in 1..(8 - 1) : Install!ResetPhases[i] \in fdone
    BY <1>9 DEF Install!ResetPhases
  <2>2. Install!ResetPhases[8] = "state"
    BY DEF Install!ResetPhases
  <2>3. /\ Len(Install!ResetPhases) \in Nat /\ 8 \in 1..Len(Install!ResetPhases)
        /\ Install!ResetPhases[8] \notin fdone
    BY <1>1, <1>9, <2>2
  <2>4. Install!Current(Install!ResetPhases, fdone) = Install!ResetPhases[8]
    BY <2>1, <2>3, FirstLeft
  <2> QED
    BY <2>2, <2>4
<1>10. ASSUME {"preserve", "stack", "resources", "unmount", "leave", "wipe", "data", "state"}
                 \subseteq fdone,
             "cleanup" \notin fdone
       PROVE  Install!Current(Install!ResetPhases, fdone) = "cleanup"
  <2>1. \A i \in 1..(9 - 1) : Install!ResetPhases[i] \in fdone
    BY <1>10 DEF Install!ResetPhases
  <2>2. Install!ResetPhases[9] = "cleanup"
    BY DEF Install!ResetPhases
  <2>3. /\ Len(Install!ResetPhases) \in Nat /\ 9 \in 1..Len(Install!ResetPhases)
        /\ Install!ResetPhases[9] \notin fdone
    BY <1>1, <1>10, <2>2
  <2>4. Install!Current(Install!ResetPhases, fdone) = Install!ResetPhases[9]
    BY <2>1, <2>3, FirstLeft
  <2> QED
    BY <2>2, <2>4
<1>11. ASSUME ResetMarks \subseteq fdone PROVE Install!Current(Install!ResetPhases, fdone) = "End"
  BY <1>1, <1>11, NoneLeft DEF Install!ResetPhases, ResetMarks
<1> QED
  BY <1>2, <1>3, <1>4, <1>5, <1>6, <1>7, <1>8, <1>9, <1>10, <1>11 DEF ResetMarks

InstallKnown ==
    Install!InstallAssumption /\ InstallInv

LEMMA NothingIsTyped ==
    ASSUME Install!InstallAssumption
    PROVE  /\ Install!NoData \in Data /\ Install!NoSwarm \in Swarms
           /\ Install!NoStack \in Stacks /\ Install!Idle \in Procs
BY DEF InstallKnown, Install!InstallAssumption, Install!NoData, Data, Install!NoSwarm, Swarms,
       Install!NoStack, Stacks, Install!Idle, Procs

LEMMA InitialisedIs ==
    ASSUME InstallKnown, NEW data \in Data
    PROVE  /\ Install!Initialised(data) \in Data
           /\ Install!Initialised(data).rp = IF data.rp = 0 THEN installSwarm.named ELSE data.rp
           /\ Install!Initialised(data).idp = IF data.idp = 0 THEN installFiles ELSE data.idp
           /\ Install!Initialised(data).client = data.client
           /\ Install!Initialised(data).schema = data.schema
<1>1. installSwarm.named \in Nat /\ installFiles \in Nat
  BY DEF InstallKnown, Install!InstallAssumption, InstallInv, InstallTypes, Swarms
<1> QED
  BY <1>1 DEF Install!Initialised, Data

LEMMA StorageIsDisk == ASSUME InstallKnown, Install!WipeStorage PROVE disk = "storage"
BY DEF InstallKnown, Install!InstallAssumption, InstallInv, InstallTypes, AtPhase, ResetIsTrue,
       Install!WipeStorage, Install!ResetAt, Install!Revalidated

LEMMA StartInstallTyped == ASSUME InstallKnown, Install!StartInstall PROVE InstallTypes'
<1>1. proc' \in Procs
  BY DEF InstallKnown, InstallInv, InstallTypes, Procs, Marks, ResetMarks, Install!Idle,
         ClientIsKnown, Install!InstallAssumption, Install!StartInstall, Install!Start,
         Install!RestoredClient, Install!state, Install!cluster, Install!storage,
         Install!resetting, Install!bounds
<1>2. installSwarm' \in Swarms
  <2>1. CASE "secrets" \in done
    <3>1. installFiles \in Nat /\ installSwarm.named \in Nat /\ installSwarm.url \in Nat
      BY DEF InstallKnown, Install!InstallAssumption, InstallInv, InstallTypes, Swarms
    <3>2. installSwarm' = [active |-> TRUE, named |-> IF installSwarm.named = 0 THEN installFiles ELSE installSwarm.named,
                                     url |-> IF installSwarm.url = 0 THEN installFiles ELSE installSwarm.url]
      BY <2>1 DEF Install!StartInstall
    <3> QED
      BY <3>1, <3>2 DEF Swarms
  <2>2. CASE "secrets" \notin done
    BY <2>2 DEF InstallKnown, InstallInv, InstallTypes, Install!StartInstall
  <2> QED
    BY <2>1, <2>2
<1>3. stack' \in Stacks
  BY DEF InstallKnown, InstallInv, InstallTypes, Stacks, Install!NoStack, Install!StartInstall,
         Install!Start, Install!RestoredClient, Install!state, Install!cluster, Install!storage,
         Install!resetting, Install!bounds
<1>4. installDb' \in Data
  BY DEF InstallKnown, InstallInv, InstallTypes, Data, Install!NoData,
         Install!InstallAssumption, Install!StartInstall, Install!Start, Install!RestoredClient,
         Install!state, Install!cluster, Install!storage, Install!resetting, Install!bounds
<1> QED
  BY <1>1, <1>2, <1>3, <1>4
     DEF InstallKnown, Install!InstallAssumption, InstallInv, InstallTypes, AtPhase,
         ResetIsTrue, Procs, Marks, ResetMarks, Install!StartInstall, Install!Start,
         Install!RestoredClient, Install!state, Install!cluster, Install!storage,
         Install!resetting, Install!bounds

LEMMA RecoverTyped == ASSUME InstallKnown, Install!Recover PROVE InstallTypes'
<1>1. proc' \in Procs
  BY DEF InstallKnown, InstallInv, InstallTypes, Procs, Marks, ResetMarks, Install!Idle,
         ClientIsKnown, Install!InstallAssumption, Install!Recover, Install!Deploy,
         Install!Initialised, Install!HalfBootstrapped, Install!Did, Install!state,
         Install!cluster, Install!storage, Install!resetting, Install!bounds
<1>2. installSwarm' \in Swarms
  BY DEF InstallKnown, InstallInv, InstallTypes, Swarms, Install!NoSwarm, Install!Recover,
         Install!Deploy, Install!Initialised, Install!HalfBootstrapped, Install!Did,
         Install!state, Install!cluster, Install!storage, Install!resetting, Install!bounds
<1>3. stack' \in Stacks
  BY DEF InstallKnown, InstallInv, InstallTypes, Stacks, Install!NoStack, Swarms, Procs,
         Install!Recover, Install!Deploy, Install!Initialised, Install!HalfBootstrapped,
         Install!Did, Install!state, Install!cluster, Install!storage, Install!resetting,
         Install!bounds
<1>4. installDb' \in Data
  <2>1. installDb \in Data /\ 0 \in 0..MaxStamp
    BY DEF InstallKnown, Install!InstallAssumption, InstallInv, InstallTypes
  <2>2. [installDb EXCEPT !.idp = 0, !.client = 0] \in Data
    BY <2>1 DEF Data
  <2> QED
    BY <2>1, <2>2, InitialisedIs DEF Install!Recover
<1> QED
  BY <1>1, <1>2, <1>3, <1>4
     DEF InstallKnown, Install!InstallAssumption, InstallInv, InstallTypes, AtPhase,
         ResetIsTrue, Procs, Marks, ResetMarks, Install!Recover, Install!Deploy,
         Install!Initialised, Install!HalfBootstrapped, Install!Did, Install!state,
         Install!cluster, Install!storage, Install!resetting, Install!bounds

LEMMA PrepareStorageTyped == ASSUME InstallKnown, Install!PrepareStorage PROVE InstallTypes'
<1>1. proc' \in Procs
  BY DEF InstallKnown, InstallInv, InstallTypes, Procs, Marks, ResetMarks, Install!Idle,
         ClientIsKnown, Install!InstallAssumption, Install!PrepareStorage, Install!At,
         Install!Did, Install!state, Install!cluster, Install!storage, Install!resetting,
         Install!bounds
<1>2. installSwarm' \in Swarms
  BY DEF InstallKnown, InstallInv, InstallTypes, Swarms, Install!NoSwarm,
         Install!PrepareStorage, Install!At, Install!Did, Install!state, Install!cluster,
         Install!storage, Install!resetting, Install!bounds
<1>3. stack' \in Stacks
  BY DEF InstallKnown, InstallInv, InstallTypes, Stacks, Install!NoStack,
         Install!PrepareStorage, Install!At, Install!Did, Install!state, Install!cluster,
         Install!storage, Install!resetting, Install!bounds
<1>4. installDb' \in Data
  BY NothingIsTyped DEF InstallKnown, InstallInv, InstallTypes, Install!PrepareStorage
<1>5. conf' \in (0..MaxStamp) \cup {None}
  BY DEF InstallKnown, Install!InstallAssumption, InstallInv, InstallTypes, Install!PrepareStorage
<1>6. {mounted', cert'} \subseteq BOOLEAN
  BY DEF InstallKnown, InstallInv, InstallTypes, Install!PrepareStorage
<1> QED
  BY <1>1, <1>2, <1>3, <1>4, <1>5, <1>6
     DEF InstallKnown, Install!InstallAssumption, InstallInv, InstallTypes,
         Install!PrepareStorage, Install!At, Install!Did, Install!state, Install!cluster,
         Install!storage, Install!resetting, Install!bounds

LEMMA InitSwarmTyped == ASSUME InstallKnown, Install!InitSwarm PROVE InstallTypes'
<1>1. proc' \in Procs
  BY DEF InstallKnown, InstallInv, InstallTypes, Procs, Marks, ResetMarks, Install!Idle,
         ClientIsKnown, Install!InstallAssumption, Install!InitSwarm, Install!At, Install!Did,
         Install!state, Install!cluster, Install!storage, Install!resetting, Install!bounds
<1>2. installSwarm' \in Swarms
  BY DEF InstallKnown, InstallInv, InstallTypes, Swarms, Install!NoSwarm, Install!InitSwarm,
         Install!At, Install!Did, Install!state, Install!cluster, Install!storage,
         Install!resetting, Install!bounds
<1>3. stack' \in Stacks
  BY DEF InstallKnown, InstallInv, InstallTypes, Stacks, Install!NoStack, Install!InitSwarm,
         Install!At, Install!Did, Install!state, Install!cluster, Install!storage,
         Install!resetting, Install!bounds
<1>4. installDb' \in Data
  BY DEF InstallKnown, InstallInv, InstallTypes, Data, Install!NoData,
         Install!InstallAssumption, Install!InitSwarm, Install!At, Install!Did, Install!state,
         Install!cluster, Install!storage, Install!resetting, Install!bounds
<1> QED
  BY <1>1, <1>2, <1>3, <1>4
     DEF InstallKnown, Install!InstallAssumption, InstallInv, InstallTypes, AtPhase,
         ResetIsTrue, Procs, Marks, ResetMarks, Install!InitSwarm, Install!At, Install!Did,
         Install!state, Install!cluster, Install!storage, Install!resetting, Install!bounds

LEMMA CreateUrlTyped == ASSUME InstallKnown, Install!CreateUrl PROVE InstallTypes'
<1>1. proc' \in Procs
  <2>1. proc \in Procs /\ 0 \in 0..MaxStamp /\ proc' = [proc EXCEPT !.did = "secrets", !.oidc = 0]
    BY DEF InstallKnown, Install!InstallAssumption, InstallInv, InstallTypes, Install!CreateUrl
  <2> QED
    BY <2>1 DEF Procs, Marks
<1>2. installSwarm' \in Swarms
  BY DEF InstallKnown, InstallInv, InstallTypes, Swarms, Install!NoSwarm, Install!CreateUrl,
         Install!state, Install!cluster, Install!storage, Install!resetting, Install!bounds
<1>3. stack' \in Stacks
  BY DEF InstallKnown, InstallInv, InstallTypes, Stacks, Install!NoStack, Install!CreateUrl,
         Install!state, Install!cluster, Install!storage, Install!resetting, Install!bounds
<1>4. installDb' \in Data
  BY DEF InstallKnown, InstallInv, InstallTypes, Data, Install!NoData,
         Install!InstallAssumption, Install!CreateUrl, Install!state, Install!cluster,
         Install!storage, Install!resetting, Install!bounds
<1> QED
  BY <1>1, <1>2, <1>3, <1>4
     DEF InstallKnown, Install!InstallAssumption, InstallInv, InstallTypes, AtPhase,
         ResetIsTrue, Procs, Marks, ResetMarks, Install!CreateUrl, Install!state,
         Install!cluster, Install!storage, Install!resetting, Install!bounds

LEMMA BootstrapTyped == ASSUME InstallKnown, Install!Bootstrap PROVE InstallTypes'
<1>1. proc' \in Procs
  BY DEF InstallKnown, InstallInv, InstallTypes, Procs, Marks, ResetMarks, Install!Idle,
         ClientIsKnown, Install!InstallAssumption, Install!Bootstrap, Install!At, Install!Did,
         Install!Deploy, Install!Initialised, Install!state, Install!cluster, Install!storage,
         Install!resetting, Install!bounds
<1>2. installSwarm' \in Swarms
  BY DEF InstallKnown, InstallInv, InstallTypes, Swarms, Install!NoSwarm, Install!Bootstrap,
         Install!At, Install!Did, Install!Deploy, Install!Initialised, Install!state,
         Install!cluster, Install!storage, Install!resetting, Install!bounds
<1>3. stack' \in Stacks
  BY DEF InstallKnown, InstallInv, InstallTypes, Stacks, Install!NoStack, Swarms, Procs,
         Install!Bootstrap, Install!At, Install!Did, Install!Deploy, Install!Initialised,
         Install!state, Install!cluster, Install!storage, Install!resetting, Install!bounds
<1>4. installDb' \in Data
  <2>1. installDb \in Data /\ installDb' = Install!Initialised(installDb)
    BY DEF InstallKnown, InstallInv, InstallTypes, Install!Bootstrap
  <2> QED
    BY <2>1, InitialisedIs
<1> QED
  BY <1>1, <1>2, <1>3, <1>4
     DEF InstallKnown, Install!InstallAssumption, InstallInv, InstallTypes, AtPhase,
         ResetIsTrue, Procs, Marks, ResetMarks, Install!Bootstrap, Install!At, Install!Did,
         Install!Deploy, Install!Initialised, Install!state, Install!cluster, Install!storage,
         Install!resetting, Install!bounds

LEMMA MigrateTyped == ASSUME InstallKnown, Install!Migrate PROVE InstallTypes'
<1>1. proc' \in Procs
  BY DEF InstallKnown, InstallInv, InstallTypes, Procs, Marks, ResetMarks, Install!Idle,
         ClientIsKnown, Install!InstallAssumption, Install!Migrate, Install!At, Install!Did,
         Install!Deploy, Install!Initialised, Install!state, Install!cluster, Install!storage,
         Install!resetting, Install!bounds
<1>2. installSwarm' \in Swarms
  BY DEF InstallKnown, InstallInv, InstallTypes, Swarms, Install!NoSwarm, Install!Migrate,
         Install!At, Install!Did, Install!Deploy, Install!Initialised, Install!state,
         Install!cluster, Install!storage, Install!resetting, Install!bounds
<1>3. stack' \in Stacks
  BY DEF InstallKnown, InstallInv, InstallTypes, Stacks, Install!NoStack, Swarms, Procs,
         Install!Migrate, Install!At, Install!Did, Install!Deploy, Install!Initialised,
         Install!state, Install!cluster, Install!storage, Install!resetting, Install!bounds
<1>4. installDb' \in Data
  <2>1. installDb \in Data /\ Install!Initialised(installDb) \in Data
    BY InitialisedIs DEF InstallKnown, InstallInv, InstallTypes
  <2>2. \A data \in Data : [data EXCEPT !.schema = TRUE] \in Data
    BY DEF Data
  <2> QED
    BY <2>1, <2>2 DEF Install!Migrate
<1> QED
  BY <1>1, <1>2, <1>3, <1>4
     DEF InstallKnown, Install!InstallAssumption, InstallInv, InstallTypes, AtPhase,
         ResetIsTrue, Procs, Marks, ResetMarks, Install!Migrate, Install!At, Install!Did,
         Install!Deploy, Install!Initialised, Install!state, Install!cluster, Install!storage,
         Install!resetting, Install!bounds

LEMMA CreateClientTyped == ASSUME InstallKnown, Install!CreateClient PROVE InstallTypes'
<1>1. proc' \in Procs
  <2>1. CASE installDb.client = 0
    <3>1. /\ proc \in Procs /\ stamp + 1 \in 0..MaxStamp
          /\ proc' = [proc EXCEPT !.did = "client", !.oidc = stamp + 1]
      BY <2>1
         DEF InstallKnown, Install!InstallAssumption, InstallInv, InstallTypes,
             Install!CreateClient
    <3> QED
      BY <3>1 DEF Procs
  <2>2. CASE installDb.client # 0
    BY <2>2 DEF InstallKnown, InstallInv, InstallTypes, Install!CreateClient, Install!Did, Procs
  <2> QED
    BY <2>1, <2>2
<1>2. installSwarm' \in Swarms
  BY DEF InstallKnown, InstallInv, InstallTypes, Swarms, Install!NoSwarm, Install!CreateClient,
         Install!At, Install!Did, Install!state, Install!cluster, Install!storage,
         Install!resetting, Install!bounds
<1>3. stack' \in Stacks
  BY DEF InstallKnown, InstallInv, InstallTypes, Stacks, Install!NoStack, Install!CreateClient,
         Install!At, Install!Did, Install!state, Install!cluster, Install!storage,
         Install!resetting, Install!bounds
<1>4. installDb' \in Data
  BY DEF InstallKnown, InstallInv, InstallTypes, Data, Install!NoData,
         Install!InstallAssumption, Install!CreateClient, Install!At, Install!Did,
         Install!state, Install!cluster, Install!storage, Install!resetting, Install!bounds
<1> QED
  BY <1>1, <1>2, <1>3, <1>4
     DEF InstallKnown, Install!InstallAssumption, InstallInv, InstallTypes, AtPhase,
         ResetIsTrue, Procs, Marks, ResetMarks, Install!CreateClient, Install!At, Install!Did,
         Install!state, Install!cluster, Install!storage, Install!resetting, Install!bounds

LEMMA EnableIngressTyped == ASSUME InstallKnown, Install!EnableIngress PROVE InstallTypes'
<1>1. proc' \in Procs
  BY DEF InstallKnown, InstallInv, InstallTypes, Procs, Marks, ResetMarks, Install!Idle,
         ClientIsKnown, Install!InstallAssumption, Install!EnableIngress, Install!At,
         Install!Did, Install!Deploy, Install!Initialised, Install!state, Install!cluster,
         Install!storage, Install!resetting, Install!bounds
<1>2. installSwarm' \in Swarms
  BY DEF InstallKnown, InstallInv, InstallTypes, Swarms, Install!NoSwarm, Install!EnableIngress,
         Install!At, Install!Did, Install!Deploy, Install!Initialised, Install!state,
         Install!cluster, Install!storage, Install!resetting, Install!bounds
<1>3. stack' \in Stacks
  BY DEF InstallKnown, InstallInv, InstallTypes, Stacks, Install!NoStack, Swarms, Procs,
         Install!EnableIngress, Install!At, Install!Did, Install!Deploy, Install!Initialised,
         Install!state, Install!cluster, Install!storage, Install!resetting, Install!bounds
<1>4. installDb' \in Data
  <2>1. installDb \in Data /\ installDb' = Install!Initialised(installDb)
    BY DEF InstallKnown, InstallInv, InstallTypes, Install!EnableIngress
  <2> QED
    BY <2>1, InitialisedIs
<1> QED
  BY <1>1, <1>2, <1>3, <1>4
     DEF InstallKnown, Install!InstallAssumption, InstallInv, InstallTypes, AtPhase,
         ResetIsTrue, Procs, Marks, ResetMarks, Install!EnableIngress, Install!At, Install!Did,
         Install!Deploy, Install!Initialised, Install!state, Install!cluster, Install!storage,
         Install!resetting, Install!bounds

LEMMA DeployFinalTyped == ASSUME InstallKnown, Install!DeployFinal PROVE InstallTypes'
<1>1. proc' \in Procs
  BY DEF InstallKnown, InstallInv, InstallTypes, Procs, Marks, ResetMarks, Install!Idle,
         ClientIsKnown, Install!InstallAssumption, Install!DeployFinal, Install!At, Install!Did,
         Install!Deploy, Install!Initialised, Install!state, Install!cluster, Install!storage,
         Install!resetting, Install!bounds
<1>2. installSwarm' \in Swarms
  BY DEF InstallKnown, InstallInv, InstallTypes, Swarms, Install!NoSwarm, Install!DeployFinal,
         Install!At, Install!Did, Install!Deploy, Install!Initialised, Install!state,
         Install!cluster, Install!storage, Install!resetting, Install!bounds
<1>3. stack' \in Stacks
  BY DEF InstallKnown, InstallInv, InstallTypes, Stacks, Install!NoStack, Swarms, Procs,
         Install!DeployFinal, Install!At, Install!Did, Install!Deploy, Install!Initialised,
         Install!state, Install!cluster, Install!storage, Install!resetting, Install!bounds
<1>4. installDb' \in Data
  <2>1. installDb \in Data /\ installDb' = Install!Initialised(installDb)
    BY DEF InstallKnown, InstallInv, InstallTypes, Install!DeployFinal
  <2> QED
    BY <2>1, InitialisedIs
<1> QED
  BY <1>1, <1>2, <1>3, <1>4
     DEF InstallKnown, Install!InstallAssumption, InstallInv, InstallTypes, AtPhase,
         ResetIsTrue, Procs, Marks, ResetMarks, Install!DeployFinal, Install!At, Install!Did,
         Install!Deploy, Install!Initialised, Install!state, Install!cluster, Install!storage,
         Install!resetting, Install!bounds

LEMMA RemoveSwarmResourcesTyped ==
    ASSUME InstallKnown, Install!RemoveSwarmResources
    PROVE  InstallTypes'
<1>1. proc' \in Procs
  BY DEF InstallKnown, InstallInv, InstallTypes, Procs, Marks, ResetMarks, Install!Idle,
         ClientIsKnown, Install!InstallAssumption, Install!RemoveSwarmResources,
         Install!ResetAt, Install!Did, Install!state, Install!cluster, Install!storage,
         Install!resetting, Install!bounds
<1>2. installSwarm' \in Swarms
  BY DEF InstallKnown, InstallInv, InstallTypes, Swarms, Install!NoSwarm,
         Install!RemoveSwarmResources, Install!ResetAt, Install!Did, Install!state,
         Install!cluster, Install!storage, Install!resetting, Install!bounds
<1>3. stack' \in Stacks
  BY DEF InstallKnown, InstallInv, InstallTypes, Stacks, Install!NoStack,
         Install!RemoveSwarmResources, Install!ResetAt, Install!Did, Install!state,
         Install!cluster, Install!storage, Install!resetting, Install!bounds
<1>4. installDb' \in Data
  BY DEF InstallKnown, InstallInv, InstallTypes, Data, Install!NoData,
         Install!InstallAssumption, Install!RemoveSwarmResources, Install!ResetAt, Install!Did,
         Install!state, Install!cluster, Install!storage, Install!resetting, Install!bounds
<1> QED
  BY <1>1, <1>2, <1>3, <1>4
     DEF InstallKnown, Install!InstallAssumption, InstallInv, InstallTypes, AtPhase,
         ResetIsTrue, Procs, Marks, ResetMarks, Install!RemoveSwarmResources, Install!ResetAt,
         Install!Did, Install!state, Install!cluster, Install!storage, Install!resetting,
         Install!bounds

LEMMA UnmountRuntimeTyped == ASSUME InstallKnown, Install!UnmountRuntime PROVE InstallTypes'
<1>1. proc' \in Procs
  BY DEF InstallKnown, InstallInv, InstallTypes, Procs, Marks, ResetMarks, Install!Idle,
         ClientIsKnown, Install!InstallAssumption, Install!UnmountRuntime, Install!ResetAt,
         Install!Did, Install!state, Install!cluster, Install!storage, Install!resetting,
         Install!bounds
<1>2. installSwarm' \in Swarms
  BY DEF InstallKnown, InstallInv, InstallTypes, Swarms, Install!NoSwarm,
         Install!UnmountRuntime, Install!ResetAt, Install!Did, Install!state, Install!cluster,
         Install!storage, Install!resetting, Install!bounds
<1>3. stack' \in Stacks
  BY DEF InstallKnown, InstallInv, InstallTypes, Stacks, Install!NoStack,
         Install!UnmountRuntime, Install!ResetAt, Install!Did, Install!state, Install!cluster,
         Install!storage, Install!resetting, Install!bounds
<1>4. installDb' \in Data
  BY DEF InstallKnown, InstallInv, InstallTypes, Data, Install!NoData,
         Install!InstallAssumption, Install!UnmountRuntime, Install!ResetAt, Install!Did,
         Install!state, Install!cluster, Install!storage, Install!resetting, Install!bounds
<1> QED
  BY <1>1, <1>2, <1>3, <1>4
     DEF InstallKnown, Install!InstallAssumption, InstallInv, InstallTypes,
         Install!UnmountRuntime, Install!ResetAt, Install!Did, Install!state, Install!cluster,
         Install!storage, Install!resetting, Install!bounds

LEMMA LeaveSwarmTyped == ASSUME InstallKnown, Install!LeaveSwarm PROVE InstallTypes'
<1>1. proc' \in Procs
  BY DEF InstallKnown, InstallInv, InstallTypes, Procs, Marks, ResetMarks, Install!Idle,
         ClientIsKnown, Install!InstallAssumption, Install!LeaveSwarm, Install!ResetAt,
         Install!Did, Install!state, Install!cluster, Install!storage, Install!resetting,
         Install!bounds
<1>2. installSwarm' \in Swarms
  BY NothingIsTyped DEF InstallKnown, InstallInv, InstallTypes, Install!LeaveSwarm
<1>3. stack' \in Stacks
  BY DEF InstallKnown, InstallInv, InstallTypes, Stacks, Install!NoStack, Install!LeaveSwarm,
         Install!ResetAt, Install!Did, Install!state, Install!cluster, Install!storage,
         Install!resetting, Install!bounds
<1>4. installDb' \in Data
  BY DEF InstallKnown, InstallInv, InstallTypes, Data, Install!NoData,
         Install!InstallAssumption, Install!LeaveSwarm, Install!ResetAt, Install!Did,
         Install!state, Install!cluster, Install!storage, Install!resetting, Install!bounds
<1> QED
  BY <1>1, <1>2, <1>3, <1>4
     DEF InstallKnown, Install!InstallAssumption, InstallInv, InstallTypes, AtPhase,
         ResetIsTrue, Procs, Marks, ResetMarks, Install!LeaveSwarm, Install!ResetAt,
         Install!Did, Install!state, Install!cluster, Install!storage, Install!resetting,
         Install!bounds

LEMMA WipeStorageTyped == ASSUME InstallKnown, Install!WipeStorage PROVE InstallTypes'
<1>1. proc' \in Procs
  BY StorageIsDisk
     DEF InstallKnown, InstallInv, InstallTypes, Procs, Marks, ResetMarks, Install!Idle,
         ClientIsKnown, Install!InstallAssumption, Install!WipeStorage, Install!ResetAt,
         Install!Did, Install!Revalidated, Install!state, Install!cluster, Install!storage,
         Install!resetting, Install!bounds
<1>2. installSwarm' \in Swarms
  BY StorageIsDisk
     DEF InstallKnown, InstallInv, InstallTypes, Swarms, Install!NoSwarm, Install!WipeStorage,
         Install!ResetAt, Install!Did, Install!Revalidated, Install!state, Install!cluster,
         Install!storage, Install!resetting, Install!bounds
<1>3. stack' \in Stacks
  BY StorageIsDisk
     DEF InstallKnown, InstallInv, InstallTypes, Stacks, Install!NoStack, Install!WipeStorage,
         Install!ResetAt, Install!Did, Install!Revalidated, Install!state, Install!cluster,
         Install!storage, Install!resetting, Install!bounds
<1>4. installDb' \in Data
  BY StorageIsDisk, NothingIsTyped DEF InstallKnown, InstallInv, InstallTypes, Install!WipeStorage
<1> QED
  BY StorageIsDisk, <1>1, <1>2, <1>3, <1>4
     DEF InstallKnown, Install!InstallAssumption, InstallInv, InstallTypes, Install!WipeStorage,
         Install!ResetAt, Install!Did, Install!Revalidated, Install!state, Install!cluster,
         Install!storage, Install!resetting, Install!bounds

LEMMA NewClient ==
    ASSUME InstallKnown, Install!CreateClient, installDb.client = 0
    PROVE  /\ installDb'.client = stamp + 1 /\ installDb'.rp = installDb.rp
           /\ installDb'.idp = installDb.idp /\ installDb'.schema = installDb.schema
           /\ proc'.mode = "Install" /\ proc'.did = "client" /\ proc'.oidc = stamp + 1
           /\ stamp + 1 \in Nat \ {0}
<1>1. installDb \in Data /\ proc \in Procs /\ proc.mode = "Install" /\ stamp + 1 \in Nat \ {0}
  BY DEF InstallKnown, Install!InstallAssumption, InstallInv, InstallTypes,
         Install!CreateClient, Install!At
<1>2. /\ installDb' = [installDb EXCEPT !.client = stamp + 1]
      /\ proc' = [proc EXCEPT !.did = "client", !.oidc = stamp + 1]
  BY DEF Install!CreateClient
<1> QED
  BY <1>1, <1>2 DEF Data, Procs

LEMMA Recovered ==
    ASSUME InstallKnown, Install!Recover, Install!HalfBootstrapped
    PROVE  /\ installDb'.rp = (IF installDb.rp = 0 THEN installSwarm.named ELSE installDb.rp)
           /\ installDb'.idp = installFiles
           /\ installDb'.client = 0 /\ installDb'.schema = installDb.schema
<1>1. installDb \in Data /\ 0 \in 0..MaxStamp
  BY DEF InstallKnown, Install!InstallAssumption, InstallInv, InstallTypes
<1>2. [installDb EXCEPT !.idp = 0, !.client = 0] \in Data
  BY <1>1 DEF Data
<1>3. installDb' = Install!Initialised([installDb EXCEPT !.idp = 0, !.client = 0])
  BY DEF Install!Recover
<1> QED
  BY <1>1, <1>2, <1>3, InitialisedIs DEF Data

USE DEF InstallKnown, Install!InstallAssumption, InstallInv, InstallTypes, InOrder,
    ResetInOrder, AtPhase, SecretsAreFiles, MarksAreTrue, ClientIsKnown, ResetIsTrue,
    CertificateIsKept, Install!InstalledIsDeployed, Install!ResetDestroys, Has, Undone, Marks,
    ResetMarks, Stacks, Swarms, Data, Procs, Install!NoStack, Install!NoSwarm, Install!NoData,
    Install!Idle, Install!state, Install!cluster, Install!storage, Install!resetting,
    Install!bounds

LEMMA StartInstallStep == ASSUME InstallKnown, Install!StartInstall PROVE InstallInv'
<1>1. InstallTypes'
  BY StartInstallTyped
<1>2. (InOrder /\ ResetInOrder)'
  BY SMTT(40) DEF Install!StartInstall, Install!Start, Install!RestoredClient
<1>3. AtPhase'
  <2>1. CASE "secrets" \in done
    BY <2>1, SMTT(40) DEF Install!StartInstall, Install!Start, Install!RestoredClient
  <2>2. CASE ~("secrets" \in done)
    BY <2>2, SMTT(40) DEF Install!StartInstall, Install!Start, Install!RestoredClient
  <2> QED
    BY <2>1, <2>2
<1>4. SecretsAreFiles'
  <2>1. CASE "secrets" \in done
    BY <2>1, SMTT(40) DEF Install!StartInstall, Install!Start, Install!RestoredClient
  <2>2. CASE ~("secrets" \in done)
    BY <2>2, SMTT(40) DEF Install!StartInstall, Install!Start, Install!RestoredClient
  <2> QED
    BY <2>1, <2>2
<1>5. MarksAreTrue'
  <2>1. CASE "secrets" \in done
    BY <2>1, SMTT(40) DEF Install!StartInstall, Install!Start, Install!RestoredClient
  <2>2. CASE ~("secrets" \in done)
    BY <2>2, SMTT(40) DEF Install!StartInstall, Install!Start, Install!RestoredClient
  <2> QED
    BY <2>1, <2>2
<1>6. ClientIsKnown'
  <2>1. CASE "secrets" \in done
    BY <2>1, SMTT(40) DEF Install!StartInstall, Install!Start, Install!RestoredClient
  <2>2. CASE ~("secrets" \in done)
    BY <2>2, SMTT(40) DEF Install!StartInstall, Install!Start, Install!RestoredClient
  <2> QED
    BY <2>1, <2>2
<1>7. ResetIsTrue'
  <2>1. CASE "secrets" \in done
    BY <2>1, SMTT(40) DEF Install!StartInstall, Install!Start, Install!RestoredClient
  <2>2. CASE ~("secrets" \in done)
    BY <2>2, SMTT(40) DEF Install!StartInstall, Install!Start, Install!RestoredClient
  <2> QED
    BY <2>1, <2>2
<1>8. CertificateIsKept'
  <2>1. CASE "secrets" \in done
    BY <2>1, SMTT(40) DEF Install!StartInstall, Install!Start, Install!RestoredClient
  <2>2. CASE ~("secrets" \in done)
    BY <2>2, SMTT(40) DEF Install!StartInstall, Install!Start, Install!RestoredClient
  <2> QED
    BY <2>1, <2>2
<1>9. (spared /\ Install!InstalledIsDeployed /\ Install!ResetDestroys)'
  BY SMTT(40) DEF Install!StartInstall, Install!Start, Install!RestoredClient
<1> QED
  BY <1>1, <1>2, <1>3, <1>4, <1>5, <1>6, <1>7, <1>8, <1>9, Zenon

LEMMA RecoverStep == ASSUME InstallKnown, Install!Recover PROVE InstallInv'
<1>1. InstallTypes'
  BY RecoverTyped
<1>2. (InOrder /\ ResetInOrder)'
  BY SMTT(40)
     DEF Install!Recover, Install!Deploy, Install!Initialised, Install!HalfBootstrapped,
         Install!Did
<1>3. AtPhase'
  <2>1. CASE Install!HalfBootstrapped
    BY <2>1, Recovered, SMTT(40)
       DEF Install!Recover, Install!Deploy, Install!Initialised, Install!HalfBootstrapped,
           Install!Did
  <2>2. CASE ~(Install!HalfBootstrapped)
    BY <2>2, SMTT(40)
       DEF Install!Recover, Install!Deploy, Install!Initialised, Install!HalfBootstrapped,
           Install!Did
  <2> QED
    BY <2>1, <2>2
<1>4. SecretsAreFiles'
  <2>1. CASE Install!HalfBootstrapped
    BY <2>1, Recovered, SMTT(40)
       DEF Install!Recover, Install!Deploy, Install!Initialised, Install!HalfBootstrapped,
           Install!Did
  <2>2. CASE ~(Install!HalfBootstrapped)
    BY <2>2, SMTT(40)
       DEF Install!Recover, Install!Deploy, Install!Initialised, Install!HalfBootstrapped,
           Install!Did
  <2> QED
    BY <2>1, <2>2
<1>5. MarksAreTrue'
  <2>1. CASE Install!HalfBootstrapped
    BY <2>1, Recovered, SMTT(40)
       DEF Install!Recover, Install!Deploy, Install!Initialised, Install!HalfBootstrapped,
           Install!Did
  <2>2. CASE ~(Install!HalfBootstrapped)
    BY <2>2, SMTT(40)
       DEF Install!Recover, Install!Deploy, Install!Initialised, Install!HalfBootstrapped,
           Install!Did
  <2> QED
    BY <2>1, <2>2
<1>6. ClientIsKnown'
  <2>1. CASE Install!HalfBootstrapped
    BY <2>1, Recovered, SMTT(40)
       DEF Install!Recover, Install!Deploy, Install!Initialised, Install!HalfBootstrapped,
           Install!Did
  <2>2. CASE ~(Install!HalfBootstrapped)
    BY <2>2, SMTT(40)
       DEF Install!Recover, Install!Deploy, Install!Initialised, Install!HalfBootstrapped,
           Install!Did
  <2> QED
    BY <2>1, <2>2
<1>7. ResetIsTrue'
  <2>1. CASE Install!HalfBootstrapped
    BY <2>1, Recovered, SMTT(40)
       DEF Install!Recover, Install!Deploy, Install!Initialised, Install!HalfBootstrapped,
           Install!Did
  <2>2. CASE ~(Install!HalfBootstrapped)
    BY <2>2, SMTT(40)
       DEF Install!Recover, Install!Deploy, Install!Initialised, Install!HalfBootstrapped,
           Install!Did
  <2> QED
    BY <2>1, <2>2
<1>8. CertificateIsKept'
  <2>1. CASE Install!HalfBootstrapped
    BY <2>1, Recovered, SMTT(40)
       DEF Install!Recover, Install!Deploy, Install!Initialised, Install!HalfBootstrapped,
           Install!Did
  <2>2. CASE ~(Install!HalfBootstrapped)
    BY <2>2, SMTT(40)
       DEF Install!Recover, Install!Deploy, Install!Initialised, Install!HalfBootstrapped,
           Install!Did
  <2> QED
    BY <2>1, <2>2
<1>9. (spared /\ Install!InstalledIsDeployed /\ Install!ResetDestroys)'
  BY SMTT(40)
     DEF Install!Recover, Install!Deploy, Install!Initialised, Install!HalfBootstrapped,
         Install!Did
<1> QED
  BY <1>1, <1>2, <1>3, <1>4, <1>5, <1>6, <1>7, <1>8, <1>9, Zenon

LEMMA PrepareStorageStep == ASSUME InstallKnown, Install!PrepareStorage PROVE InstallInv'
<1>1. InstallTypes'
  BY PrepareStorageTyped
<1>2. (InOrder /\ ResetInOrder)'
  BY InstallOrder, SMTT(40) DEF Install!PrepareStorage, Install!At, Install!Did
<1>3. AtPhase'
  BY InstallOrder, SMTT(40) DEF Install!PrepareStorage, Install!At, Install!Did
<1>4. SecretsAreFiles'
  BY InstallOrder, SMTT(40) DEF Install!PrepareStorage, Install!At, Install!Did
<1>5. MarksAreTrue'
  BY InstallOrder, SMTT(40) DEF Install!PrepareStorage, Install!At, Install!Did
<1>6. ClientIsKnown'
  BY InstallOrder, SMTT(40) DEF Install!PrepareStorage, Install!At, Install!Did
<1>7. ResetIsTrue'
  BY InstallOrder, SMTT(40) DEF Install!PrepareStorage, Install!At, Install!Did
<1>8. CertificateIsKept'
  BY InstallOrder, SMTT(40) DEF Install!PrepareStorage, Install!At, Install!Did
<1>9. (spared /\ Install!InstalledIsDeployed /\ Install!ResetDestroys)'
  BY InstallOrder, SMTT(40) DEF Install!PrepareStorage, Install!At, Install!Did
<1> QED
  BY <1>1, <1>2, <1>3, <1>4, <1>5, <1>6, <1>7, <1>8, <1>9, Zenon

LEMMA InitSwarmStep == ASSUME InstallKnown, Install!InitSwarm PROVE InstallInv'
<1>1. InstallTypes'
  BY InitSwarmTyped
<1>2. (InOrder /\ ResetInOrder)'
  BY InstallOrder, SMTT(40) DEF Install!InitSwarm, Install!At, Install!Did
<1>3. AtPhase'
  BY InstallOrder, SMTT(40) DEF Install!InitSwarm, Install!At, Install!Did
<1>4. SecretsAreFiles'
  BY InstallOrder, SMTT(40) DEF Install!InitSwarm, Install!At, Install!Did
<1>5. MarksAreTrue'
  BY InstallOrder, SMTT(40) DEF Install!InitSwarm, Install!At, Install!Did
<1>6. ClientIsKnown'
  BY InstallOrder, SMTT(40) DEF Install!InitSwarm, Install!At, Install!Did
<1>7. ResetIsTrue'
  BY InstallOrder, SMTT(40) DEF Install!InitSwarm, Install!At, Install!Did
<1>8. CertificateIsKept'
  BY InstallOrder, SMTT(40) DEF Install!InitSwarm, Install!At, Install!Did
<1>9. (spared /\ Install!InstalledIsDeployed /\ Install!ResetDestroys)'
  BY InstallOrder, SMTT(40) DEF Install!InitSwarm, Install!At, Install!Did
<1> QED
  BY <1>1, <1>2, <1>3, <1>4, <1>5, <1>6, <1>7, <1>8, <1>9, Zenon

LEMMA CreateFilesStep == ASSUME InstallKnown, Install!CreateFiles PROVE InstallInv'
BY InstallOrder, SMTT(60) DEF Install!CreateFiles, Install!At, Install!Did, Install!FilesOrNew

LEMMA CreateUrlStep == ASSUME InstallKnown, Install!CreateUrl PROVE InstallInv'
<1>1. InstallTypes'
  BY CreateUrlTyped
<1>2. (InOrder /\ ResetInOrder)'
  BY SMTT(40) DEF Install!CreateUrl
<1>3. AtPhase'
  BY SMTT(40) DEF Install!CreateUrl
<1>4. SecretsAreFiles'
  BY SMTT(40) DEF Install!CreateUrl
<1>5. MarksAreTrue'
  BY SMTT(40) DEF Install!CreateUrl
<1>6. ClientIsKnown'
  BY SMTT(40) DEF Install!CreateUrl
<1>7. ResetIsTrue'
  BY SMTT(40) DEF Install!CreateUrl
<1>8. CertificateIsKept'
  BY SMTT(40) DEF Install!CreateUrl
<1>9. (spared /\ Install!InstalledIsDeployed /\ Install!ResetDestroys)'
  BY SMTT(40) DEF Install!CreateUrl
<1> QED
  BY <1>1, <1>2, <1>3, <1>4, <1>5, <1>6, <1>7, <1>8, <1>9, Zenon

LEMMA BootstrapStep == ASSUME InstallKnown, Install!Bootstrap PROVE InstallInv'
<1>1. InstallTypes'
  BY BootstrapTyped
<1>2. (InOrder /\ ResetInOrder)'
  BY InstallOrder, SMTT(40)
     DEF Install!Bootstrap, Install!At, Install!Did, Install!Deploy, Install!Initialised
<1>3. AtPhase'
  BY InstallOrder, SMTT(40)
     DEF Install!Bootstrap, Install!At, Install!Did, Install!Deploy, Install!Initialised
<1>4. SecretsAreFiles'
  BY InstallOrder, SMTT(40)
     DEF Install!Bootstrap, Install!At, Install!Did, Install!Deploy, Install!Initialised
<1>5. MarksAreTrue'
  BY InstallOrder, SMTT(40)
     DEF Install!Bootstrap, Install!At, Install!Did, Install!Deploy, Install!Initialised
<1>6. ClientIsKnown'
  BY InstallOrder, SMTT(40)
     DEF Install!Bootstrap, Install!At, Install!Did, Install!Deploy, Install!Initialised
<1>7. ResetIsTrue'
  BY InstallOrder, SMTT(40)
     DEF Install!Bootstrap, Install!At, Install!Did, Install!Deploy, Install!Initialised
<1>8. CertificateIsKept'
  BY InstallOrder, SMTT(40)
     DEF Install!Bootstrap, Install!At, Install!Did, Install!Deploy, Install!Initialised
<1>9. (spared /\ Install!InstalledIsDeployed /\ Install!ResetDestroys)'
  BY InstallOrder, SMTT(40)
     DEF Install!Bootstrap, Install!At, Install!Did, Install!Deploy, Install!Initialised
<1> QED
  BY <1>1, <1>2, <1>3, <1>4, <1>5, <1>6, <1>7, <1>8, <1>9, Zenon

LEMMA MigrateStep == ASSUME InstallKnown, Install!Migrate PROVE InstallInv'
<1>1. InstallTypes'
  BY MigrateTyped
<1>2. (InOrder /\ ResetInOrder)'
  BY InstallOrder, SMTT(40)
     DEF Install!Migrate, Install!At, Install!Did, Install!Deploy, Install!Initialised
<1>3. AtPhase'
  <2>1. CASE stack.stage = "None"
    BY <2>1, InstallOrder, SMTT(40)
       DEF Install!Migrate, Install!At, Install!Did, Install!Deploy, Install!Initialised
  <2>2. CASE ~(stack.stage = "None")
    BY <2>2, InstallOrder, SMTT(40)
       DEF Install!Migrate, Install!At, Install!Did, Install!Deploy, Install!Initialised
  <2> QED
    BY <2>1, <2>2
<1>4. SecretsAreFiles'
  <2>1. CASE stack.stage = "None"
    BY <2>1, InstallOrder, SMTT(40)
       DEF Install!Migrate, Install!At, Install!Did, Install!Deploy, Install!Initialised
  <2>2. CASE ~(stack.stage = "None")
    BY <2>2, InstallOrder, SMTT(40)
       DEF Install!Migrate, Install!At, Install!Did, Install!Deploy, Install!Initialised
  <2> QED
    BY <2>1, <2>2
<1>5. MarksAreTrue'
  <2>1. CASE stack.stage = "None"
    BY <2>1, InstallOrder, SMTT(40)
       DEF Install!Migrate, Install!At, Install!Did, Install!Deploy, Install!Initialised
  <2>2. CASE ~(stack.stage = "None")
    BY <2>2, InstallOrder, SMTT(40)
       DEF Install!Migrate, Install!At, Install!Did, Install!Deploy, Install!Initialised
  <2> QED
    BY <2>1, <2>2
<1>6. ClientIsKnown'
  <2>1. CASE stack.stage = "None"
    BY <2>1, InstallOrder, SMTT(40)
       DEF Install!Migrate, Install!At, Install!Did, Install!Deploy, Install!Initialised
  <2>2. CASE ~(stack.stage = "None")
    BY <2>2, InstallOrder, SMTT(40)
       DEF Install!Migrate, Install!At, Install!Did, Install!Deploy, Install!Initialised
  <2> QED
    BY <2>1, <2>2
<1>7. ResetIsTrue'
  <2>1. CASE stack.stage = "None"
    BY <2>1, InstallOrder, SMTT(40)
       DEF Install!Migrate, Install!At, Install!Did, Install!Deploy, Install!Initialised
  <2>2. CASE ~(stack.stage = "None")
    BY <2>2, InstallOrder, SMTT(40)
       DEF Install!Migrate, Install!At, Install!Did, Install!Deploy, Install!Initialised
  <2> QED
    BY <2>1, <2>2
<1>8. CertificateIsKept'
  <2>1. CASE stack.stage = "None"
    BY <2>1, InstallOrder, SMTT(40)
       DEF Install!Migrate, Install!At, Install!Did, Install!Deploy, Install!Initialised
  <2>2. CASE ~(stack.stage = "None")
    BY <2>2, InstallOrder, SMTT(40)
       DEF Install!Migrate, Install!At, Install!Did, Install!Deploy, Install!Initialised
  <2> QED
    BY <2>1, <2>2
<1>9. (spared /\ Install!InstalledIsDeployed /\ Install!ResetDestroys)'
  BY InstallOrder, SMTT(40)
     DEF Install!Migrate, Install!At, Install!Did, Install!Deploy, Install!Initialised
<1> QED
  BY <1>1, <1>2, <1>3, <1>4, <1>5, <1>6, <1>7, <1>8, <1>9, Zenon

LEMMA CreateClientStep == ASSUME InstallKnown, Install!CreateClient PROVE InstallInv'
<1>1. InstallTypes'
  BY CreateClientTyped
<1>2. (InOrder /\ ResetInOrder)'
  BY InstallOrder, SMTT(40) DEF Install!CreateClient, Install!At, Install!Did
<1>3. AtPhase'
  <2>1. CASE installDb.client = 0
    BY <2>1, NewClient, InstallOrder, SMTT(40) DEF Install!CreateClient, Install!At, Install!Did
  <2>2. CASE ~(installDb.client = 0)
    BY <2>2, InstallOrder, SMTT(40) DEF Install!CreateClient, Install!At, Install!Did
  <2> QED
    BY <2>1, <2>2
<1>4. SecretsAreFiles'
  <2>1. CASE installDb.client = 0
    BY <2>1, NewClient, InstallOrder, SMTT(40) DEF Install!CreateClient, Install!At, Install!Did
  <2>2. CASE ~(installDb.client = 0)
    BY <2>2, InstallOrder, SMTT(40) DEF Install!CreateClient, Install!At, Install!Did
  <2> QED
    BY <2>1, <2>2
<1>5. MarksAreTrue'
  <2>1. CASE installDb.client = 0
    BY <2>1, NewClient, InstallOrder, SMTT(40) DEF Install!CreateClient, Install!At, Install!Did
  <2>2. CASE ~(installDb.client = 0)
    BY <2>2, InstallOrder, SMTT(40) DEF Install!CreateClient, Install!At, Install!Did
  <2> QED
    BY <2>1, <2>2
<1>6. ClientIsKnown'
  <2>1. CASE installDb.client = 0
    BY <2>1, NewClient, InstallOrder, SMTT(40) DEF Install!CreateClient, Install!At, Install!Did
  <2>2. CASE ~(installDb.client = 0)
    BY <2>2, InstallOrder, SMTT(40) DEF Install!CreateClient, Install!At, Install!Did
  <2> QED
    BY <2>1, <2>2
<1>7. ResetIsTrue'
  <2>1. CASE installDb.client = 0
    BY <2>1, NewClient, InstallOrder, SMTT(40) DEF Install!CreateClient, Install!At, Install!Did
  <2>2. CASE ~(installDb.client = 0)
    BY <2>2, InstallOrder, SMTT(40) DEF Install!CreateClient, Install!At, Install!Did
  <2> QED
    BY <2>1, <2>2
<1>8. CertificateIsKept'
  <2>1. CASE installDb.client = 0
    BY <2>1, NewClient, InstallOrder, SMTT(40) DEF Install!CreateClient, Install!At, Install!Did
  <2>2. CASE ~(installDb.client = 0)
    BY <2>2, InstallOrder, SMTT(40) DEF Install!CreateClient, Install!At, Install!Did
  <2> QED
    BY <2>1, <2>2
<1>9. (spared /\ Install!InstalledIsDeployed /\ Install!ResetDestroys)'
  BY InstallOrder, SMTT(40) DEF Install!CreateClient, Install!At, Install!Did
<1> QED
  BY <1>1, <1>2, <1>3, <1>4, <1>5, <1>6, <1>7, <1>8, <1>9, Zenon

LEMMA ApplyClientStep == ASSUME InstallKnown, Install!ApplyClient PROVE InstallInv'
BY SMTT(60) DEF Install!ApplyClient, Install!Did

LEMMA EnableIngressStep == ASSUME InstallKnown, Install!EnableIngress PROVE InstallInv'
<1>1. InstallTypes'
  BY EnableIngressTyped
<1>2. (InOrder /\ ResetInOrder)'
  BY InstallOrder, SMTT(40)
     DEF Install!EnableIngress, Install!At, Install!Did, Install!Deploy, Install!Initialised
<1>3. AtPhase'
  BY InstallOrder, SMTT(40)
     DEF Install!EnableIngress, Install!At, Install!Did, Install!Deploy, Install!Initialised
<1>4. SecretsAreFiles'
  BY InstallOrder, SMTT(40)
     DEF Install!EnableIngress, Install!At, Install!Did, Install!Deploy, Install!Initialised
<1>5. MarksAreTrue'
  BY InstallOrder, SMTT(40)
     DEF Install!EnableIngress, Install!At, Install!Did, Install!Deploy, Install!Initialised
<1>6. ClientIsKnown'
  BY InstallOrder, SMTT(40)
     DEF Install!EnableIngress, Install!At, Install!Did, Install!Deploy, Install!Initialised
<1>7. ResetIsTrue'
  BY InstallOrder, SMTT(40)
     DEF Install!EnableIngress, Install!At, Install!Did, Install!Deploy, Install!Initialised
<1>8. CertificateIsKept'
  BY InstallOrder, SMTT(40)
     DEF Install!EnableIngress, Install!At, Install!Did, Install!Deploy, Install!Initialised
<1>9. (spared /\ Install!InstalledIsDeployed /\ Install!ResetDestroys)'
  BY InstallOrder, SMTT(40)
     DEF Install!EnableIngress, Install!At, Install!Did, Install!Deploy, Install!Initialised
<1> QED
  BY <1>1, <1>2, <1>3, <1>4, <1>5, <1>6, <1>7, <1>8, <1>9, Zenon

LEMMA DeployFinalStep == ASSUME InstallKnown, Install!DeployFinal PROVE InstallInv'
<1>1. InstallTypes'
  BY DeployFinalTyped
<1>2. (InOrder /\ ResetInOrder)'
  BY InstallOrder, SMTT(40)
     DEF Install!DeployFinal, Install!At, Install!Did, Install!Deploy, Install!Initialised
<1>3. AtPhase'
  BY InstallOrder, SMTT(40)
     DEF Install!DeployFinal, Install!At, Install!Did, Install!Deploy, Install!Initialised
<1>4. SecretsAreFiles'
  BY InstallOrder, SMTT(40)
     DEF Install!DeployFinal, Install!At, Install!Did, Install!Deploy, Install!Initialised
<1>5. MarksAreTrue'
  BY InstallOrder, SMTT(40)
     DEF Install!DeployFinal, Install!At, Install!Did, Install!Deploy, Install!Initialised
<1>6. ClientIsKnown'
  BY InstallOrder, SMTT(40)
     DEF Install!DeployFinal, Install!At, Install!Did, Install!Deploy, Install!Initialised
<1>7. ResetIsTrue'
  BY InstallOrder, SMTT(40)
     DEF Install!DeployFinal, Install!At, Install!Did, Install!Deploy, Install!Initialised
<1>8. CertificateIsKept'
  BY InstallOrder, SMTT(40)
     DEF Install!DeployFinal, Install!At, Install!Did, Install!Deploy, Install!Initialised
<1>9. (spared /\ Install!InstalledIsDeployed /\ Install!ResetDestroys)'
  BY InstallOrder, SMTT(40)
     DEF Install!DeployFinal, Install!At, Install!Did, Install!Deploy, Install!Initialised
<1> QED
  BY <1>1, <1>2, <1>3, <1>4, <1>5, <1>6, <1>7, <1>8, <1>9, Zenon

LEMMA KeepCertificateStep == ASSUME InstallKnown, Install!KeepCertificate PROVE InstallInv'
BY SMTT(60) DEF Install!KeepCertificate, Install!Did

LEMMA PersistStep == ASSUME InstallKnown, Install!Persist PROVE InstallInv'
BY InstallOrder, SMTT(60) DEF Install!Persist, Install!At, Install!Did

LEMMA MarkDoneStep == ASSUME InstallKnown, Install!MarkDone PROVE InstallInv'
BY InstallOrder, SMTT(60) DEF Install!MarkDone, Install!Did

LEMMA EndInstallStep == ASSUME InstallKnown, Install!EndInstall PROVE InstallInv'
BY InstallOrder, SMTT(60) DEF Install!EndInstall, Install!At

LEMMA ResetSettingsStep == ASSUME InstallKnown, Install!ResetSettings PROVE InstallInv'
BY SMTT(60) DEF Install!ResetSettings, Install!Start, Install!Installed

LEMMA ResetInstallerStateStep ==
    ASSUME InstallKnown, Install!ResetInstallerState
    PROVE  InstallInv'
BY SMTT(60) DEF Install!ResetInstallerState, Install!Start, Install!Installed, Install!Protected

LEMMA StartResetStep == ASSUME InstallKnown, Install!StartReset PROVE InstallInv'
BY SMTT(60) DEF Install!StartReset, Install!Start, Install!Approve, Install!StillApproved

LEMMA PreserveCertificateStep ==
    ASSUME InstallKnown, Install!PreserveCertificate
    PROVE  InstallInv'
BY ResetOrder, SMTT(60) DEF Install!PreserveCertificate, Install!ResetAt, Install!Did

LEMMA RemoveStackStep == ASSUME InstallKnown, Install!RemoveStack PROVE InstallInv'
BY ResetOrder, SMTT(60) DEF Install!RemoveStack, Install!ResetAt, Install!Did

LEMMA RemoveSwarmResourcesStep ==
    ASSUME InstallKnown, Install!RemoveSwarmResources
    PROVE  InstallInv'
<1>1. InstallTypes'
  BY RemoveSwarmResourcesTyped
<1>2. (InOrder /\ ResetInOrder)'
  BY ResetOrder, SMTT(40) DEF Install!RemoveSwarmResources, Install!ResetAt, Install!Did
<1>3. AtPhase'
  <2>1. CASE installSwarm.active
    BY <2>1, ResetOrder, SMTT(40) DEF Install!RemoveSwarmResources, Install!ResetAt, Install!Did
  <2>2. CASE ~(installSwarm.active)
    BY <2>2, ResetOrder, SMTT(40) DEF Install!RemoveSwarmResources, Install!ResetAt, Install!Did
  <2> QED
    BY <2>1, <2>2
<1>4. SecretsAreFiles'
  <2>1. CASE installSwarm.active
    BY <2>1, ResetOrder, SMTT(40) DEF Install!RemoveSwarmResources, Install!ResetAt, Install!Did
  <2>2. CASE ~(installSwarm.active)
    BY <2>2, ResetOrder, SMTT(40) DEF Install!RemoveSwarmResources, Install!ResetAt, Install!Did
  <2> QED
    BY <2>1, <2>2
<1>5. MarksAreTrue'
  <2>1. CASE installSwarm.active
    BY <2>1, ResetOrder, SMTT(40) DEF Install!RemoveSwarmResources, Install!ResetAt, Install!Did
  <2>2. CASE ~(installSwarm.active)
    BY <2>2, ResetOrder, SMTT(40) DEF Install!RemoveSwarmResources, Install!ResetAt, Install!Did
  <2> QED
    BY <2>1, <2>2
<1>6. ClientIsKnown'
  <2>1. CASE installSwarm.active
    BY <2>1, ResetOrder, SMTT(40) DEF Install!RemoveSwarmResources, Install!ResetAt, Install!Did
  <2>2. CASE ~(installSwarm.active)
    BY <2>2, ResetOrder, SMTT(40) DEF Install!RemoveSwarmResources, Install!ResetAt, Install!Did
  <2> QED
    BY <2>1, <2>2
<1>7. ResetIsTrue'
  <2>1. CASE installSwarm.active
    BY <2>1, ResetOrder, SMTT(40) DEF Install!RemoveSwarmResources, Install!ResetAt, Install!Did
  <2>2. CASE ~(installSwarm.active)
    BY <2>2, ResetOrder, SMTT(40) DEF Install!RemoveSwarmResources, Install!ResetAt, Install!Did
  <2> QED
    BY <2>1, <2>2
<1>8. CertificateIsKept'
  <2>1. CASE installSwarm.active
    BY <2>1, ResetOrder, SMTT(40) DEF Install!RemoveSwarmResources, Install!ResetAt, Install!Did
  <2>2. CASE ~(installSwarm.active)
    BY <2>2, ResetOrder, SMTT(40) DEF Install!RemoveSwarmResources, Install!ResetAt, Install!Did
  <2> QED
    BY <2>1, <2>2
<1>9. (spared /\ Install!InstalledIsDeployed /\ Install!ResetDestroys)'
  BY ResetOrder, SMTT(40) DEF Install!RemoveSwarmResources, Install!ResetAt, Install!Did
<1> QED
  BY <1>1, <1>2, <1>3, <1>4, <1>5, <1>6, <1>7, <1>8, <1>9, Zenon

LEMMA UnmountRuntimeStep == ASSUME InstallKnown, Install!UnmountRuntime PROVE InstallInv'
<1>1. InstallTypes'
  BY UnmountRuntimeTyped
<1>2. (InOrder /\ ResetInOrder)'
  BY ResetOrder, SMTT(40) DEF Install!UnmountRuntime, Install!ResetAt, Install!Did
<1>3. AtPhase'
  BY ResetOrder, SMTT(40) DEF Install!UnmountRuntime, Install!ResetAt, Install!Did
<1>4. SecretsAreFiles'
  BY ResetOrder, SMTT(40) DEF Install!UnmountRuntime, Install!ResetAt, Install!Did
<1>5. MarksAreTrue'
  BY ResetOrder, SMTT(40) DEF Install!UnmountRuntime, Install!ResetAt, Install!Did
<1>6. ClientIsKnown'
  BY ResetOrder, SMTT(40) DEF Install!UnmountRuntime, Install!ResetAt, Install!Did
<1>7. ResetIsTrue'
  BY ResetOrder, SMTT(40) DEF Install!UnmountRuntime, Install!ResetAt, Install!Did
<1>8. CertificateIsKept'
  BY ResetOrder, SMTT(40) DEF Install!UnmountRuntime, Install!ResetAt, Install!Did
<1>9. (spared /\ Install!InstalledIsDeployed /\ Install!ResetDestroys)'
  BY ResetOrder, SMTT(40) DEF Install!UnmountRuntime, Install!ResetAt, Install!Did
<1> QED
  BY <1>1, <1>2, <1>3, <1>4, <1>5, <1>6, <1>7, <1>8, <1>9, Zenon

LEMMA LeaveSwarmStep == ASSUME InstallKnown, Install!LeaveSwarm PROVE InstallInv'
<1>1. InstallTypes'
  BY LeaveSwarmTyped
<1>2. (InOrder /\ ResetInOrder)'
  BY ResetOrder, SMTT(40) DEF Install!LeaveSwarm, Install!ResetAt, Install!Did
<1>3. AtPhase'
  BY ResetOrder, SMTT(40) DEF Install!LeaveSwarm, Install!ResetAt, Install!Did
<1>4. SecretsAreFiles'
  BY ResetOrder, SMTT(40) DEF Install!LeaveSwarm, Install!ResetAt, Install!Did
<1>5. MarksAreTrue'
  BY ResetOrder, SMTT(40) DEF Install!LeaveSwarm, Install!ResetAt, Install!Did
<1>6. ClientIsKnown'
  BY ResetOrder, SMTT(40) DEF Install!LeaveSwarm, Install!ResetAt, Install!Did
<1>7. ResetIsTrue'
  BY ResetOrder, SMTT(40) DEF Install!LeaveSwarm, Install!ResetAt, Install!Did
<1>8. CertificateIsKept'
  BY ResetOrder, SMTT(40) DEF Install!LeaveSwarm, Install!ResetAt, Install!Did
<1>9. (spared /\ Install!InstalledIsDeployed /\ Install!ResetDestroys)'
  BY ResetOrder, SMTT(40) DEF Install!LeaveSwarm, Install!ResetAt, Install!Did
<1> QED
  BY <1>1, <1>2, <1>3, <1>4, <1>5, <1>6, <1>7, <1>8, <1>9, Zenon

LEMMA WipeStorageStep == ASSUME InstallKnown, Install!WipeStorage PROVE InstallInv'
<1>1. InstallTypes'
  BY WipeStorageTyped
<1>2. disk = "storage"
  BY StorageIsDisk
<1>3. (InOrder /\ ResetInOrder)'
  BY <1>2, ResetOrder, SMTT(40)
     DEF Install!WipeStorage, Install!ResetAt, Install!Did, Install!Revalidated
<1>4. AtPhase'
  BY <1>2, ResetOrder, SMTT(40)
     DEF Install!WipeStorage, Install!ResetAt, Install!Did, Install!Revalidated
<1>5. SecretsAreFiles'
  BY <1>2, ResetOrder, SMTT(40)
     DEF Install!WipeStorage, Install!ResetAt, Install!Did, Install!Revalidated
<1>6. MarksAreTrue'
  BY <1>2, ResetOrder, SMTT(40)
     DEF Install!WipeStorage, Install!ResetAt, Install!Did, Install!Revalidated
<1>7. ClientIsKnown'
  BY <1>2, ResetOrder, SMTT(40)
     DEF Install!WipeStorage, Install!ResetAt, Install!Did, Install!Revalidated
<1>8. ResetIsTrue'
  BY <1>2, ResetOrder, SMTT(40)
     DEF Install!WipeStorage, Install!ResetAt, Install!Did, Install!Revalidated
<1>9. CertificateIsKept'
  BY <1>2, ResetOrder, SMTT(40)
     DEF Install!WipeStorage, Install!ResetAt, Install!Did, Install!Revalidated
<1>10. (spared /\ Install!InstalledIsDeployed /\ Install!ResetDestroys)'
  BY <1>2, ResetOrder, SMTT(40)
     DEF Install!WipeStorage, Install!ResetAt, Install!Did, Install!Revalidated
<1> QED
  BY <1>1, <1>3, <1>4, <1>5, <1>6, <1>7, <1>8, <1>9, <1>10, Zenon

LEMMA RemoveDataStep == ASSUME InstallKnown, Install!RemoveData PROVE InstallInv'
BY ResetOrder, SMTT(60) DEF Install!RemoveData, Install!ResetAt, Install!Did

LEMMA RemoveStateStep == ASSUME InstallKnown, Install!RemoveState PROVE InstallInv'
BY ResetOrder, SMTT(60) DEF Install!RemoveState, Install!ResetAt, Install!Did

LEMMA CleanUpStep == ASSUME InstallKnown, Install!CleanUp PROVE InstallInv'
BY ResetOrder, SMTT(60) DEF Install!CleanUp, Install!ResetAt, Install!Did

LEMMA EndResetStep == ASSUME InstallKnown, Install!EndReset PROVE InstallInv'
BY SMTT(60) DEF Install!EndReset, Install!MarksGo

LEMMA MarkResetStep == ASSUME InstallKnown, Install!MarkReset PROVE InstallInv'
BY ResetOrder, SMTT(60) DEF Install!MarkReset, Install!Did

LEMMA EndsStep == ASSUME InstallKnown, Install!Ends PROVE InstallInv'
BY SMTT(60) DEF Install!Ends

LEMMA SwapStep == ASSUME InstallKnown, Install!Swap PROVE InstallInv'
BY SMTT(60) DEF Install!Swap, Install!Event

LEMMA DaemonStep == ASSUME InstallKnown, Install!Daemon PROVE InstallInv'
BY SMTT(60) DEF Install!Daemon, Install!Event

LEMMA InstallStutters == ASSUME InstallKnown, UNCHANGED Install!vars PROVE InstallInv'
BY DEF Install!vars

LEMMA InstallInit == ASSUME Install!InstallAssumption, Install!Init PROVE InstallInv
<1>1. InstallTypes
  <2>1. 0 \in 0..MaxStamp
    OBVIOUS
  <2>2. proc \in Procs /\ installSwarm \in Swarms /\ stack \in Stacks /\ installDb \in Data
    BY <2>1 DEF Install!Init
  <2> QED
    BY <2>1, <2>2, Zenon DEF Install!Init
<1>2. InOrder /\ ResetInOrder /\ AtPhase
  BY DEF Install!Init
<1>3. SecretsAreFiles /\ MarksAreTrue /\ ClientIsKnown
  BY DEF Install!Init
<1>4. /\ ResetIsTrue /\ CertificateIsKept /\ spared
      /\ Install!InstalledIsDeployed /\ Install!ResetDestroys
  BY DEF Install!Init
<1> QED
  BY <1>1, <1>2, <1>3, <1>4

HIDE DEF InstallKnown, Install!InstallAssumption, InstallInv, InstallTypes, InOrder,
    ResetInOrder, AtPhase, SecretsAreFiles, MarksAreTrue, ClientIsKnown, ResetIsTrue,
    CertificateIsKept, Install!InstalledIsDeployed, Install!ResetDestroys, Has, Undone, Marks,
    ResetMarks, Stacks, Swarms, Data, Procs, Install!NoStack, Install!NoSwarm, Install!NoData,
    Install!Idle, Install!state, Install!cluster, Install!storage, Install!resetting,
    Install!bounds

LEMMA InstallTyped == ASSUME InstallInv, Install!InstallAssumption PROVE Install!TypeOK
<1>1. /\ Install!Range(Install!InstallPhases) = Marks
      /\ Install!Range(Install!ResetPhases) = ResetMarks
  <2>1. Len(Install!InstallPhases) = 9 /\ Len(Install!ResetPhases) = 9
    BY DEF Install!InstallPhases, Install!ResetPhases
  <2> QED
    BY <2>1 DEF Install!Range, Install!InstallPhases, Install!ResetPhases, Marks, ResetMarks
<1> QED
  BY <1>1 DEF InstallInv, InstallTypes, Install!TypeOK, Stacks, Procs

LEMMA InstallSafe ==
    ASSUME InstallInv, Install!InstallAssumption
    PROVE  /\ Install!SecretsFit /\ Install!InstalledIsDeployed /\ Install!ResetDestroys
           /\ Install!SpareIsKept /\ Install!IssuedOnce
BY DEF InstallInv, SecretsAreFiles, CertificateIsKept, Install!SecretsFit, Install!SpareIsKept,
       Install!IssuedOnce

LEMMA InstallMoves == ASSUME InstallKnown, Install!Next PROVE InstallInv'
BY StartInstallStep, RecoverStep, PrepareStorageStep, InitSwarmStep, CreateFilesStep,
    CreateUrlStep, BootstrapStep, MigrateStep, CreateClientStep, ApplyClientStep,
    EnableIngressStep, DeployFinalStep, KeepCertificateStep, PersistStep, MarkDoneStep,
    EndInstallStep, ResetSettingsStep, ResetInstallerStateStep, StartResetStep,
    PreserveCertificateStep, RemoveStackStep, RemoveSwarmResourcesStep, UnmountRuntimeStep,
    LeaveSwarmStep, WipeStorageStep, RemoveDataStep, RemoveStateStep, CleanUpStep, EndResetStep,
    MarkResetStep, EndsStep, SwapStep, DaemonStep
   DEF Install!Next, Install!Install, Install!Reset

-----------------------------------------------------------------------------
(* Updates of the platform, for every set of releases and every number of failures and kills. *)
(* The journal names the release that its databases fit, and an installer follows it. *)

Steps ==
    {"Idle", "Prepare", "AgainDeploy", "AgainFiles", "QuiesceApi", "QuiesceZitadel", "Snapshot",
     "Postgres", "Zitadel", "Migrate", "Deploy", "Manifest", "Config", "Stack", "Complete", "UndoQuiesceApi",
     "UndoQuiesceZitadel", "Restore", "RestoreZitadel", "UndoDeploy", "UndoFiles"}
UndoSteps ==
    {"UndoQuiesceApi", "UndoQuiesceZitadel", "Restore", "RestoreZitadel", "UndoDeploy", "UndoFiles"}
AgainSteps == {"AgainDeploy", "AgainFiles"}
Ops ==
    [status : {"None", "Queued", "Running", "Failed", "Succeeded"}, tries : 0..MaxAttempts,
     fresh : BOOLEAN]
Insts == [pc : Steps, to : Upgrade!Releases, from : Upgrade!Releases]
Dbs == [rp : Upgrade!Releases, zit : Upgrade!Releases, rows : SUBSET (1..MaxRows)]
FileSets == [manifest : Upgrade!Releases, config : Upgrade!Releases, stack : Upgrade!Releases]
Journals ==
    [phase : {"completed", "rolled-back", "applying", "rolling-back", "rollback-failed"},
     from : Upgrade!Releases, to : Upgrade!Releases, snapshot : {"none", "verified", "restored"},
     late : BOOLEAN, prev : FileSets]

UpgradeTypes ==
    /\ op \in [Targets -> Ops]
    /\ updater \in [Targets -> {"None", "Created", "Starting", "Running", "Failed", "Done"}]
    /\ inst \in Insts /\ api \in {0} \cup Upgrade!Releases /\ zitadel \in {0} \cup Upgrade!Releases
    /\ db \in Dbs /\ dump \in Dbs /\ upgradeFiles \in FileSets /\ journal \in Journals
    /\ base \in Upgrade!Releases /\ kept \in SUBSET (1..MaxRows)

\* The attempts that are left, and what the updaters report.
OpsAreTrue ==
    /\ \A t \in Targets : op[t].status = "Queued" => op[t].tries < MaxAttempts
    /\ \A t \in Targets : op[t].status = "None" => op[t].tries = 0
    /\ \A t \in Targets : updater[t] # "Created"
    /\ \A t \in Targets : updater[t] = "Done" \/ op[t].status = "Succeeded" => base >= t

Open == journal.phase \notin Upgrade!SettledPhases

JournalIsKept ==
    /\ inst.pc # "Idle" => inst.to \in Targets /\ inst.from \in SupportedFrom(inst.to)
    /\ Open =>
          /\ base = journal.from /\ journal.prev = Upgrade!All(base)
          /\ journal.to \in Targets /\ journal.from \in SupportedFrom(journal.to)
    /\ ~Open =>
          /\ base = (IF journal.phase = "completed" THEN journal.to ELSE journal.from)
          /\ inst.pc \in {"Idle", "Prepare"} /\ upgradeFiles = Upgrade!All(base)
          /\ api = base /\ zitadel = base
          /\ inst.pc = "Prepare" => inst.from = base
    /\ inst.pc \in AgainSteps => journal.phase = "rollback-failed" /\ Upgrade!Recoverable
    /\ inst.pc \notin {"Idle", "Prepare"} \cup AgainSteps =>
          /\ inst.to = journal.to /\ inst.from = journal.from
          /\ journal.phase = IF inst.pc \in UndoSteps THEN "rolling-back" ELSE "applying"

\* What a step of the installer relies on.
StepsFollow ==
    /\ inst.pc \in {"QuiesceApi", "QuiesceZitadel", "Snapshot"} => journal.snapshot = "none"
    /\ inst.pc \in {"QuiesceApi", "QuiesceZitadel", "Snapshot", "Postgres"} => ~journal.late
    /\ inst.pc = "QuiesceApi" => api = base /\ zitadel = base
    /\ inst.pc \in {"QuiesceZitadel", "Snapshot", "Postgres", "Zitadel", "Migrate", "Deploy",
                    "UndoQuiesceZitadel", "Restore", "RestoreZitadel"} => api = 0
    /\ inst.pc \in {"Snapshot", "Postgres", "Zitadel", "Restore", "RestoreZitadel"} => zitadel = 0
    /\ inst.pc \in {"Postgres", "Zitadel", "Migrate", "Deploy", "Manifest", "Config", "Stack",
                    "Complete"} =>
          journal.snapshot = IF Tested(journal.to) THEN "verified" ELSE "none"
    /\ inst.pc = "Snapshot" => Tested(journal.to)
    /\ inst.pc = "Migrate" => zitadel = inst.to
    /\ inst.pc \in {"Migrate", "Deploy", "Manifest", "Config", "Stack", "Complete"} =>
          db.zit = inst.to
    /\ inst.pc \in {"Deploy", "Manifest", "Config", "Stack", "Complete"} => db.rp = inst.to
    /\ inst.pc \in {"Manifest", "Config", "Stack", "Complete"} => api = inst.to /\ zitadel = inst.to
    /\ inst.pc \in {"Config", "Stack", "Complete"} => upgradeFiles.manifest = inst.to
    /\ inst.pc \in {"Stack", "Complete"} => upgradeFiles.config = inst.to
    /\ inst.pc = "Complete" => upgradeFiles.stack = inst.to
    /\ inst.pc \in {"UndoQuiesceApi", "UndoQuiesceZitadel", "Restore", "RestoreZitadel"} =>
          journal.snapshot = "verified"
    /\ inst.pc = "RestoreZitadel" => db.rp = dump.rp
    /\ inst.pc \in {"UndoDeploy", "UndoFiles"} => journal.snapshot # "verified"
    /\ inst.pc \in {"UndoFiles", "AgainFiles"} => api = base /\ zitadel = base

\* The databases the installed release can run on: these, or those of the snapshot.
Fits(data) == Upgrade!Runs(base, data.rp) /\ Upgrade!Runs(base, data.zit)
DataIsKept ==
    /\ Open /\ journal.snapshot = "verified" =>
          /\ Fits(dump) /\ kept \subseteq dump.rows /\ api \in {0, journal.to}
    /\ Open /\ journal.snapshot = "none" /\ (~journal.late \/ ~Tested(journal.to)) => Fits(db)
    /\ Open /\ journal.snapshot = "restored" => Fits(db)
    /\ Open /\ Tested(journal.to) /\ journal.late => journal.snapshot # "none"
    /\ kept \subseteq db.rows

UpgradeInv ==
    /\ UpgradeTypes /\ OpsAreTrue /\ JournalIsKept /\ StepsFollow /\ DataIsKept
    /\ Upgrade!ServicesFitTheirData

UpgradeKnown ==
    Upgrade!UpgradeAssumption /\ UpgradeInv

LEMMA ExecuteWrites ==
    ASSUME UpgradeKnown, NEW t \in Targets, Upgrade!Execute(t)
    PROVE  \E o \in Ops : /\ op' = [op EXCEPT ![t] = o]
                          /\ o.status \in {"Queued", "Running", "Failed"}
                          /\ o.status = "Queued" => o.tries < MaxAttempts
<1> DEFINE o == [op[t] EXCEPT !.tries = @ + 1, !.fresh = FALSE]
<1>1. op[t] \in Ops /\ op[t].tries + 1 \in 0..MaxAttempts
  BY DEF UpgradeKnown, Upgrade!UpgradeAssumption, UpgradeInv, UpgradeTypes, OpsAreTrue,
         Upgrade!Execute, Ops
<1>2. o \in Ops /\ o.status = "Queued"
  BY <1>1 DEF Ops, Upgrade!Execute
<1>3. /\ Upgrade!Again(o) \in Ops /\ Upgrade!Again(o).status \in {"Queued", "Failed"}
      /\ Upgrade!Again(o).status = "Queued" => Upgrade!Again(o).tries < MaxAttempts
  BY <1>2 DEF Upgrade!Again, Ops
<1>4. \A s \in {"Running", "Failed"} : [o EXCEPT !.status = s] \in Ops /\ [o EXCEPT !.status = s].status = s
  BY <1>2 DEF Ops
<1>5. Upgrade!WithoutUpdater(t) \in {"Fail", "Start"}
  BY DEF Upgrade!WithoutUpdater
<1>6. \/ \E s \in {"Running", "Failed"} : op' = [op EXCEPT ![t] = [o EXCEPT !.status = s]]
      \/ op' = [op EXCEPT ![t] = Upgrade!Again(o)]
  BY <1>5 DEF Upgrade!Execute
<1> HIDE DEF o
<1> QED
  BY <1>3, <1>4, <1>6

LEMMA RequestUpdateTyped ==
    ASSUME UpgradeKnown, NEW t \in Targets, Upgrade!RequestUpdate(t)
    PROVE  UpgradeTypes'
<1>1. op' \in [Targets -> Ops]
  BY DEF UpgradeKnown, Upgrade!UpgradeAssumption, UpgradeInv, UpgradeTypes, Ops,
         Upgrade!RequestUpdate, Upgrade!opVars, Upgrade!diskVars, Upgrade!Goto, Upgrade!Exit,
         Upgrade!Fault
<1>2. updater' \in [Targets -> {"None", "Created", "Starting", "Running", "Failed", "Done"}]
  BY DEF UpgradeKnown, Upgrade!UpgradeAssumption, UpgradeInv, UpgradeTypes, Upgrade!Releases,
         Insts, Upgrade!RequestUpdate, Upgrade!opVars, Upgrade!diskVars, Upgrade!Goto,
         Upgrade!Exit, Upgrade!Fault
<1>3. inst' \in Insts
  BY DEF UpgradeKnown, Upgrade!UpgradeAssumption, UpgradeInv, UpgradeTypes, Insts, Steps,
         Upgrade!Idle, Upgrade!Releases, Upgrade!RequestUpdate, Upgrade!opVars,
         Upgrade!diskVars, Upgrade!Goto, Upgrade!Exit, Upgrade!Fault
<1>4. journal' \in Journals
  BY DEF UpgradeKnown, Upgrade!UpgradeAssumption, UpgradeInv, UpgradeTypes, Journals, FileSets,
         Insts, Upgrade!RequestUpdate, Upgrade!opVars, Upgrade!diskVars, Upgrade!Goto,
         Upgrade!Exit, Upgrade!Fault
<1> QED
  BY <1>1, <1>2, <1>3, <1>4
     DEF UpgradeKnown, Upgrade!UpgradeAssumption, UpgradeInv, UpgradeTypes, Upgrade!Releases,
         Insts, FileSets, Dbs, Journals, Upgrade!RequestUpdate, Upgrade!opVars,
         Upgrade!diskVars, Upgrade!Goto, Upgrade!Exit, Upgrade!Fault

LEMMA ExecuteTyped ==
    ASSUME UpgradeKnown, NEW t \in Targets, Upgrade!Execute(t)
    PROVE  UpgradeTypes'
<1>1. op' \in [Targets -> Ops]
  <2>1. PICK o \in Ops : /\ op' = [op EXCEPT ![t] = o]
                         /\ o.status \in {"Queued", "Running", "Failed"}
                         /\ o.status = "Queued" => o.tries < MaxAttempts
    BY ExecuteWrites
  <2>2. op \in [Targets -> Ops]
    BY DEF UpgradeKnown, UpgradeInv, UpgradeTypes
  <2>3. op' = [op EXCEPT ![t] = o]
    BY <2>1
  <2> QED
    BY <2>2, <2>3
<1>2. updater' \in [Targets -> {"None", "Created", "Starting", "Running", "Failed", "Done"}]
  BY DEF UpgradeKnown, Upgrade!UpgradeAssumption, UpgradeInv, UpgradeTypes, Upgrade!Releases,
         Insts, Upgrade!Execute, Upgrade!Again, Upgrade!WithoutUpdater, Upgrade!opVars,
         Upgrade!diskVars, Upgrade!Goto, Upgrade!Exit, Upgrade!Fault
<1>3. inst' \in Insts
  BY DEF UpgradeKnown, Upgrade!UpgradeAssumption, UpgradeInv, UpgradeTypes, Insts, Steps,
         Upgrade!Idle, Upgrade!Releases, Upgrade!Execute, Upgrade!Again, Upgrade!WithoutUpdater,
         Upgrade!opVars, Upgrade!diskVars, Upgrade!Goto, Upgrade!Exit, Upgrade!Fault
<1>4. journal' \in Journals
  BY DEF UpgradeKnown, Upgrade!UpgradeAssumption, UpgradeInv, UpgradeTypes, Journals, FileSets,
         Insts, Upgrade!Execute, Upgrade!Again, Upgrade!WithoutUpdater, Upgrade!opVars,
         Upgrade!diskVars, Upgrade!Goto, Upgrade!Exit, Upgrade!Fault
<1> QED
  BY <1>1, <1>2, <1>3, <1>4
     DEF UpgradeKnown, Upgrade!UpgradeAssumption, UpgradeInv, UpgradeTypes, Upgrade!Releases,
         Insts, FileSets, Dbs, Journals, Upgrade!Execute, Upgrade!Again, Upgrade!WithoutUpdater,
         Upgrade!opVars, Upgrade!diskVars, Upgrade!Goto, Upgrade!Exit, Upgrade!Fault

LEMMA CrashTyped == ASSUME UpgradeKnown, Upgrade!Crash PROVE UpgradeTypes'
<1>1. op' \in [Targets -> Ops]
  BY DEF UpgradeKnown, Upgrade!UpgradeAssumption, UpgradeInv, UpgradeTypes, Ops, Upgrade!Crash,
         Upgrade!opVars, Upgrade!diskVars, Upgrade!Goto, Upgrade!Exit, Upgrade!Fault
<1>2. updater' \in [Targets -> {"None", "Created", "Starting", "Running", "Failed", "Done"}]
  BY DEF UpgradeKnown, Upgrade!UpgradeAssumption, UpgradeInv, UpgradeTypes, Upgrade!Releases,
         Insts, Upgrade!Crash, Upgrade!opVars, Upgrade!diskVars, Upgrade!Goto, Upgrade!Exit,
         Upgrade!Fault
<1>3. inst' \in Insts
  BY DEF UpgradeKnown, Upgrade!UpgradeAssumption, UpgradeInv, UpgradeTypes, Insts, Steps,
         Upgrade!Idle, Upgrade!Releases, Upgrade!Crash, Upgrade!opVars, Upgrade!diskVars,
         Upgrade!Goto, Upgrade!Exit, Upgrade!Fault
<1>4. journal' \in Journals
  BY DEF UpgradeKnown, Upgrade!UpgradeAssumption, UpgradeInv, UpgradeTypes, Journals, FileSets,
         Insts, Upgrade!Crash, Upgrade!opVars, Upgrade!diskVars, Upgrade!Goto, Upgrade!Exit,
         Upgrade!Fault
<1> QED
  BY <1>1, <1>2, <1>3, <1>4
     DEF UpgradeKnown, Upgrade!UpgradeAssumption, UpgradeInv, UpgradeTypes, Upgrade!Releases,
         Insts, FileSets, Dbs, Journals, Upgrade!Crash, Upgrade!opVars, Upgrade!diskVars,
         Upgrade!Goto, Upgrade!Exit, Upgrade!Fault

LEMMA PrepareTyped == ASSUME UpgradeKnown, Upgrade!Prepare PROVE UpgradeTypes'
<1>1. op' \in [Targets -> Ops]
  BY DEF UpgradeKnown, Upgrade!UpgradeAssumption, UpgradeInv, UpgradeTypes, Ops,
         Upgrade!Prepare, Upgrade!Opened, Upgrade!opVars, Upgrade!diskVars, Upgrade!Goto,
         Upgrade!Exit, Upgrade!Fault
<1>2. updater' \in [Targets -> {"None", "Created", "Starting", "Running", "Failed", "Done"}]
  BY DEF UpgradeKnown, Upgrade!UpgradeAssumption, UpgradeInv, UpgradeTypes, Upgrade!Releases,
         Insts, Upgrade!Prepare, Upgrade!Opened, Upgrade!opVars, Upgrade!diskVars, Upgrade!Goto,
         Upgrade!Exit, Upgrade!Fault
<1>3. inst' \in Insts
  BY DEF UpgradeKnown, Upgrade!UpgradeAssumption, UpgradeInv, UpgradeTypes, Insts, Steps,
         Upgrade!Idle, Upgrade!Releases, Upgrade!Prepare, Upgrade!Opened, Upgrade!opVars,
         Upgrade!diskVars, Upgrade!Goto, Upgrade!Exit, Upgrade!Fault
<1>4. journal' \in Journals
  <2>1. Upgrade!Opened \in Journals
    BY DEF UpgradeKnown, UpgradeInv, UpgradeTypes, Upgrade!Opened, Journals, Insts
  <2> QED
    BY <2>1 DEF UpgradeKnown, UpgradeInv, UpgradeTypes, Upgrade!Prepare
<1> QED
  BY <1>1, <1>2, <1>3, <1>4
     DEF UpgradeKnown, Upgrade!UpgradeAssumption, UpgradeInv, UpgradeTypes, Upgrade!Releases,
         Insts, FileSets, Dbs, Journals, Upgrade!Prepare, Upgrade!Opened, Upgrade!opVars,
         Upgrade!diskVars, Upgrade!Goto, Upgrade!Exit, Upgrade!Fault

LEMMA AgainFailsTyped == ASSUME UpgradeKnown, Upgrade!AgainFails PROVE UpgradeTypes'
<1>1. op' \in [Targets -> Ops]
  BY DEF UpgradeKnown, Upgrade!UpgradeAssumption, UpgradeInv, UpgradeTypes, Ops,
         Upgrade!AgainFails, Upgrade!DeployPrevious, Upgrade!opVars, Upgrade!diskVars,
         Upgrade!Goto, Upgrade!Exit, Upgrade!Fault
<1>2. updater' \in [Targets -> {"None", "Created", "Starting", "Running", "Failed", "Done"}]
  BY DEF UpgradeKnown, Upgrade!UpgradeAssumption, UpgradeInv, UpgradeTypes, Upgrade!Releases,
         Insts, Upgrade!AgainFails, Upgrade!DeployPrevious, Upgrade!opVars, Upgrade!diskVars,
         Upgrade!Goto, Upgrade!Exit, Upgrade!Fault
<1>3. inst' \in Insts
  BY DEF UpgradeKnown, Upgrade!UpgradeAssumption, UpgradeInv, UpgradeTypes, Insts, Steps,
         Upgrade!Idle, Upgrade!Releases, Upgrade!AgainFails, Upgrade!DeployPrevious,
         Upgrade!opVars, Upgrade!diskVars, Upgrade!Goto, Upgrade!Exit, Upgrade!Fault
<1>4. journal' \in Journals
  BY DEF UpgradeKnown, Upgrade!UpgradeAssumption, UpgradeInv, UpgradeTypes, Journals, FileSets,
         Insts, Upgrade!AgainFails, Upgrade!DeployPrevious, Upgrade!opVars, Upgrade!diskVars,
         Upgrade!Goto, Upgrade!Exit, Upgrade!Fault
<1> QED
  BY <1>1, <1>2, <1>3, <1>4
     DEF UpgradeKnown, Upgrade!UpgradeAssumption, UpgradeInv, UpgradeTypes, Upgrade!Releases,
         Insts, FileSets, Dbs, Journals, Upgrade!AgainFails, Upgrade!DeployPrevious,
         Upgrade!opVars, Upgrade!diskVars, Upgrade!Goto, Upgrade!Exit, Upgrade!Fault

LEMMA PostgresTyped == ASSUME UpgradeKnown, Upgrade!Postgres PROVE UpgradeTypes'
<1>1. op' \in [Targets -> Ops]
  BY DEF UpgradeKnown, Upgrade!UpgradeAssumption, UpgradeInv, UpgradeTypes, Ops,
         Upgrade!Postgres, Upgrade!opVars, Upgrade!diskVars, Upgrade!Goto, Upgrade!Exit,
         Upgrade!Fault
<1>2. updater' \in [Targets -> {"None", "Created", "Starting", "Running", "Failed", "Done"}]
  BY DEF UpgradeKnown, Upgrade!UpgradeAssumption, UpgradeInv, UpgradeTypes, Upgrade!Releases,
         Insts, Upgrade!Postgres, Upgrade!opVars, Upgrade!diskVars, Upgrade!Goto, Upgrade!Exit,
         Upgrade!Fault
<1>3. inst' \in Insts
  BY DEF UpgradeKnown, Upgrade!UpgradeAssumption, UpgradeInv, UpgradeTypes, Insts, Steps,
         Upgrade!Idle, Upgrade!Releases, Upgrade!Postgres, Upgrade!opVars, Upgrade!diskVars,
         Upgrade!Goto, Upgrade!Exit, Upgrade!Fault
<1>4. journal' \in Journals
  BY DEF UpgradeKnown, Upgrade!UpgradeAssumption, UpgradeInv, UpgradeTypes, Journals, FileSets,
         Insts, Upgrade!Postgres, Upgrade!opVars, Upgrade!diskVars, Upgrade!Goto, Upgrade!Exit,
         Upgrade!Fault
<1> QED
  BY <1>1, <1>2, <1>3, <1>4
     DEF UpgradeKnown, Upgrade!UpgradeAssumption, UpgradeInv, UpgradeTypes, Upgrade!Releases,
         Insts, FileSets, Dbs, Journals, Upgrade!Postgres, Upgrade!opVars, Upgrade!diskVars,
         Upgrade!Goto, Upgrade!Exit, Upgrade!Fault

LEMMA ZitadelTyped == ASSUME UpgradeKnown, Upgrade!Zitadel PROVE UpgradeTypes'
<1>1. op' \in [Targets -> Ops]
  BY DEF UpgradeKnown, Upgrade!UpgradeAssumption, UpgradeInv, UpgradeTypes, Ops,
         Upgrade!Zitadel, Upgrade!opVars, Upgrade!diskVars, Upgrade!Goto, Upgrade!Exit,
         Upgrade!Fault
<1>2. updater' \in [Targets -> {"None", "Created", "Starting", "Running", "Failed", "Done"}]
  BY DEF UpgradeKnown, Upgrade!UpgradeAssumption, UpgradeInv, UpgradeTypes, Upgrade!Releases,
         Insts, Upgrade!Zitadel, Upgrade!opVars, Upgrade!diskVars, Upgrade!Goto, Upgrade!Exit,
         Upgrade!Fault
<1>3. inst' \in Insts
  BY DEF UpgradeKnown, Upgrade!UpgradeAssumption, UpgradeInv, UpgradeTypes, Insts, Steps,
         Upgrade!Idle, Upgrade!Releases, Upgrade!Zitadel, Upgrade!opVars, Upgrade!diskVars,
         Upgrade!Goto, Upgrade!Exit, Upgrade!Fault
<1>4. journal' \in Journals
  BY DEF UpgradeKnown, Upgrade!UpgradeAssumption, UpgradeInv, UpgradeTypes, Journals, FileSets,
         Insts, Upgrade!Zitadel, Upgrade!opVars, Upgrade!diskVars, Upgrade!Goto, Upgrade!Exit,
         Upgrade!Fault
<1> QED
  BY <1>1, <1>2, <1>3, <1>4
     DEF UpgradeKnown, Upgrade!UpgradeAssumption, UpgradeInv, UpgradeTypes, Upgrade!Releases,
         Insts, FileSets, Dbs, Journals, Upgrade!Zitadel, Upgrade!opVars, Upgrade!diskVars,
         Upgrade!Goto, Upgrade!Exit, Upgrade!Fault

LEMMA UndoFailsTyped == ASSUME UpgradeKnown, Upgrade!UndoFails PROVE UpgradeTypes'
<1>1. op' \in [Targets -> Ops]
  BY DEF UpgradeKnown, Upgrade!UpgradeAssumption, UpgradeInv, UpgradeTypes, Ops,
         Upgrade!UndoFails, Upgrade!DeployPrevious, Upgrade!opVars, Upgrade!diskVars,
         Upgrade!Goto, Upgrade!Exit, Upgrade!Fault
<1>2. updater' \in [Targets -> {"None", "Created", "Starting", "Running", "Failed", "Done"}]
  BY DEF UpgradeKnown, Upgrade!UpgradeAssumption, UpgradeInv, UpgradeTypes, Upgrade!Releases,
         Insts, Upgrade!UndoFails, Upgrade!DeployPrevious, Upgrade!opVars, Upgrade!diskVars,
         Upgrade!Goto, Upgrade!Exit, Upgrade!Fault
<1>3. inst' \in Insts
  BY DEF UpgradeKnown, Upgrade!UpgradeAssumption, UpgradeInv, UpgradeTypes, Insts, Steps,
         Upgrade!Idle, Upgrade!Releases, Upgrade!UndoFails, Upgrade!DeployPrevious,
         Upgrade!opVars, Upgrade!diskVars, Upgrade!Goto, Upgrade!Exit, Upgrade!Fault
<1>4. journal' \in Journals
  BY DEF UpgradeKnown, Upgrade!UpgradeAssumption, UpgradeInv, UpgradeTypes, Journals, FileSets,
         Insts, Upgrade!UndoFails, Upgrade!DeployPrevious, Upgrade!opVars, Upgrade!diskVars,
         Upgrade!Goto, Upgrade!Exit, Upgrade!Fault
<1> QED
  BY <1>1, <1>2, <1>3, <1>4
     DEF UpgradeKnown, Upgrade!UpgradeAssumption, UpgradeInv, UpgradeTypes, Upgrade!Releases,
         Insts, FileSets, Dbs, Journals, Upgrade!UndoFails, Upgrade!DeployPrevious,
         Upgrade!opVars, Upgrade!diskVars, Upgrade!Goto, Upgrade!Exit, Upgrade!Fault

LEMMA ExecuteOps == ASSUME UpgradeKnown, NEW t \in Targets, Upgrade!Execute(t) PROVE OpsAreTrue'
<1>1. PICK o \in Ops : /\ op' = [op EXCEPT ![t] = o]
                       /\ o.status \in {"Queued", "Running", "Failed"}
                       /\ o.status = "Queued" => o.tries < MaxAttempts
  BY ExecuteWrites
<1>2. \A u \in Targets : op'[u] = IF u = t THEN o ELSE op[u]
  <2>1. op \in [Targets -> Ops]
    BY DEF UpgradeKnown, UpgradeInv, UpgradeTypes
  <2>2. op' = [op EXCEPT ![t] = o]
    BY <1>1
  <2> QED
    BY <2>1, <2>2
<1>3. \A u \in Targets : updater'[u] \in {"Starting", updater[u]}
  BY DEF UpgradeKnown, UpgradeInv, UpgradeTypes, Upgrade!Execute
<1>4. base' = base
  BY DEF Upgrade!Execute
<1> QED
  BY <1>1, <1>2, <1>3, <1>4 DEF UpgradeKnown, UpgradeInv, OpsAreTrue

LEMMA AgainFailsOps == ASSUME UpgradeKnown, Upgrade!AgainFails PROVE OpsAreTrue'
<1>1. op' = op /\ base' = base
  BY DEF Upgrade!AgainFails
<1>2. \A t \in Targets : updater'[t] \in {"Failed", updater[t]}
  BY DEF UpgradeKnown, UpgradeInv, UpgradeTypes, Upgrade!AgainFails, Upgrade!Exit
<1> QED
  BY <1>1, <1>2 DEF UpgradeKnown, UpgradeInv, OpsAreTrue

USE DEF UpgradeKnown, Upgrade!UpgradeAssumption, UpgradeInv, UpgradeTypes, OpsAreTrue,
    JournalIsKept, StepsFollow, DataIsKept, Upgrade!ServicesFitTheirData, Steps, UndoSteps,
    AgainSteps, Ops, Insts, Dbs, FileSets, Journals, Upgrade!Releases, Open, Fits, Upgrade!Runs,
    Upgrade!All, Upgrade!SettledPhases, Upgrade!Recoverable, Upgrade!Idle, Upgrade!Goto,
    Upgrade!Exit, Upgrade!Fault, Upgrade!opVars, Upgrade!diskVars

LEMMA RequestUpdateStep ==
    ASSUME UpgradeKnown, NEW t \in Targets, Upgrade!RequestUpdate(t)
    PROVE  UpgradeInv'
<1>1. UpgradeTypes'
  BY RequestUpdateTyped
<1>2. OpsAreTrue'
  BY SMTT(40) DEF Upgrade!RequestUpdate
<1>3. JournalIsKept'
  BY SMTT(40) DEF Upgrade!RequestUpdate
<1>4. StepsFollow'
  BY SMTT(40) DEF Upgrade!RequestUpdate
<1>5. DataIsKept'
  BY SMTT(40) DEF Upgrade!RequestUpdate
<1>6. Upgrade!ServicesFitTheirData'
  BY SMTT(40) DEF Upgrade!RequestUpdate
<1> QED
  BY <1>1, <1>2, <1>3, <1>4, <1>5, <1>6

LEMMA RetryStep == ASSUME UpgradeKnown, NEW t \in Targets, Upgrade!Retry(t) PROVE UpgradeInv'
BY SMTT(60) DEF Upgrade!Retry

LEMMA ExecuteStep == ASSUME UpgradeKnown, NEW t \in Targets, Upgrade!Execute(t) PROVE UpgradeInv'
<1>1. UpgradeTypes'
  BY ExecuteTyped
<1>2. OpsAreTrue'
  BY ExecuteOps
<1>3. JournalIsKept'
  BY SMTT(40) DEF Upgrade!Execute, Upgrade!Again, Upgrade!WithoutUpdater
<1>4. StepsFollow'
  BY SMTT(40) DEF Upgrade!Execute, Upgrade!Again, Upgrade!WithoutUpdater
<1>5. DataIsKept'
  BY SMTT(40) DEF Upgrade!Execute, Upgrade!Again, Upgrade!WithoutUpdater
<1>6. Upgrade!ServicesFitTheirData'
  BY SMTT(40) DEF Upgrade!Execute, Upgrade!Again, Upgrade!WithoutUpdater
<1> QED
  BY <1>1, <1>2, <1>3, <1>4, <1>5, <1>6

LEMMA WaitedStep == ASSUME UpgradeKnown, NEW t \in Targets, Upgrade!Waited(t) PROVE UpgradeInv'
BY SMTT(60) DEF Upgrade!Waited

LEMMA ReclaimStep == ASSUME UpgradeKnown, NEW t \in Targets, Upgrade!Reclaim(t) PROVE UpgradeInv'
BY SMTT(60) DEF Upgrade!Reclaim, Upgrade!Again

LEMMA WriteStep == ASSUME UpgradeKnown, Upgrade!Write PROVE UpgradeInv'
<1>1. UpgradeTypes'
  BY SMTT(40) DEF Upgrade!Write
<1>2. OpsAreTrue'
  BY SMTT(40) DEF Upgrade!Write
<1>3. JournalIsKept'
  BY SMTT(40) DEF Upgrade!Write
<1>4. StepsFollow'
  BY SMTT(40) DEF Upgrade!Write
<1>5. DataIsKept'
  BY SMTT(40) DEF Upgrade!Write
<1>6. Upgrade!ServicesFitTheirData'
  BY SMTT(40) DEF Upgrade!Write
<1> QED
  BY <1>1, <1>2, <1>3, <1>4, <1>5, <1>6

LEMMA LaunchStep == ASSUME UpgradeKnown, NEW t \in Targets, Upgrade!Launch(t) PROVE UpgradeInv'
BY SMTT(60) DEF Upgrade!Launch

LEMMA LaunchFailsStep ==
    ASSUME UpgradeKnown, NEW t \in Targets, Upgrade!LaunchFails(t)
    PROVE  UpgradeInv'
BY SMTT(60) DEF Upgrade!LaunchFails

LEMMA CrashStep == ASSUME UpgradeKnown, Upgrade!Crash PROVE UpgradeInv'
<1>1. UpgradeTypes'
  BY CrashTyped
<1>2. OpsAreTrue'
  BY SMTT(40) DEF Upgrade!Crash
<1>3. JournalIsKept'
  BY SMTT(40) DEF Upgrade!Crash
<1>4. StepsFollow'
  BY SMTT(40) DEF Upgrade!Crash
<1>5. DataIsKept'
  BY SMTT(40) DEF Upgrade!Crash
<1>6. Upgrade!ServicesFitTheirData'
  BY SMTT(40) DEF Upgrade!Crash
<1> QED
  BY <1>1, <1>2, <1>3, <1>4, <1>5, <1>6

LEMMA SupervisorDiesStep ==
    ASSUME UpgradeKnown, NEW t \in Targets, Upgrade!SupervisorDies(t)
    PROVE  UpgradeInv'
BY SMTT(60) DEF Upgrade!SupervisorDies

LEMMA PrepareStep == ASSUME UpgradeKnown, Upgrade!Prepare PROVE UpgradeInv'
<1>1. UpgradeTypes'
  BY PrepareTyped
<1>2. OpsAreTrue'
  BY SMTT(40) DEF Upgrade!Prepare, Upgrade!Opened
<1>3. JournalIsKept'
  BY SMTT(40) DEF Upgrade!Prepare, Upgrade!Opened
<1>4. StepsFollow'
  BY SMTT(40) DEF Upgrade!Prepare, Upgrade!Opened
<1>5. DataIsKept'
  BY SMTT(40) DEF Upgrade!Prepare, Upgrade!Opened
<1>6. Upgrade!ServicesFitTheirData'
  BY SMTT(40) DEF Upgrade!Prepare, Upgrade!Opened
<1> QED
  BY <1>1, <1>2, <1>3, <1>4, <1>5, <1>6

LEMMA AgainDeployStep == ASSUME UpgradeKnown, Upgrade!AgainDeploy PROVE UpgradeInv'
BY SMTT(60) DEF Upgrade!AgainDeploy, Upgrade!DeployPrevious

LEMMA AgainFilesStep == ASSUME UpgradeKnown, Upgrade!AgainFiles PROVE UpgradeInv'
BY SMTT(60) DEF Upgrade!AgainFiles

LEMMA AgainFailsStep == ASSUME UpgradeKnown, Upgrade!AgainFails PROVE UpgradeInv'
<1>1. UpgradeTypes'
  BY AgainFailsTyped
<1>2. OpsAreTrue'
  BY AgainFailsOps
<1>3. JournalIsKept'
  BY SMTT(40) DEF Upgrade!AgainFails, Upgrade!DeployPrevious
<1>4. StepsFollow'
  BY SMTT(40) DEF Upgrade!AgainFails, Upgrade!DeployPrevious
<1>5. DataIsKept'
  BY SMTT(40) DEF Upgrade!AgainFails, Upgrade!DeployPrevious
<1>6. Upgrade!ServicesFitTheirData'
  BY SMTT(40) DEF Upgrade!AgainFails, Upgrade!DeployPrevious
<1> QED
  BY <1>1, <1>2, <1>3, <1>4, <1>5, <1>6

LEMMA QuiesceApiStep == ASSUME UpgradeKnown, Upgrade!QuiesceApi PROVE UpgradeInv'
BY SMTT(60) DEF Upgrade!QuiesceApi

LEMMA QuiesceZitadelStep == ASSUME UpgradeKnown, Upgrade!QuiesceZitadel PROVE UpgradeInv'
BY SMTT(60) DEF Upgrade!QuiesceZitadel, Upgrade!AfterQuiesce

LEMMA SnapshotStep == ASSUME UpgradeKnown, Upgrade!Snapshot PROVE UpgradeInv'
BY SMTT(60) DEF Upgrade!Snapshot

LEMMA PostgresStep == ASSUME UpgradeKnown, Upgrade!Postgres PROVE UpgradeInv'
<1>1. UpgradeTypes'
  BY PostgresTyped
<1>2. OpsAreTrue'
  BY SMTT(40) DEF Upgrade!Postgres
<1>3. JournalIsKept'
  BY SMTT(40) DEF Upgrade!Postgres
<1>4. StepsFollow'
  BY SMTT(40) DEF Upgrade!Postgres
<1>5. DataIsKept'
  BY SMTT(40) DEF Upgrade!Postgres
<1>6. Upgrade!ServicesFitTheirData'
  BY SMTT(40) DEF Upgrade!Postgres
<1> QED
  BY <1>1, <1>2, <1>3, <1>4, <1>5, <1>6

LEMMA ZitadelStep == ASSUME UpgradeKnown, Upgrade!Zitadel PROVE UpgradeInv'
<1>1. UpgradeTypes'
  BY ZitadelTyped
<1>2. OpsAreTrue'
  BY SMTT(40) DEF Upgrade!Zitadel
<1>3. JournalIsKept'
  BY SMTT(40) DEF Upgrade!Zitadel
<1>4. StepsFollow'
  BY SMTT(40) DEF Upgrade!Zitadel
<1>5. DataIsKept'
  BY SMTT(40) DEF Upgrade!Zitadel
<1>6. Upgrade!ServicesFitTheirData'
  BY SMTT(40) DEF Upgrade!Zitadel
<1> QED
  BY <1>1, <1>2, <1>3, <1>4, <1>5, <1>6

LEMMA UpgradeMigrateStep == ASSUME UpgradeKnown, Upgrade!Migrate PROVE UpgradeInv'
BY SMTT(60) DEF Upgrade!Migrate

LEMMA DeployStep == ASSUME UpgradeKnown, Upgrade!Deploy PROVE UpgradeInv'
BY SMTT(60) DEF Upgrade!Deploy

LEMMA UpgradePersistStep == ASSUME UpgradeKnown, Upgrade!Persist PROVE UpgradeInv'
BY SMTT(60) DEF Upgrade!Persist

LEMMA CompleteStep == ASSUME UpgradeKnown, Upgrade!Complete PROVE UpgradeInv'
BY SMTT(60) DEF Upgrade!Complete

LEMMA StepFailsStep == ASSUME UpgradeKnown, Upgrade!StepFails PROVE UpgradeInv'
BY SMTT(60) DEF Upgrade!StepFails, Upgrade!UndoFrom

LEMMA RestoreStep == ASSUME UpgradeKnown, Upgrade!Restore PROVE UpgradeInv'
BY SMTT(60) DEF Upgrade!Restore, Upgrade!Marked

LEMMA UndoDeployStep == ASSUME UpgradeKnown, Upgrade!UndoDeploy PROVE UpgradeInv'
BY SMTT(60) DEF Upgrade!UndoDeploy, Upgrade!DeployPrevious

LEMMA UndoFilesStep == ASSUME UpgradeKnown, Upgrade!UndoFiles PROVE UpgradeInv'
BY SMTT(60) DEF Upgrade!UndoFiles

LEMMA UndoFailsStep == ASSUME UpgradeKnown, Upgrade!UndoFails PROVE UpgradeInv'
<1>1. UpgradeTypes'
  BY UndoFailsTyped
<1>2. OpsAreTrue'
  BY SMTT(40) DEF Upgrade!UndoFails, Upgrade!DeployPrevious
<1>3. JournalIsKept'
  BY SMTT(40) DEF Upgrade!UndoFails, Upgrade!DeployPrevious
<1>4. StepsFollow'
  BY SMTT(40) DEF Upgrade!UndoFails, Upgrade!DeployPrevious
<1>5. DataIsKept'
  BY SMTT(40) DEF Upgrade!UndoFails, Upgrade!DeployPrevious
<1>6. Upgrade!ServicesFitTheirData'
  BY SMTT(40) DEF Upgrade!UndoFails, Upgrade!DeployPrevious
<1> QED
  BY <1>1, <1>2, <1>3, <1>4, <1>5, <1>6

LEMMA UpgradeStutters == ASSUME UpgradeKnown, UNCHANGED Upgrade!vars PROVE UpgradeInv'
BY DEF Upgrade!vars

LEMMA UpgradeInit == ASSUME Upgrade!UpgradeAssumption, Upgrade!Init PROVE UpgradeInv
BY DEF Upgrade!Init

HIDE DEF UpgradeKnown, Upgrade!UpgradeAssumption, UpgradeInv, UpgradeTypes, OpsAreTrue,
    JournalIsKept, StepsFollow, DataIsKept, Upgrade!ServicesFitTheirData, Steps, UndoSteps,
    AgainSteps, Ops, Insts, Dbs, FileSets, Journals, Upgrade!Releases, Open, Fits, Upgrade!Runs,
    Upgrade!All, Upgrade!SettledPhases, Upgrade!Recoverable, Upgrade!Idle, Upgrade!Goto,
    Upgrade!Exit, Upgrade!Fault, Upgrade!opVars, Upgrade!diskVars

LEMMA UpgradeSafe ==
    ASSUME UpgradeInv
    PROVE  /\ Upgrade!ServicesFitTheirData /\ Upgrade!RowsAreKept
           /\ Upgrade!JournalIsTrue /\ Upgrade!SucceededIsCompleted
<1>1. Upgrade!ServicesFitTheirData /\ Upgrade!RowsAreKept
  BY DEF UpgradeInv, DataIsKept, Upgrade!RowsAreKept
<1>2. Upgrade!JournalIsTrue
  BY DEF UpgradeInv, JournalIsKept, Upgrade!JournalIsTrue, Open, Upgrade!SettledPhases,
         UpgradeTypes, Journals
<1>3. Upgrade!SucceededIsCompleted
  BY DEF UpgradeInv, OpsAreTrue, Upgrade!SucceededIsCompleted
<1> QED
  BY <1>1, <1>2, <1>3

LEMMA UpgradeTyped == ASSUME UpgradeInv, Upgrade!UpgradeAssumption PROVE Upgrade!TypeOK
BY DEF UpgradeInv, UpgradeTypes, Upgrade!TypeOK, Ops, Insts, Dbs, Upgrade!Releases,
       Upgrade!UpgradeAssumption

LEMMA UpgradeMoves == ASSUME UpgradeKnown, Upgrade!Next PROVE UpgradeInv'
BY RequestUpdateStep, RetryStep, ExecuteStep, WaitedStep, ReclaimStep, WriteStep, LaunchStep,
    LaunchFailsStep, CrashStep, SupervisorDiesStep, PrepareStep, AgainDeployStep,
    AgainFilesStep, AgainFailsStep, QuiesceApiStep, QuiesceZitadelStep, SnapshotStep,
    PostgresStep, ZitadelStep, UpgradeMigrateStep, DeployStep, UpgradePersistStep, CompleteStep,
    StepFailsStep, RestoreStep, UndoDeployStep, UndoFilesStep, UndoFailsStep
   DEF Upgrade!Next, Upgrade!Worker, Upgrade!Installer

-----------------------------------------------------------------------------
(* The platform: in a behaviour one of its components moves. *)

LEMMA InstallRuns == ASSUME InstallInv, SystemNext PROVE InstallInv'
<1>1. InstallKnown
  BY InstallConstants DEF InstallKnown
<1>2. CASE focus = "Install"
  <2>1. Install!Next
    BY <1>2 DEF SystemNext
  <2> QED
    BY <1>1, <2>1, InstallMoves
<1>3. CASE focus # "Install"
  <2>1. UNCHANGED installVars
    BY <1>3 DEF SystemNext
  <2>2. UNCHANGED Install!vars
    BY <2>1 DEF installVars, Install!vars, Install!state, Install!cluster, Install!storage,
           Install!resetting, Install!bounds
  <2> QED
    BY <1>1, <2>2, InstallStutters
<1> QED
  BY <1>2, <1>3

LEMMA UpgradeRuns == ASSUME UpgradeInv, SystemNext PROVE UpgradeInv'
<1>1. UpgradeKnown
  BY UpgradeConstants DEF UpgradeKnown
<1>2. CASE focus = "Upgrade"
  <2>1. Upgrade!Next
    BY <1>2 DEF SystemNext
  <2> QED
    BY <1>1, <2>1, UpgradeMoves
<1>3. CASE focus # "Upgrade"
  <2>1. UNCHANGED upgradeVars
    BY <1>3 DEF SystemNext
  <2>2. UNCHANGED Upgrade!vars
    BY <2>1 DEF upgradeVars, Upgrade!vars
  <2> QED
    BY <1>1, <2>2, UpgradeStutters
<1> QED
  BY <1>2, <1>3

\* The control plane has the secrets of its databases wherever an install was killed, a reported
\* install is deployed, a reset destroys what was approved and nothing else, no service runs on
\* databases of a release it was not made for, no row of the installed release is lost, and the
\* journal tells which release that is (lifecycle.sh, reset.sh, upgrade.sh,
\* PlatformReleaseUpdateOperationExecutor).
THEOREM ReleasesAreSafe == SystemSpec => []ReleaseSafety
<1>1. SystemInit => InstallInv /\ UpgradeInv
  BY InstallInit, UpgradeInit, InstallConstants, UpgradeConstants DEF SystemInit
<1>2. InstallInv /\ UpgradeInv /\ [SystemNext]_systemVars => (InstallInv /\ UpgradeInv)'
  <2> SUFFICES ASSUME InstallInv, UpgradeInv, [SystemNext]_systemVars
               PROVE  (InstallInv /\ UpgradeInv)'
    OBVIOUS
  <2>1. CASE SystemNext
    BY <2>1, InstallRuns, UpgradeRuns
  <2>2. CASE UNCHANGED systemVars
    <3>1. UNCHANGED Install!vars
      BY <2>2 DEF systemVars, installVars, Install!vars, Install!state, Install!cluster,
             Install!storage, Install!resetting, Install!bounds
    <3>2. UNCHANGED Upgrade!vars
      BY <2>2 DEF systemVars, upgradeVars, Upgrade!vars
    <3> QED
      BY <3>1, <3>2, InstallStutters, UpgradeStutters, InstallConstants, UpgradeConstants
         DEF InstallKnown, UpgradeKnown
  <2> QED
    BY <2>1, <2>2
<1>3. InstallInv /\ UpgradeInv => ReleaseSafety
  BY InstallTyped, InstallSafe, UpgradeTyped, UpgradeSafe, InstallConstants, UpgradeConstants
     DEF ReleaseSafety
<1> QED
  BY <1>1, <1>2, <1>3, PTL DEF SystemSpec
=============================================================================
