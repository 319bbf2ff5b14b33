----------------------------- MODULE ChangeLedger -----------------------------
(****************************************************************************)
(* What the tickets of a world promise of the changes that authors draft:   *)
(* a change goes once from draft to review, in one packet with others, and  *)
(* from there, with all of its packet, into the canon of the world or out   *)
(* of it for ever.  Tickets, keys, reviews and who decides do not matter.   *)
(****************************************************************************)
CONSTANT Changes

VARIABLES
  fresh,                \* changes that no packet has had
  review,               \* the packets in review, each the set of its changes
  canon                 \* the changes that the world has

ledger == <<fresh, review, canon>>

Partition(packets, changes) ==
  /\ UNION packets = changes /\ {} \notin packets
  /\ \A p, q \in packets : p # q => p \cap q = {}

Init == fresh = Changes /\ review = {} /\ canon = {}

Propose(packet) ==
  /\ packet # {} /\ packet \subseteq fresh
  /\ review' = review \cup {packet} /\ fresh' = fresh \ packet
  /\ UNCHANGED canon

\* A new version keeps some of the changes, and adds fresh ones.
Revise(packet, version) ==
  /\ packet \in review /\ version # {} /\ version \subseteq packet \cup fresh
  /\ review' = (review \ {packet}) \cup {version} /\ fresh' = fresh \ version
  /\ UNCHANGED canon

\* Splits and merges.
Regroup(packets, groups) ==
  /\ packets \subseteq review /\ Partition(groups, UNION packets)
  /\ review' = (review \ packets) \cup groups
  /\ UNCHANGED <<fresh, canon>>

Accept(packet) ==
  /\ packet \in review
  /\ review' = review \ {packet} /\ canon' = canon \cup packet
  /\ UNCHANGED fresh

Withdraw(packet) ==
  /\ packet \in review
  /\ review' = review \ {packet}
  /\ UNCHANGED <<fresh, canon>>

Next ==
  \/ \E packet \in SUBSET Changes : Propose(packet)
  \/ \E packet \in review, version \in SUBSET Changes : Revise(packet, version)
  \/ \E packets \in SUBSET review, groups \in SUBSET SUBSET Changes : Regroup(packets, groups)
  \/ \E packet \in review : Accept(packet) \/ Withdraw(packet)

Spec == Init /\ [][Next]_ledger
==============================================================================
