-------------------------- MODULE ProvisioningProofs --------------------------
(***************************************************************************)
(* Proofs about Provisioning, for any texts, requests and connections.     *)
(*                                                                         *)
(* Where traffic goes: a list of rules decides like its first part, with   *)
(* what its second part decides as the default (VerdictThrough); so the    *)
(* rules of a request can be followed one part at a time, and neither the  *)
(* combination of the exits of a session nor the choice of another exit at *)
(* a restart changes them (RoutingInv).                                    *)
(*                                                                         *)
(* What a server asked for: each parser keeps it in the node it makes      *)
(* (ParserKeeps), and each generator tells it to the engine that runs      *)
(* (ExitInv).                                                              *)
(*                                                                         *)
(* What the helper accepts: a configuration is known by the fields it has  *)
(* (IsMerge, IsPart); taking a session apart gives back the configuration  *)
(* each exit was made with (SplitUndoesCombine), and each of those passes  *)
(* every check (ExitPasses, SplitPasses).                                  *)
(***************************************************************************)
EXTENDS Provisioning, FiniteSetTheorems, NaturalsInduction, SequenceTheorems, TLAPS

-----------------------------------------------------------------------------
(* The fields of a function made of one or of two others *)

LEMMA One ==
  \A k, v : (\A x : x \in DOMAIN Single(k, v) <=> x = k) /\ Single(k, v)[k] = v
  BY DEF Single

LEMMA Both ==
  \A f, g :
    /\ \A x : x \in DOMAIN Merged(f, g) <=> x \in DOMAIN f \/ x \in DOMAIN g
    /\ \A k \in DOMAIN f : Merged(f, g)[k] = f[k]
    /\ \A k \in DOMAIN g : k \notin DOMAIN f => Merged(f, g)[k] = g[k]
  BY DEF Merged

-----------------------------------------------------------------------------
(* Numbers and lists *)

\* What holds of 0, and of n + 1 when it holds of n, holds of every number.
LEMMA Induction ==
  ASSUME NEW T, 0 \in T, \A n \in Nat : n \in T => n + 1 \in T
  PROVE  \A n \in Nat : n \in T
<1> DEFINE Out == Nat \ T
<1> SUFFICES ASSUME Out # {} PROVE FALSE
  OBVIOUS
<1>1. IsWellFoundedOn(OpToRel(<, Nat), Nat)
  BY NatLessThanWellFounded
<1>2. PICK x \in Out : \A y \in Out : ~(<<y, x>> \in OpToRel(<, Nat))
  BY <1>1, WFMin
<1>3. \A y \in Nat : y < x => <<y, x>> \in OpToRel(<, Nat)
  BY DEF OpToRel
<1>4. x \in Nat /\ x # 0 /\ x - 1 \in Nat /\ x - 1 < x /\ (x - 1) + 1 = x
  OBVIOUS
<1>5. x - 1 \in T
  BY <1>2, <1>3, <1>4
<1> QED
  BY <1>4, <1>5

\* A set of numbers that is not empty has a least one.
LEMMA Least ==
  ASSUME NEW S \in SUBSET Nat, S # {}
  PROVE  /\ Min(S) \in S /\ \A j \in S : Min(S) <= j
         /\ \A m \in S : (\A j \in S : m <= j) => Min(S) = m
<1>1. \E x \in S : \A y \in S : x <= y
  <2>1. IsWellFoundedOn(OpToRel(<, Nat), Nat)
    BY NatLessThanWellFounded
  <2>2. PICK x \in S : \A y \in S : ~(<<y, x>> \in OpToRel(<, Nat))
    BY <2>1, WFMin
  <2>3. \A y \in Nat : y < x => <<y, x>> \in OpToRel(<, Nat)
    BY DEF OpToRel
  <2>4. \A y \in S : ~(y < x) /\ x \in Nat /\ y \in Nat
    BY <2>2, <2>3
  <2> QED
    BY <2>4
<1>2. Min(S) \in S /\ \A y \in S : Min(S) <= y
  BY <1>1 DEF Min
<1>3. ASSUME NEW m \in S, \A j \in S : m <= j PROVE Min(S) = m
  <2>1. Min(S) <= m /\ m <= Min(S) /\ Min(S) \in Nat /\ m \in Nat
    BY <1>2, <1>3
  <2> QED
    BY <2>1
<1> QED
  BY <1>2, <1>3

IsOrder(order, places) ==
    /\ order \in [1..Cardinality(places) -> places]
    /\ \A p \in places : \E k \in 1..Cardinality(places) : order[k] = p
    /\ \A j, k \in 1..Cardinality(places) : j < k => order[j] < order[k]

LEMMA Ordered ==
  ASSUME NEW n \in Nat, NEW places \in SUBSET (1..n)
  PROVE  Cardinality(places) \in Nat /\ IsOrder(InOrder(places), places)
<1> DEFINE T == {m \in Nat : \A S \in SUBSET (1..m) :
                    Cardinality(S) \in Nat /\ \E order : IsOrder(order, S)}
<1>1. 0 \in T
  <2> SUFFICES ASSUME NEW S \in SUBSET (1..0)
               PROVE  Cardinality(S) \in Nat /\ \E order : IsOrder(order, S)
    OBVIOUS
  <2>1. S = {} /\ Cardinality(S) = 0
    <3>1. S = {}
      OBVIOUS
    <3> QED
      BY <3>1, FS_EmptySet
  <2>2. PICK none : none = [k \in 1..0 |-> 0]
    OBVIOUS
  <2>3. IsOrder(none, S)
    BY <2>1, <2>2 DEF IsOrder
  <2> QED
    BY <2>1, <2>3
<1>2. ASSUME NEW m \in Nat, m \in T PROVE m + 1 \in T
  <2> SUFFICES ASSUME NEW S \in SUBSET (1..(m + 1))
               PROVE  Cardinality(S) \in Nat /\ \E order : IsOrder(order, S)
    OBVIOUS
  <2>1. CASE m + 1 \notin S
    <3>1. S \in SUBSET (1..m)
      BY <2>1
    <3> QED
      BY <1>2, <3>1
  <2>2. CASE m + 1 \in S
    <3> DEFINE R == S \ {m + 1}
    <3>1. R \in SUBSET (1..m)
      OBVIOUS
    <3>2. PICK old : IsOrder(old, R)
      BY <1>2, <3>1
    <3>3. Cardinality(R) \in Nat
      BY <1>2, <3>1
    <3>4. IsFiniteSet(R)
      <4>1. IsFiniteSet(1..m)
        BY FS_Interval
      <4> QED
        BY <3>1, <4>1, FS_Subset
    <3>5. Cardinality(S) = Cardinality(R) + 1
      <4>1. S = R \cup {m + 1} /\ m + 1 \notin R
        BY <2>2
      <4> QED
        BY <3>4, <4>1, FS_AddElement
    <3> DEFINE c == Cardinality(R)
    <3>6. PICK order : order = [k \in 1..(c + 1) |-> IF k = c + 1 THEN m + 1 ELSE old[k]]
      OBVIOUS
    <3> HIDE DEF c
    <3>7. /\ c \in Nat /\ Cardinality(S) = c + 1 /\ old \in [1..c -> R]
          /\ \A p \in R : \E k \in 1..c : old[k] = p
          /\ \A j, k \in 1..c : j < k => old[j] < old[k]
      BY <3>2, <3>3, <3>5 DEF c, IsOrder
    <3>8. order \in [1..(c + 1) -> S]
      BY <2>2, <3>6, <3>7
    <3>9. \A p \in S : \E i \in 1..(c + 1) : order[i] = p
      BY <2>2, <3>6, <3>7
    <3>10. ASSUME NEW j \in 1..(c + 1), NEW k \in 1..(c + 1), j < k PROVE order[j] < order[k]
      <4>1. j \in 1..c /\ order[j] = old[j] /\ old[j] \in R
        BY <3>6, <3>7, <3>10
      <4>2. CASE k = c + 1
        <5>1. order[k] = m + 1 /\ old[j] \in 1..m
          BY <3>6, <4>1, <4>2, <3>1
        <5> QED
          BY <4>1, <5>1
      <4>3. CASE k \in 1..c
        <5>1. order[k] = old[k]
          BY <3>6, <3>7, <4>3
        <5>2. old[j] < old[k]
          BY <3>7, <3>10, <4>1, <4>3
        <5> QED
          BY <4>1, <5>1, <5>2
      <4> QED
        BY <3>7, <4>2, <4>3
    <3>11. IsOrder(order, S)
      <4> HIDE DEF R
      <4> QED
        BY <3>7, <3>8, <3>9, <3>10 DEF IsOrder
    <3> QED
      BY <3>7, <3>11
  <2> QED
    BY <2>1, <2>2
<1>3. n \in T
  <2> HIDE DEF T
  <2> QED
    BY <1>1, <1>2, Induction
<1>4. Cardinality(places) \in Nat /\ \E order : IsOrder(order, places)
  BY <1>3
<1>5. \E order \in [1..Cardinality(places) -> places] :
        Range(order) = places /\ \A j, k \in DOMAIN order : j < k => order[j] < order[k]
  <2>1. PICK order : IsOrder(order, places)
    BY <1>4
  <2>2. order \in [1..Cardinality(places) -> places] /\ DOMAIN order = 1..Cardinality(places)
    BY <2>1 DEF IsOrder
  <2>3. Range(order) = places
    BY <2>1, <2>2 DEF IsOrder, Range
  <2> QED
    BY <2>1, <2>2, <2>3 DEF IsOrder
<1>6. /\ InOrder(places) \in [1..Cardinality(places) -> places]
      /\ Range(InOrder(places)) = places
      /\ \A j, k \in DOMAIN InOrder(places) : j < k => InOrder(places)[j] < InOrder(places)[k]
  BY <1>5 DEF InOrder
<1> QED
  BY <1>4, <1>6 DEF IsOrder, Range

\* What is picked of a list is in the list, at the places it was picked from.
LEMMA PickedFacts ==
  ASSUME NEW X, NEW list \in Seq(X), NEW places \in SUBSET (DOMAIN list)
  PROVE  /\ Picked(list, places) \in Seq(X)
         /\ Len(Picked(list, places)) = Cardinality(places)
         /\ Cardinality(places) \in Nat
         /\ IsOrder(InOrder(places), places)
         /\ \A k \in 1..Cardinality(places) : /\ InOrder(places)[k] \in places
                                              /\ Picked(list, places)[k] = list[InOrder(places)[k]]
<1>1. places \in SUBSET (1..Len(list)) /\ Len(list) \in Nat
  OBVIOUS
<1>2. Cardinality(places) \in Nat /\ IsOrder(InOrder(places), places)
  BY <1>1, Ordered
<1>3. \A k \in 1..Cardinality(places) : InOrder(places)[k] \in places
  BY <1>2 DEF IsOrder
<1>4. \A k \in 1..Cardinality(places) : list[InOrder(places)[k]] \in X
  BY <1>1, <1>3
<1>5. \A k \in 1..Cardinality(places) : Picked(list, places)[k] = list[InOrder(places)[k]]
  BY DEF Picked
<1>6. Picked(list, places) \in Seq(X) /\ Len(Picked(list, places)) = Cardinality(places)
  BY <1>2, <1>4 DEF Picked
<1> QED
  BY <1>2, <1>3, <1>5, <1>6

-----------------------------------------------------------------------------
(* What each rule matches and does *)

LEMMA MatchHealth == ASSUME NEW c PROVE RuleMatches(HealthRule, c) <=> c.inbound = "health-in"
  BY One, Both DEF :>, @@, RuleMatches, HealthRule, OnInbound, RouteTo, Range
LEMMA MatchCandidate == ASSUME NEW c PROVE RuleMatches(CandidateRule, c) <=> c.inbound = "candidate-in"
  BY One, Both DEF :>, @@, RuleMatches, CandidateRule, OnInbound, RouteTo, Range
LEMMA MatchHijack == ASSUME NEW c PROVE RuleMatches(TunDnsHijackRule, c) <=> c.inbound = "tun-in" /\ c.network \in {"tcp", "udp"} /\ c.port = 53
  BY One, Both DEF :>, @@, RuleMatches, TunDnsHijackRule, OnInbound, RouteTo, Range
LEMMA MatchOwn == ASSUME NEW c, NEW p PROVE RuleMatches(OwnPrefixGuard(p), c) <=> c.inbound = "tun-in" /\ c.own
  BY One, Both DEF :>, @@, RuleMatches, OwnPrefixGuard, OnInbound, Reject, Range
LEMMA MatchIpv6 == ASSUME NEW c PROVE RuleMatches(Ipv6Guard, c) <=> c.ipv6
  BY One, Both DEF :>, @@, RuleMatches, Ipv6Guard, OnInbound, Reject, Range
LEMMA MatchLan == ASSUME NEW c PROVE RuleMatches(LanRule, c) <=> c.private
  BY One, Both DEF :>, @@, RuleMatches, LanRule, OnInbound, RouteTo, Range
LEMMA MatchTraffic == ASSUME NEW c, NEW t PROVE RuleMatches(TrafficRule(t), c) <=> c.inbound = "tun-in" /\ c.network = t.network /\ c.port = t.port
  BY One, Both DEF :>, @@, RuleMatches, TrafficRule, OnInbound, RouteTo, Reject, Range
LEMMA MatchApp == ASSUME NEW c, NEW a PROVE RuleMatches(AppRule(a), c) <=> IF a.by = "path" THEN c.path = a.path ELSE c.name = a.name
  BY One, Both DEF :>, @@, RuleMatches, AppRule, OnInbound, RouteTo, Reject, Range
LEMMA Effects ==
  /\ Effect(HealthRule) = "selected" /\ Effect(CandidateRule) = "candidate" /\ Effect(TunDnsHijackRule) = "hijack-dns"
  /\ \A p : Effect(OwnPrefixGuard(p)) = "reject" /\ Effect(Ipv6Guard) = "reject" /\ Effect(LanRule) = "direct"
  /\ \A t : Effect(TrafficRule(t)) = IF t.action = "block" THEN "reject" ELSE OutboundOf(t.action)
  /\ \A a : Effect(AppRule(a)) = OutboundOf(a.action)
  BY One, Both DEF :>, @@, Effect, HealthRule, CandidateRule, TunDnsHijackRule, OwnPrefixGuard, Ipv6Guard, LanRule, TrafficRule, AppRule, OnInbound, RouteTo, Reject

-----------------------------------------------------------------------------
(* A list of rules *)

Matching(rules, c) == {i \in DOMAIN rules : RuleMatches(rules[i], c)}

LEMMA VerdictIs ==
  ASSUME NEW rules, NEW default, NEW c
  PROVE  /\ Matching(rules, c) = {} => Verdict(rules, default, c) = default
         /\ Matching(rules, c) # {} =>
                Verdict(rules, default, c) = Effect(rules[Min(Matching(rules, c))])
  BY DEF Verdict, Matching

\* Of two lists the second is asked only when nothing in the first matches.
LEMMA VerdictThrough ==
  ASSUME NEW R, NEW s \in Seq(R), NEW t \in Seq(R), NEW default, NEW c
  PROVE  Verdict(s \o t, default, c) = Verdict(s, Verdict(t, default, c), c)
<1> DEFINE S == Matching(s, c)
           T == Matching(t, c)
           B == Matching(s \o t, c)
           Shift == {Len(s) + i : i \in T}
<1>1. PICK both : both = s \o t
  OBVIOUS
<1>2. /\ both \in Seq(R) /\ Len(both) = Len(s) + Len(t) /\ Len(s) \in Nat /\ Len(t) \in Nat
      /\ DOMAIN both = 1..Len(both) /\ DOMAIN s = 1..Len(s) /\ DOMAIN t = 1..Len(t)
      /\ \A i \in 1..Len(s) : both[i] = s[i]
      /\ \A i \in 1..Len(t) : both[Len(s) + i] = t[i]
  <2>1. /\ both \in Seq(R) /\ Len(both) = Len(s) + Len(t)
        /\ \A i \in 1..(Len(s) + Len(t)) : both[i] = IF i <= Len(s) THEN s[i] ELSE t[i - Len(s)]
    <3>1. /\ s \o t \in Seq(R) /\ Len(s \o t) = Len(s) + Len(t)
          /\ \A i \in 1..(Len(s) + Len(t)) : (s \o t)[i] = IF i <= Len(s) THEN s[i] ELSE t[i - Len(s)]
      BY ConcatProperties
    <3> QED
      BY <1>1, <3>1, Zenon
  <2>2. /\ Len(s) \in Nat /\ Len(t) \in Nat /\ DOMAIN both = 1..Len(both)
        /\ DOMAIN s = 1..Len(s) /\ DOMAIN t = 1..Len(t)
    BY <2>1
  <2>3. \A i \in 1..Len(s) : both[i] = s[i]
    BY <2>1, <2>2
  <2>4. ASSUME NEW i \in 1..Len(t) PROVE both[Len(s) + i] = t[i]
    <3>1. /\ Len(s) + i \in 1..(Len(s) + Len(t)) /\ ~(Len(s) + i <= Len(s))
          /\ (Len(s) + i) - Len(s) = i
      BY <2>2
    <3> QED
      BY <2>1, <3>1
  <2> QED
    BY <2>1, <2>2, <2>3, <2>4
<1>3. S \in SUBSET (1..Len(s)) /\ T \in SUBSET (1..Len(t)) /\ B \in SUBSET (1..Len(both))
  BY <1>1, <1>2 DEF Matching
<1>4. \A i \in 1..Len(s) : i \in B <=> i \in S
  BY <1>1, <1>2 DEF Matching
<1>5. \A i \in 1..Len(t) : Len(s) + i \in B <=> i \in T
  BY <1>1, <1>2 DEF Matching
<1> HIDE DEF S, T, B
<1>6. CASE S # {}
  <2>1. Min(S) \in S /\ \A j \in S : Min(S) <= j
    BY <1>3, <1>6, Least
  <2>2. Min(S) \in B /\ \A j \in B : Min(S) <= j
    <3>1. Min(S) \in 1..Len(s)
      BY <1>3, <2>1
    <3>2. ASSUME NEW j \in B PROVE Min(S) <= j
      <4>1. CASE j \in 1..Len(s)
        BY <1>4, <2>1, <4>1
      <4>2. CASE j \notin 1..Len(s)
        <5>1. j \in 1..Len(both)
          BY <1>3, <3>2
        <5> QED
          BY <1>2, <3>1, <4>2, <5>1
      <4> QED
        BY <4>1, <4>2
    <3> QED
      BY <1>4, <2>1, <3>1, <3>2
  <2>3. Min(B) = Min(S) /\ B # {}
    <3>1. B \in SUBSET Nat /\ B # {}
      BY <1>3, <2>2
    <3> QED
      BY <2>2, <3>1, Least
  <2>4. both[Min(B)] = s[Min(S)]
    BY <1>2, <1>3, <2>1, <2>3
  <2>5. Verdict(both, default, c) = Effect(both[Min(B)])
    BY <1>1, <2>3, VerdictIs DEF B
  <2>6. Verdict(s, Verdict(t, default, c), c) = Effect(s[Min(S)])
    BY <1>6, VerdictIs DEF S
  <2> QED
    BY <1>1, <2>4, <2>5, <2>6, Zenon
<1>7. CASE S = {} /\ T # {}
  <2>1. Min(T) \in T /\ \A j \in T : Min(T) <= j
    BY <1>3, <1>7, Least
  <2>2. Len(s) + Min(T) \in B
    BY <1>3, <1>5, <2>1
  <2>3. \A j \in B : j - Len(s) \in T /\ j \in Nat
    <3> SUFFICES ASSUME NEW j \in B PROVE j - Len(s) \in T /\ j \in Nat
      OBVIOUS
    <3>1. j \in 1..Len(both) /\ j \notin 1..Len(s)
      BY <1>3, <1>4, <1>7
    <3>2. j - Len(s) \in 1..Len(t) /\ Len(s) + (j - Len(s)) = j
      BY <1>2, <3>1
    <3> QED
      BY <1>5, <3>1, <3>2
  <2>4. \A j \in B : Len(s) + Min(T) <= j
    <3> SUFFICES ASSUME NEW j \in B PROVE Len(s) + Min(T) <= j
      OBVIOUS
    <3>1. Min(T) <= j - Len(s) /\ j \in Nat
      BY <2>1, <2>3
    <3>2. Min(T) \in Nat
      <4>1. Min(T) \in 1..Len(t)
        BY <1>3, <2>1
      <4> QED
        BY <1>2, <4>1
    <3> QED
      BY <1>2, <3>1, <3>2
  <2>5. Min(B) = Len(s) + Min(T) /\ B # {}
    <3>1. B \in SUBSET Nat /\ B # {}
      BY <1>3, <2>2
    <3> QED
      BY <2>2, <2>4, <3>1, Least
  <2>6. both[Min(B)] = t[Min(T)]
    BY <1>2, <1>3, <2>1, <2>5
  <2>7. Verdict(both, default, c) = Effect(both[Min(B)])
    BY <1>1, <2>5, VerdictIs DEF B
  <2>8. Verdict(s, Verdict(t, default, c), c) = Verdict(t, default, c)
    BY <1>7, VerdictIs DEF S
  <2>9. Verdict(t, default, c) = Effect(t[Min(T)])
    BY <1>7, VerdictIs DEF T
  <2> QED
    BY <1>1, <2>6, <2>7, <2>8, <2>9, Zenon
<1>8. CASE S = {} /\ T = {}
  <2>1. B = {}
    <3> SUFFICES ASSUME NEW j \in B PROVE FALSE
      OBVIOUS
    <3>1. j \in 1..Len(both) /\ j \notin 1..Len(s)
      BY <1>3, <1>4, <1>8
    <3>2. j - Len(s) \in 1..Len(t) /\ Len(s) + (j - Len(s)) = j
      BY <1>2, <3>1
    <3> QED
      BY <1>5, <1>8, <3>1, <3>2
  <2>2. Verdict(both, default, c) = default
    BY <1>1, <2>1, VerdictIs DEF B
  <2>3. Verdict(s, Verdict(t, default, c), c) = Verdict(t, default, c)
    BY <1>8, VerdictIs DEF S
  <2>4. Verdict(t, default, c) = default
    BY <1>8, VerdictIs DEF T
  <2> QED
    BY <1>1, <2>2, <2>3, <2>4, Zenon
<1> QED
  BY <1>6, <1>7, <1>8

LEMMA VerdictOfNone ==
  ASSUME NEW default, NEW c
  PROVE  Verdict(<<>>, default, c) = default
<1>1. Matching(<<>>, c) = {}
  BY DEF Matching
<1> QED
  BY <1>1, VerdictIs

LEMMA VerdictOfOne ==
  ASSUME NEW rule, NEW default, NEW c
  PROVE  Verdict(<<rule>>, default, c) = IF RuleMatches(rule, c) THEN Effect(rule) ELSE default
<1>1. PICK rules : rules = <<rule>>
  OBVIOUS
<1>2. DOMAIN rules = {1} /\ rules[1] = rule
  BY <1>1
<1>3. CASE RuleMatches(rule, c)
  <2>1. Matching(rules, c) = {1}
    BY <1>2, <1>3 DEF Matching
  <2>2. Min(Matching(rules, c)) = 1
    <3>1. {1} \in SUBSET Nat /\ {1} # {} /\ 1 \in {1} /\ \A j \in {1} : 1 <= j
      OBVIOUS
    <3>2. Min({1}) = 1
      BY <3>1, Least
    <3> QED
      BY <2>1, <3>2
  <2>3. Verdict(rules, default, c) = Effect(rule)
    BY <1>2, <2>1, <2>2, VerdictIs
  <2> QED
    BY <1>1, <1>3, <2>3, Zenon
<1>4. CASE ~RuleMatches(rule, c)
  <2>1. Matching(rules, c) = {}
    BY <1>2, <1>4 DEF Matching
  <2>2. Verdict(rules, default, c) = default
    BY <2>1, VerdictIs
  <2> QED
    BY <1>1, <1>4, <2>2, Zenon
<1> QED
  BY <1>3, <1>4

\* The first of the picked rows that matches is the first of all that do.
LEMMA PickedFirst ==
  ASSUME NEW X, NEW list \in Seq(X), NEW places \in SUBSET (DOMAIN list),
         NEW some \in SUBSET places, some # {}
  PROVE  LET found == {k \in 1..Cardinality(places) : InOrder(places)[k] \in some}
         IN  /\ found # {} /\ Min(found) \in 1..Cardinality(places)
             /\ Picked(list, places)[Min(found)] = list[Min(some)]
<1> DEFINE n == Cardinality(places)
           order == InOrder(places)
           found == {k \in 1..n : order[k] \in some}
<1>1. /\ n \in Nat /\ IsOrder(order, places)
      /\ \A k \in 1..n : order[k] \in places /\ Picked(list, places)[k] = list[order[k]]
  BY PickedFacts
<1>2. some \in SUBSET Nat /\ places \in SUBSET Nat
  OBVIOUS
<1>3. Min(some) \in some /\ \A j \in some : Min(some) <= j
  BY <1>2, Least
<1>4. /\ \A p \in places : \E k \in 1..n : order[k] = p
      /\ \A j, k \in 1..n : j < k => order[j] < order[k]
  BY <1>1 DEF IsOrder
<1> HIDE DEF n, order
<1>5. PICK k \in 1..n : order[k] = Min(some)
  BY <1>3, <1>4
<1>6. k \in found
  BY <1>3, <1>5
<1>7. \A j \in found : k <= j
  <2> SUFFICES ASSUME NEW j \in found, j < k PROVE FALSE
    BY <1>1
  <2>1. order[j] < order[k] /\ order[j] \in some
    BY <1>4
  <2>2. Min(some) <= order[j] /\ order[j] \in Nat /\ Min(some) \in Nat
    BY <1>2, <1>3, <2>1
  <2> QED
    BY <1>5, <2>1, <2>2
<1>8. Min(found) = k
  <2>1. found \in SUBSET Nat /\ found # {}
    BY <1>1, <1>6
  <2> HIDE DEF found
  <2> QED
    BY <1>6, <1>7, <2>1, Least
<1>9. Picked(list, places)[k] = list[Min(some)]
  BY <1>1, <1>5
<1> QED
  BY <1>6, <1>8, <1>9 DEF n, order

-----------------------------------------------------------------------------
(* The rules of the user *)

RuleSet(prefixes, rows, apps) ==
    {HealthRule, CandidateRule, TunDnsHijackRule, OwnPrefixGuard(prefixes), Ipv6Guard, LanRule}
    \cup {TrafficRule(t) : t \in rows} \cup {AppRule(a) : a \in apps}

TrafficRules(rows) == [i \in DOMAIN rows |-> TrafficRule(rows[i])]
RulesOfApps(apps) == [i \in DOMAIN apps |-> AppRule(apps[i])]
RowsFor(rows, c) == {i \in DOMAIN rows : rows[i].network = c.network /\ rows[i].port = c.port}
AppsFor(apps, by, c) ==
    {i \in DOMAIN apps :
        apps[i].by = by /\ IF by = "path" THEN apps[i].path = c.path ELSE apps[i].name = c.name}

LEMMA TrafficRulesType ==
  ASSUME NEW X, NEW rows \in Seq(X), NEW prefixes, NEW apps
  PROVE  /\ TrafficRules(rows) \in Seq(RuleSet(prefixes, X, apps))
         /\ DOMAIN TrafficRules(rows) = DOMAIN rows
         /\ \A i \in DOMAIN rows : TrafficRules(rows)[i] = TrafficRule(rows[i])
<1>1. \A i \in DOMAIN rows : TrafficRule(rows[i]) \in RuleSet(prefixes, X, apps)
  BY DEF RuleSet
<1> QED
  BY <1>1 DEF TrafficRules

LEMMA RulesOfAppsType ==
  ASSUME NEW X, NEW apps \in Seq(X), NEW prefixes, NEW rows
  PROVE  /\ RulesOfApps(apps) \in Seq(RuleSet(prefixes, rows, X))
         /\ DOMAIN RulesOfApps(apps) = DOMAIN apps
         /\ \A i \in DOMAIN apps : RulesOfApps(apps)[i] = AppRule(apps[i])
<1>1. \A i \in DOMAIN apps : AppRule(apps[i]) \in RuleSet(prefixes, rows, X)
  BY DEF RuleSet
<1> QED
  BY <1>1 DEF RulesOfApps

\* The first row for the connection's network and port decides it.
LEMMA VerdictOfTraffic ==
  ASSUME NEW X, NEW rows \in Seq(X), NEW default, NEW c
  PROVE  LET first == rows[Min(RowsFor(rows, c))]
         IN Verdict(TrafficRules(rows), default, c) =
                IF c.inbound = "tun-in" /\ RowsFor(rows, c) # {}
                THEN IF first.action = "block" THEN "reject" ELSE OutboundOf(first.action)
                ELSE default
<1> DEFINE list == TrafficRules(rows)
<1>1. /\ DOMAIN list = DOMAIN rows
      /\ \A i \in DOMAIN rows : list[i] = TrafficRule(rows[i])
  BY TrafficRulesType
<1> HIDE DEF list
<1>2. \A i \in DOMAIN rows : RuleMatches(list[i], c) <=>
            c.inbound = "tun-in" /\ c.network = rows[i].network /\ c.port = rows[i].port
  BY <1>1, MatchTraffic
<1>3. CASE c.inbound = "tun-in" /\ RowsFor(rows, c) # {}
  <2>1. Matching(list, c) = RowsFor(rows, c)
    BY <1>1, <1>2, <1>3 DEF Matching, RowsFor
  <2>2. RowsFor(rows, c) \in SUBSET Nat
    BY DEF RowsFor
  <2>3. Min(RowsFor(rows, c)) \in DOMAIN rows
    BY <1>3, <2>2, Least DEF RowsFor
  <2>4. Verdict(list, default, c) = Effect(list[Min(RowsFor(rows, c))])
    BY <1>3, <2>1, VerdictIs
  <2>5. Effect(list[Min(RowsFor(rows, c))]) = Effect(TrafficRule(rows[Min(RowsFor(rows, c))]))
    BY <1>1, <2>3
  <2> QED
    BY <1>3, <2>4, <2>5, Effects DEF list
<1>4. CASE ~(c.inbound = "tun-in" /\ RowsFor(rows, c) # {})
  <2>1. Matching(list, c) = {}
    BY <1>1, <1>2, <1>4 DEF Matching, RowsFor
  <2> QED
    BY <1>4, <2>1, VerdictIs DEF list
<1> QED
  BY <1>3, <1>4

LEMMA AppsByType ==
  ASSUME NEW X, NEW apps \in Seq(X), NEW by
  PROVE  AppsBy(apps, by) \in Seq(X)
<1> DEFINE places == {i \in DOMAIN apps : apps[i].by = by}
<1>1. places \in SUBSET (DOMAIN apps)
  OBVIOUS
<1>2. Picked(apps, places) \in Seq(X)
  BY <1>1, PickedFacts
<1> QED
  BY <1>2 DEF AppsBy

\* Of the rules by path, and of those by name, the one the user entered first decides.
LEMMA VerdictOfApps ==
  ASSUME NEW X, NEW apps \in Seq(X), NEW by \in {"path", "name"}, NEW default, NEW c
  PROVE  Verdict(RulesOfApps(AppsBy(apps, by)), default, c) =
            IF AppsFor(apps, by, c) = {} THEN default
            ELSE OutboundOf(apps[Min(AppsFor(apps, by, c))].action)
<1> DEFINE places == {i \in DOMAIN apps : apps[i].by = by}
           some == AppsFor(apps, by, c)
           picked == AppsBy(apps, by)
           list == RulesOfApps(picked)
           n == Cardinality(places)
           order == InOrder(places)
           found == {k \in 1..n : order[k] \in some}
<1>1. places \in SUBSET (DOMAIN apps) /\ some \in SUBSET places
  BY DEF AppsFor
<1>2. /\ picked \in Seq(X) /\ Len(picked) = n /\ n \in Nat
      /\ \A k \in 1..n : order[k] \in places /\ picked[k] = apps[order[k]]
  BY <1>1, PickedFacts DEF AppsBy
<1>3. /\ DOMAIN list = 1..n
      /\ \A k \in 1..n : list[k] = AppRule(picked[k])
  <2>1. DOMAIN list = DOMAIN picked /\ \A k \in DOMAIN picked : list[k] = AppRule(picked[k])
    BY <1>2, RulesOfAppsType
  <2>2. DOMAIN picked = 1..n
    BY <1>2
  <2> QED
    BY <2>1, <2>2
<1>4. \A i \in places : i \in some <=>
            IF by = "path" THEN apps[i].path = c.path ELSE apps[i].name = c.name
  BY DEF AppsFor
<1>5. \A i \in places : apps[i].by = by
  OBVIOUS
<1> HIDE DEF list, picked, places, some, n, order
<1>6. \A k \in 1..n : RuleMatches(list[k], c) <=> order[k] \in some
  <2> SUFFICES ASSUME NEW k \in 1..n PROVE RuleMatches(list[k], c) <=> order[k] \in some
    OBVIOUS
  <2>1. list[k] = AppRule(picked[k]) /\ picked[k] = apps[order[k]] /\ order[k] \in places
    BY <1>2, <1>3
  <2>2. picked[k].by = by /\ (order[k] \in some <=>
            IF by = "path" THEN picked[k].path = c.path ELSE picked[k].name = c.name)
    BY <1>4, <1>5, <2>1
  <2>3. RuleMatches(AppRule(picked[k]), c) <=>
            IF by = "path" THEN c.path = picked[k].path ELSE c.name = picked[k].name
    BY <2>2, MatchApp
  <2> QED
    BY <2>1, <2>2, <2>3
<1>7. Matching(list, c) = found
  BY <1>3, <1>6 DEF Matching
<1>8. CASE some = {}
  <2>1. Matching(list, c) = {}
    BY <1>7, <1>8
  <2>2. Verdict(list, default, c) = default
    BY <2>1, VerdictIs
  <2> QED
    BY <1>8, <2>2 DEF some, list, picked
<1>9. CASE some # {}
  <2>1. found # {} /\ Min(found) \in 1..n /\ picked[Min(found)] = apps[Min(some)]
    BY <1>1, <1>9, PickedFirst DEF n, order, picked, AppsBy, places
  <2>2. Verdict(list, default, c) = Effect(list[Min(found)])
    BY <1>7, <2>1, VerdictIs
  <2>3. list[Min(found)] = AppRule(apps[Min(some)])
    BY <1>3, <2>1
  <2>4. Effect(AppRule(apps[Min(some)])) = OutboundOf(apps[Min(some)].action)
    BY Effects
  <2>5. Verdict(list, default, c) = OutboundOf(apps[Min(some)].action)
    BY <2>2, <2>3, <2>4
  <2> QED
    BY <1>9, <2>5 DEF some, list, picked
<1> QED
  BY <1>8, <1>9

\* The rules of a list and of a second list behind it.
LEMMA RulesOfBoth ==
  ASSUME NEW X, NEW s \in Seq(X), NEW t \in Seq(X)
  PROVE  RulesOfApps(s \o t) = RulesOfApps(s) \o RulesOfApps(t)
<1> DEFINE R == RuleSet(<<>>, {}, X)
<1>1. PICK both : both = s \o t
  OBVIOUS
<1>2. /\ both \in Seq(X) /\ Len(both) = Len(s) + Len(t)
      /\ \A i \in 1..(Len(s) + Len(t)) : both[i] = IF i <= Len(s) THEN s[i] ELSE t[i - Len(s)]
  <2>1. /\ s \o t \in Seq(X) /\ Len(s \o t) = Len(s) + Len(t)
        /\ \A i \in 1..(Len(s) + Len(t)) : (s \o t)[i] = IF i <= Len(s) THEN s[i] ELSE t[i - Len(s)]
    BY ConcatProperties
  <2> QED
    BY <1>1, <2>1, Zenon
<1>3. PICK a : a = RulesOfApps(both)
  OBVIOUS
<1>4. PICK b : b = RulesOfApps(s)
  OBVIOUS
<1>5. PICK d : d = RulesOfApps(t)
  OBVIOUS
<1>6. /\ a \in Seq(R) /\ DOMAIN a = DOMAIN both /\ \A i \in DOMAIN both : a[i] = AppRule(both[i])
  BY <1>2, <1>3, RulesOfAppsType
<1>7. /\ b \in Seq(R) /\ DOMAIN b = DOMAIN s /\ \A i \in DOMAIN s : b[i] = AppRule(s[i])
  BY <1>4, RulesOfAppsType
<1>8. /\ d \in Seq(R) /\ DOMAIN d = DOMAIN t /\ \A i \in DOMAIN t : d[i] = AppRule(t[i])
  BY <1>5, RulesOfAppsType
<1>9. PICK e : e = b \o d
  OBVIOUS
<1>10. /\ e \in Seq(R) /\ Len(e) = Len(b) + Len(d)
       /\ \A i \in 1..(Len(b) + Len(d)) : e[i] = IF i <= Len(b) THEN b[i] ELSE d[i - Len(b)]
  <2>1. /\ b \o d \in Seq(R) /\ Len(b \o d) = Len(b) + Len(d)
        /\ \A i \in 1..(Len(b) + Len(d)) : (b \o d)[i] = IF i <= Len(b) THEN b[i] ELSE d[i - Len(b)]
    BY <1>7, <1>8, ConcatProperties
  <2> QED
    BY <1>9, <2>1, Zenon
<1> HIDE DEF R
<1>11. Len(b) = Len(s) /\ Len(d) = Len(t) /\ Len(a) = Len(both) /\ Len(s) \in Nat /\ Len(t) \in Nat
  BY <1>2, <1>6, <1>7, <1>8
<1>12. ASSUME NEW i \in 1..(Len(s) + Len(t)) PROVE a[i] = e[i]
  <2>0. i \in DOMAIN both /\ a[i] = AppRule(both[i])
    BY <1>2, <1>6
  <2>1. CASE i <= Len(s)
    <3>1. i \in DOMAIN s /\ both[i] = s[i] /\ e[i] = b[i]
      BY <1>2, <1>10, <1>11, <2>1
    <3> QED
      BY <1>7, <2>0, <3>1
  <2>2. CASE ~(i <= Len(s))
    <3>1. i - Len(s) \in DOMAIN t /\ both[i] = t[i - Len(s)] /\ e[i] = d[i - Len(s)]
      BY <1>2, <1>10, <1>11, <2>2
    <3> QED
      BY <1>8, <2>0, <3>1
  <2> QED
    BY <2>1, <2>2
<1>13. a = e
  <2>1. Len(a) = Len(e) /\ \A i \in 1..Len(a) : a[i] = e[i]
    BY <1>2, <1>10, <1>11, <1>12
  <2> QED
    BY <1>6, <1>10, <2>1, SeqEqual
<1> QED
  BY <1>1, <1>3, <1>4, <1>5, <1>9, <1>13, Zenon

-----------------------------------------------------------------------------
(* The rules of a request *)

\* The rules of a request, by where they come from.
TunRules(r, prefixes) ==
    IF r.mode.kind = "tun" THEN <<TunDnsHijackRule, OwnPrefixGuard(prefixes)>> ELSE <<>>
SixRules(r) == IF r.policy.ipv6 THEN <<>> ELSE <<Ipv6Guard>>
RowRules(r) == IF r.mode.kind = "tun" THEN TrafficRules(r.mode.rules) ELSE <<>>
AppsOf(r, by) == RulesOfApps(AppsBy(r.policy.apps, by))
LanRules(r) == IF r.policy.lan = "direct" THEN <<LanRule>> ELSE <<>>

RequestOK(r) ==
    /\ r.policy.apps \in Seq(Range(r.policy.apps))
    /\ r.mode.rules \in Seq(Range(r.mode.rules))
RuleSetOf(r, prefixes) == RuleSet(prefixes, Range(r.mode.rules), Range(r.policy.apps))

LEMMA PartsType ==
  ASSUME NEW r, NEW prefixes, RequestOK(r)
  PROVE  /\ TunRules(r, prefixes) \in Seq(RuleSetOf(r, prefixes))
         /\ SixRules(r) \in Seq(RuleSetOf(r, prefixes))
         /\ RowRules(r) \in Seq(RuleSetOf(r, prefixes))
         /\ AppsOf(r, "path") \in Seq(RuleSetOf(r, prefixes))
         /\ AppsOf(r, "name") \in Seq(RuleSetOf(r, prefixes))
         /\ LanRules(r) \in Seq(RuleSetOf(r, prefixes))
<1> DEFINE R == RuleSetOf(r, prefixes)
<1>1. /\ TunDnsHijackRule \in R /\ OwnPrefixGuard(prefixes) \in R /\ Ipv6Guard \in R
      /\ LanRule \in R
  BY DEF RuleSetOf, RuleSet
<1>2. TrafficRules(r.mode.rules) \in Seq(R)
  BY TrafficRulesType DEF RequestOK, RuleSetOf
<1>3. \A by : AppsOf(r, by) \in Seq(R)
  <2> SUFFICES ASSUME NEW by PROVE AppsOf(r, by) \in Seq(R)
    OBVIOUS
  <2>1. AppsBy(r.policy.apps, by) \in Seq(Range(r.policy.apps))
    BY AppsByType DEF RequestOK
  <2> QED
    BY <2>1, RulesOfAppsType DEF AppsOf, RuleSetOf
<1> HIDE DEF R
<1>4. \A rule \in R : <<rule>> \in Seq(R)
  OBVIOUS
<1>5. \A rule, other \in R : <<rule, other>> \in Seq(R)
  OBVIOUS
<1>6. <<>> \in Seq(R)
  OBVIOUS
<1>7. TunRules(r, prefixes) \in Seq(R)
  BY <1>1, <1>5, <1>6, Zenon DEF TunRules
<1>8. SixRules(r) \in Seq(R)
  BY <1>1, <1>4, <1>6, Zenon DEF SixRules
<1>9. RowRules(r) \in Seq(R)
  BY <1>2, <1>6, Zenon DEF RowRules
<1>10. LanRules(r) \in Seq(R)
  BY <1>1, <1>4, <1>6, Zenon DEF LanRules
<1> QED
  BY <1>3, <1>7, <1>8, <1>9, <1>10 DEF R

LEMMA LaterAre ==
  ASSUME NEW r, NEW prefixes, RequestOK(r)
  PROVE  LaterRules(r, prefixes) =
            TunRules(r, prefixes) \o SixRules(r) \o RowRules(r)
            \o (AppsOf(r, "path") \o AppsOf(r, "name")) \o LanRules(r)
<1>1. AppRules(r.policy.apps) = RulesOfApps(SortedApps(r.policy.apps))
  BY Zenon DEF AppRules, RulesOfApps
<1>2. /\ AppsBy(r.policy.apps, "path") \in Seq(Range(r.policy.apps))
      /\ AppsBy(r.policy.apps, "name") \in Seq(Range(r.policy.apps))
  BY AppsByType DEF RequestOK
<1>3. RulesOfApps(SortedApps(r.policy.apps)) = AppsOf(r, "path") \o AppsOf(r, "name")
  BY <1>2, RulesOfBoth, Zenon DEF SortedApps, AppsOf
<1> QED
  BY <1>1, <1>3, Zenon DEF LaterRules, TunRules, SixRules, RowRules, TrafficRules, LanRules

LEMMA VerdictOfLater ==
  ASSUME NEW r, NEW prefixes, RequestOK(r), NEW default, NEW c
  PROVE  Verdict(LaterRules(r, prefixes), default, c) =
            LET v1 == Verdict(LanRules(r), default, c)
                v2 == Verdict(AppsOf(r, "name"), v1, c)
                v3 == Verdict(AppsOf(r, "path"), v2, c)
                v4 == Verdict(RowRules(r), v3, c)
                v5 == Verdict(SixRules(r), v4, c)
            IN Verdict(TunRules(r, prefixes), v5, c)
<1> DEFINE R == RuleSetOf(r, prefixes)
           a == TunRules(r, prefixes)
           b == SixRules(r)
           d == RowRules(r)
           e == AppsOf(r, "path")
           f == AppsOf(r, "name")
           g == LanRules(r)
<1>1. a \in Seq(R) /\ b \in Seq(R) /\ d \in Seq(R) /\ e \in Seq(R) /\ f \in Seq(R) /\ g \in Seq(R)
  BY PartsType
<1>2. Verdict(LaterRules(r, prefixes), default, c) = Verdict(a \o b \o d \o (e \o f) \o g, default, c)
  BY LaterAre, Zenon
<1> HIDE DEF R, a, b, d, e, f, g
<1>3. \A s, t \in Seq(R) : s \o t \in Seq(R)
  BY ConcatProperties, Zenon
<1>4. \A s, t \in Seq(R) : \A other : Verdict(s \o t, other, c) = Verdict(s, Verdict(t, other, c), c)
  BY VerdictThrough
<1>5. a \o b \in Seq(R) /\ a \o b \o d \in Seq(R) /\ e \o f \in Seq(R) /\ a \o b \o d \o (e \o f) \in Seq(R)
  BY <1>1, <1>3, Zenon
<1>6. \A other : Verdict(a \o b \o d, other, c) = Verdict(a, Verdict(b, Verdict(d, other, c), c), c)
  <2>1. \A other : Verdict((a \o b) \o d, other, c) = Verdict(a \o b, Verdict(d, other, c), c)
    BY <1>1, <1>4, <1>5, Zenon
  <2>2. \A other : Verdict(a \o b, other, c) = Verdict(a, Verdict(b, other, c), c)
    BY <1>1, <1>4, Zenon
  <2> QED
    BY <2>1, <2>2, Zenon
<1>7. \A other : Verdict(e \o f, other, c) = Verdict(e, Verdict(f, other, c), c)
  BY <1>1, <1>4, Zenon
<1>8. \A other : Verdict(a \o b \o d \o (e \o f) \o g, other, c) =
                    Verdict(a \o b \o d, Verdict(e \o f, Verdict(g, other, c), c), c)
  <2>1. \A other : Verdict((a \o b \o d \o (e \o f)) \o g, other, c) =
                        Verdict(a \o b \o d \o (e \o f), Verdict(g, other, c), c)
    BY <1>1, <1>4, <1>5, Zenon
  <2>2. \A other : Verdict((a \o b \o d) \o (e \o f), other, c) =
                        Verdict(a \o b \o d, Verdict(e \o f, other, c), c)
    BY <1>4, <1>5, Zenon
  <2> QED
    BY <2>1, <2>2, Zenon
<1>9. Verdict(a \o b \o d \o (e \o f) \o g, default, c) =
        Verdict(a, Verdict(b, Verdict(d, Verdict(e, Verdict(f, Verdict(g, default, c), c), c), c), c), c)
  BY <1>6, <1>7, <1>8, Zenon
<1> QED
  BY <1>2, <1>9, Zenon DEF a, b, d, e, f, g

\* Where a connection goes that is no probe, said without the list of rules.
Destination(r, default, c) ==
    LET tunnelled == r.mode.kind = "tun" /\ c.inbound = "tun-in"
        rows == RowsFor(r.mode.rules, c)
        row == r.mode.rules[Min(rows)]
        paths == AppsFor(r.policy.apps, "path", c)
        names == AppsFor(r.policy.apps, "name", c)
    IN  IF tunnelled /\ c.port = 53 THEN "hijack-dns"
        ELSE IF (tunnelled /\ c.own) \/ (~r.policy.ipv6 /\ c.ipv6) THEN "reject"
        ELSE IF tunnelled /\ rows # {}
             THEN IF row.action = "block" THEN "reject" ELSE OutboundOf(row.action)
        ELSE IF paths # {} THEN OutboundOf(r.policy.apps[Min(paths)].action)
        ELSE IF names # {} THEN OutboundOf(r.policy.apps[Min(names)].action)
        ELSE IF r.policy.lan = "direct" /\ c.private THEN "direct"
        ELSE default

LEMMA LaterDecide ==
  ASSUME NEW r, NEW prefixes, RequestOK(r), NEW default, NEW c, c.network \in {"tcp", "udp"}
  PROVE  Verdict(LaterRules(r, prefixes), default, c) = Destination(r, default, c)
<1> DEFINE v1 == Verdict(LanRules(r), default, c)
           v2 == Verdict(AppsOf(r, "name"), v1, c)
           v3 == Verdict(AppsOf(r, "path"), v2, c)
           v4 == Verdict(RowRules(r), v3, c)
           v5 == Verdict(SixRules(r), v4, c)
           v6 == Verdict(TunRules(r, prefixes), v5, c)
           rows == RowsFor(r.mode.rules, c)
           row == r.mode.rules[Min(rows)]
           paths == AppsFor(r.policy.apps, "path", c)
           names == AppsFor(r.policy.apps, "name", c)
<1>0. \A x : Verdict(<<>>, x, c) = x
  BY VerdictOfNone
<1>1. v1 = IF r.policy.lan = "direct" /\ c.private THEN "direct" ELSE default
  <2>1. CASE r.policy.lan = "direct"
    <3>1. v1 = Verdict(<<LanRule>>, default, c)
      BY <2>1 DEF LanRules
    <3>2. Verdict(<<LanRule>>, default, c) = IF RuleMatches(LanRule, c) THEN Effect(LanRule) ELSE default
      BY VerdictOfOne
    <3> QED
      BY <2>1, <3>1, <3>2, MatchLan, Effects, Zenon
  <2>2. CASE r.policy.lan # "direct"
    BY <1>0, <2>2, Zenon DEF LanRules
  <2> QED
    BY <2>1, <2>2
<1>2. v2 = IF names # {} THEN OutboundOf(r.policy.apps[Min(names)].action) ELSE v1
  BY VerdictOfApps, Zenon DEF AppsOf, RequestOK
<1>3. v3 = IF paths # {} THEN OutboundOf(r.policy.apps[Min(paths)].action) ELSE v2
  BY VerdictOfApps, Zenon DEF AppsOf, RequestOK
<1>4. v4 = IF r.mode.kind = "tun" /\ c.inbound = "tun-in" /\ rows # {}
           THEN IF row.action = "block" THEN "reject" ELSE OutboundOf(row.action) ELSE v3
  <2>1. CASE r.mode.kind = "tun"
    <3>1. v4 = Verdict(TrafficRules(r.mode.rules), v3, c)
      BY <2>1, Zenon DEF RowRules
    <3> QED
      BY <2>1, <3>1, VerdictOfTraffic, Zenon DEF RequestOK
  <2>2. CASE r.mode.kind # "tun"
    BY <1>0, <2>2, Zenon DEF RowRules
  <2> QED
    BY <2>1, <2>2
<1>5. v5 = IF ~r.policy.ipv6 /\ c.ipv6 THEN "reject" ELSE v4
  <2>1. CASE ~r.policy.ipv6
    <3>1. v5 = Verdict(<<Ipv6Guard>>, v4, c)
      BY <2>1, Zenon DEF SixRules
    <3>2. Verdict(<<Ipv6Guard>>, v4, c) = IF RuleMatches(Ipv6Guard, c) THEN Effect(Ipv6Guard) ELSE v4
      BY VerdictOfOne
    <3> QED
      BY <2>1, <3>1, <3>2, MatchIpv6, Effects, Zenon
  <2>2. CASE r.policy.ipv6
    BY <1>0, <2>2, Zenon DEF SixRules
  <2> QED
    BY <2>1, <2>2
<1>6. v6 = IF r.mode.kind = "tun" /\ c.inbound = "tun-in" /\ c.port = 53 THEN "hijack-dns"
           ELSE IF r.mode.kind = "tun" /\ c.inbound = "tun-in" /\ c.own THEN "reject" ELSE v5
  <2> DEFINE guard == OwnPrefixGuard(prefixes)
  <2>1. CASE r.mode.kind = "tun"
    <3>1. v6 = Verdict(<<TunDnsHijackRule, guard>>, v5, c)
      BY <2>1, Zenon DEF TunRules
    <3> HIDE DEF guard, v5
    <3>2. PICK one : one = <<TunDnsHijackRule>>
      OBVIOUS
    <3>3. PICK two : two = <<guard>>
      OBVIOUS
    <3>4. /\ one \in Seq({TunDnsHijackRule, guard}) /\ two \in Seq({TunDnsHijackRule, guard})
          /\ <<TunDnsHijackRule, guard>> = one \o two
      BY <3>2, <3>3
    <3>5. Verdict(one \o two, v5, c) = Verdict(one, Verdict(two, v5, c), c)
      BY <3>4, VerdictThrough
    <3>6. Verdict(two, v5, c) = IF RuleMatches(guard, c) THEN Effect(guard) ELSE v5
      BY <3>3, VerdictOfOne, Zenon
    <3>7. \A x : Verdict(one, x, c) = IF RuleMatches(TunDnsHijackRule, c) THEN Effect(TunDnsHijackRule) ELSE x
      BY <3>2, VerdictOfOne, Zenon
    <3>8. /\ RuleMatches(guard, c) <=> c.inbound = "tun-in" /\ c.own
          /\ Effect(guard) = "reject"
      BY MatchOwn, Effects, Zenon DEF guard
    <3>9. /\ RuleMatches(TunDnsHijackRule, c) <=> c.inbound = "tun-in" /\ c.port = 53
          /\ Effect(TunDnsHijackRule) = "hijack-dns"
      BY MatchHijack, Effects, Zenon
    <3>10. v6 = Verdict(one, Verdict(two, v5, c), c)
      BY <3>1, <3>4, <3>5, Zenon
    <3> QED
      BY <2>1, <3>6, <3>7, <3>8, <3>9, <3>10, Zenon
  <2>2. CASE r.mode.kind # "tun"
    BY <1>0, <2>2, Zenon DEF TunRules
  <2> QED
    BY <2>1, <2>2
<1>7. Verdict(LaterRules(r, prefixes), default, c) = v6
  BY VerdictOfLater, Zenon
<1>8. v3 = IF paths # {} THEN OutboundOf(r.policy.apps[Min(paths)].action)
           ELSE IF names # {} THEN OutboundOf(r.policy.apps[Min(names)].action)
           ELSE IF r.policy.lan = "direct" /\ c.private THEN "direct" ELSE default
  <2> HIDE DEF v1, v2, v3, paths, names
  <2> QED
    BY <1>1, <1>2, <1>3, Zenon
<1> HIDE DEF v1, v2, v3, v4, v5, v6
<1>9. CASE r.mode.kind = "tun" /\ c.inbound = "tun-in" /\ c.port = 53
  BY <1>6, <1>7, <1>9, Zenon DEF Destination
<1>10. CASE ~(r.mode.kind = "tun" /\ c.inbound = "tun-in" /\ c.port = 53)
  <2>1. CASE r.mode.kind = "tun" /\ c.inbound = "tun-in" /\ c.own
    <3>1. v6 = "reject"
      BY <1>6, <1>10, <2>1, Zenon
    <3>2. Destination(r, default, c) = "reject"
      BY <1>10, <2>1, Zenon DEF Destination
    <3> QED
      BY <1>7, <3>1, <3>2, Zenon
  <2>3. CASE ~r.policy.ipv6 /\ c.ipv6
    <3>1. v6 = "reject"
      BY <1>5, <1>6, <1>10, <2>3, Zenon
    <3>2. Destination(r, default, c) = "reject"
      BY <1>10, <2>3 DEF Destination
    <3> QED
      BY <1>7, <3>1, <3>2, Zenon
  <2>2. CASE /\ ~(r.mode.kind = "tun" /\ c.inbound = "tun-in" /\ c.own)
             /\ ~(~r.policy.ipv6 /\ c.ipv6)
    <3>1. v6 = v4
      <4>1. v6 = v5
        <5>1. ~(r.mode.kind = "tun" /\ c.inbound = "tun-in" /\ c.own)
          BY <2>2, Zenon
        <5>2. v6 = IF r.mode.kind = "tun" /\ c.inbound = "tun-in" /\ c.own THEN "reject" ELSE v5
          BY <1>6, <1>10, Zenon
        <5> QED
          BY <5>1, <5>2, Zenon
      <4>2. v5 = v4
        BY <1>5, <2>2, Zenon
      <4> QED
        BY <4>1, <4>2
    <3>2. CASE r.mode.kind = "tun" /\ c.inbound = "tun-in" /\ rows # {}
      <4>1. Destination(r, default, c) = IF row.action = "block" THEN "reject" ELSE OutboundOf(row.action)
        BY <1>10, <2>2, <3>2, Zenon DEF Destination
      <4> QED
        BY <1>4, <1>7, <3>1, <3>2, <4>1, Zenon
    <3>3. CASE ~(r.mode.kind = "tun" /\ c.inbound = "tun-in" /\ rows # {})
      <4>1. v6 = v3
        BY <1>4, <3>1, <3>3, Zenon
      <4>2. Destination(r, default, c) =
                IF paths # {} THEN OutboundOf(r.policy.apps[Min(paths)].action)
                ELSE IF names # {} THEN OutboundOf(r.policy.apps[Min(names)].action)
                ELSE IF r.policy.lan = "direct" /\ c.private THEN "direct" ELSE default
        BY <1>10, <2>2, <3>3, Zenon DEF Destination
      <4> QED
        BY <1>7, <1>8, <4>1, <4>2, Zenon
    <3> QED
      BY <3>2, <3>3, Zenon
  <2> QED
    BY <2>1, <2>2, <2>3, Zenon
<1> QED
  BY <1>9, <1>10, Zenon

-----------------------------------------------------------------------------
(* What a configuration that was generated says about traffic *)

LEMMA FieldOfRequest ==
  ASSUME NEW i, NEW approval, NEW k \in DOMAIN request, k \notin {"node", "approval"}
  PROVE  RequestFor(i, approval)[k] = request[k] /\ k \in DOMAIN RequestFor(i, approval)
  BY One, Both DEF RequestFor, :>, @@

LEMMA RulesSame ==
  ASSUME NEW q, NEW r, q.mode = r.mode, q.policy = r.policy
  PROVE  Rules(q, OwnPrefixes(q)) = Rules(r, OwnPrefixes(r))
<1>1. OwnPrefixes(q) = OwnPrefixes(r)
  BY Zenon DEF OwnPrefixes, TunAddresses
<1> QED
  BY <1>1, Zenon DEF Rules, LaterRules

\* What is generated for one server says where traffic goes as the request does.
RoutesAs(config, r) ==
    /\ "route" \in DOMAIN config
    /\ config.route["rules"] = Rules(r, OwnPrefixes(r))
    /\ config.route["final"] = OutboundOf(r.policy.default)
    /\ {"rules", "final"} \subseteq DOMAIN config.route
    /\ ~Switches(config)

LEMMA RootRoutes ==
  ASSUME NEW r, NEW exit, NEW bridged
  PROVE  RoutesAs(Root(r, exit, bridged), r)
<1> DEFINE rules == Rules(r, OwnPrefixes(r))
           final == OutboundOf(r.policy.default)
           rest == ("default_domain_resolver" :> "bootstrap")
                    @@ When(~bridged, Opt("default_interface", r.upstream.alias))
           some == Root(r, exit, bridged)
<1>1. some.route = ("rules" :> rules) @@ ("final" :> final) @@ ("default_domain_resolver" :> "bootstrap")
                @@ When(~bridged, Opt("default_interface", r.upstream.alias))
  BY Zenon DEF Root
<1>2. "control" \notin DOMAIN some /\ "route" \in DOMAIN some
  BY DEF Root
<1> HIDE DEF rules, final, some
<1>3. /\ some.route["rules"] = rules /\ some.route["final"] = final
      /\ {"rules", "final"} \subseteq DOMAIN some.route
  BY <1>1, One, Both DEF :>, @@
<1> QED
  BY <1>2, <1>3 DEF RoutesAs, Switches, rules, final, some

LEMMA GeneratedRoutes ==
  ASSUME NEW r, NEW n, NEW port, ExitConfig(r, n, port) # NoConfig
  PROVE  RoutesAs(ExitConfig(r, n, port), [r EXCEPT !.node = n])
<1> DEFINE q == [r EXCEPT !.node = n]
<1>1. \A exit, bridged : Generated(q, exit, bridged) # NoConfig =>
            Generated(q, exit, bridged) = Root(q, exit, bridged)
  BY Zenon DEF Generated
<1>2. \A exit, bridged : RoutesAs(Root(q, exit, bridged), q)
  BY RootRoutes, Zenon
<1>3. \E exit, bridged : ExitConfig(r, n, port) = Generated(q, exit, bridged)
  BY Zenon DEF ExitConfig, Generate, GenerateBridge
<1> QED
  BY <1>1, <1>2, <1>3, Zenon

\* ... and the request only differs from the user's in its node.
LEMMA ExitRoutes ==
  ASSUME NEW i, NEW approval, NEW n, NEW port,
         {"policy", "mode"} \subseteq DOMAIN request,
         ExitConfig(RequestFor(i, approval), n, port) # NoConfig
  PROVE  RoutesAs(ExitConfig(RequestFor(i, approval), n, port), request)
<1> DEFINE r == RequestFor(i, approval)
           q == [r EXCEPT !.node = n]
<1>1. RoutesAs(ExitConfig(r, n, port), q)
  BY GeneratedRoutes
<1>2. r.policy = request.policy /\ r.mode = request.mode /\ {"policy", "mode"} \subseteq DOMAIN r
  BY FieldOfRequest
<1> HIDE DEF r
<1>3. q.policy = request.policy /\ q.mode = request.mode
  BY <1>2
<1>4. Rules(q, OwnPrefixes(q)) = Rules(request, OwnPrefixes(request))
  BY <1>3, RulesSame
<1> HIDE DEF q
<1> QED
  BY <1>1, <1>3, <1>4 DEF RoutesAs, r

\* combine_configs leaves everything but the exits and the candidate's rule.
Routed(config, r) ==
    LET rules == Rules(r, OwnPrefixes(r))
    IN  /\ config.route["rules"] = IF r.mode.kind = "tun" THEN Inserted(rules, CandidateRule) ELSE rules
        /\ config.route["final"] = OutboundOf(r.policy.default)
        /\ Switches(config) <=> r.mode.kind = "tun"

LEMMA CombinedRoutes ==
  ASSUME NEW r, NEW configs, NEW control, NEW candidate, NEW alias,
         RoutesAs(configs[1], r), r.mode.kind = "tun"
  PROVE  Routed(CombineConfigs(configs, control, candidate, alias), r)
<1> DEFINE base == BindDns(configs[1], alias)
           c == CombineConfigs(configs, control, candidate, alias)
           rules == Rules(r, OwnPrefixes(r))
           more == Inserted(base.route["rules"], CandidateRule)
           rest == Without(base.route, "default_interface")
<1>1. base.route = configs[1].route
  BY DEF BindDns, RoutesAs
<1>2. c.route = ("rules" :> more) @@ rest
  BY Zenon DEF CombineConfigs
<1>3. "control" \in DOMAIN c
  BY DEF CombineConfigs
<1>4. more = Inserted(rules, CandidateRule)
  BY <1>1, Zenon DEF RoutesAs
<1>5. "final" \in DOMAIN rest /\ rest["final"] = base.route["final"]
  <2> HIDE DEF base
  <2>1. "final" \in DOMAIN base.route
    BY <1>1, Zenon DEF RoutesAs
  <2> QED
    BY <2>1 DEF Without, Restrict
<1>6. base.route["final"] = OutboundOf(r.policy.default)
  BY <1>1, Zenon DEF RoutesAs
<1> HIDE DEF c, rest, more, rules, base
<1>7. c.route["rules"] = more /\ c.route["final"] = rest["final"]
  BY <1>2, <1>5, One, Both DEF :>, @@
<1> QED
  BY <1>3, <1>4, <1>5, <1>6, <1>7 DEF Routed, Switches, c, rules

-----------------------------------------------------------------------------
(* The servers of a subscription, and the exits of a session *)

LEMMA ListInItsRange ==
  ASSUME NEW X, NEW s \in Seq(X) PROVE s \in Seq(Range(s))
<1>1. s \in [1..Len(s) -> Range(s)] /\ Len(s) \in Nat
  BY DEF Range
<1> QED
  BY <1>1

LEMMA ListIsSeq ==
  ASSUME NEW n \in Nat, NEW f, DOMAIN f = 1..n, f = [i \in 1..n |-> f[i]]
  PROVE  f \in Seq(Range(f)) /\ Len(f) = n
<1>1. f \in [1..n -> Range(f)]
  BY DEF Range
<1> QED
  BY <1>1

\* Every server comes from an entry its parser accepted, in the order of the text.
LEMMA ImportFacts ==
  ASSUME text.entries \in Seq(Range(text.entries)), NEW max
  PROVE  LET nodes == Import(text, max)
         IN  /\ nodes \in Seq(Range(nodes))
             /\ \A k \in DOMAIN nodes :
                    /\ AcceptedEntries[k] \in Range(text.entries)
                    /\ nodes[k] = Parse(Detected(text), AcceptedEntries[k])
                    /\ nodes[k] # Rejected
<1> DEFINE nodes == Import(text, max)
           parsed == [i \in DOMAIN text.entries |-> Parse(Detected(text), text.entries[i])]
           places == {i \in DOMAIN parsed : parsed[i] # Rejected}
<1>1. CASE Detected(text) = "unknown" \/ Len(text.entries) > max
  <2>1. nodes = <<>>
    BY <1>1, Zenon DEF Import
  <2>2. DOMAIN <<>> = {} /\ <<>> \in Seq(Range(<<>>))
    OBVIOUS
  <2>3. nodes \in Seq(Range(nodes)) /\ DOMAIN nodes = {}
    BY <2>1, <2>2, Zenon
  <2> HIDE DEF nodes
  <2>4. \A k \in DOMAIN nodes : FALSE
    BY <2>3
  <2> QED
    BY <2>3, <2>4, Zenon DEF nodes
<1>2. CASE ~(Detected(text) = "unknown" \/ Len(text.entries) > max)
  <2>1. nodes = Picked(parsed, places)
    BY <1>2, Zenon DEF Import
  <2>2. DOMAIN parsed = DOMAIN text.entries /\ parsed \in Seq(Range(parsed))
    <3>1. DOMAIN text.entries = 1..Len(text.entries) /\ Len(text.entries) \in Nat
      OBVIOUS
    <3>2. DOMAIN parsed = 1..Len(text.entries)
      BY <3>1
    <3>3. parsed = [i \in 1..Len(text.entries) |-> parsed[i]]
      BY <3>2
    <3> HIDE DEF parsed
    <3> QED
      BY <3>1, <3>2, <3>3, Zenon, ListIsSeq
  <2>3. places \in SUBSET (DOMAIN parsed) /\ places \in SUBSET (DOMAIN text.entries)
    BY <2>2
  <2>4. AcceptedEntries = Picked(text.entries, places)
    <3>1. places = {i \in DOMAIN text.entries : Parse(Detected(text), text.entries[i]) # Rejected}
      OBVIOUS
    <3> QED
      BY <3>1, Zenon DEF AcceptedEntries
  <2>5. \A i \in places : /\ parsed[i] = Parse(Detected(text), text.entries[i])
                          /\ parsed[i] # Rejected /\ text.entries[i] \in Range(text.entries)
    BY <2>2 DEF Range
  <2> DEFINE n == Cardinality(places)
             order == InOrder(places)
  <2> HIDE DEF parsed, places, nodes
  <2>6. /\ nodes \in Seq(Range(parsed)) /\ Len(nodes) = n /\ n \in Nat
        /\ \A k \in 1..n : order[k] \in places /\ nodes[k] = parsed[order[k]]
    BY <2>1, <2>2, <2>3, PickedFacts
  <2>7. \A k \in 1..n : AcceptedEntries[k] = text.entries[order[k]]
    BY <2>3, <2>4, PickedFacts
  <2>8. nodes \in Seq(Range(nodes))
    BY <2>6, ListInItsRange
  <2>9. DOMAIN nodes = 1..n
    BY <2>6
  <2> HIDE DEF n, order
  <2>10. \A k \in 1..n : /\ AcceptedEntries[k] \in Range(text.entries)
                         /\ nodes[k] = Parse(Detected(text), AcceptedEntries[k])
                         /\ nodes[k] # Rejected
    BY <2>5, <2>6, <2>7
  <2> QED
    BY <2>8, <2>9, <2>10 DEF nodes
<1> QED
  BY <1>1, <1>2

\* The exits of a session: servers of the library a configuration was made for, each
\* with the place of its bridge among the places of the library.
LEMMA ExitsFacts ==
  ASSUME NEW servers, servers \in Seq(Range(servers)), NEW r, NEW sel \in DOMAIN servers
  PROVE  LET usable == Exits(r, servers, sel)
         IN  /\ usable \in Seq(Range(usable))
             /\ \A k \in DOMAIN usable : \E i \in DOMAIN servers, j \in DOMAIN servers :
                    /\ usable[k] = Exit(r, servers, i, BridgePort(j))
                    /\ usable[k].config # NoConfig
             /\ \A k, m \in DOMAIN usable : usable[k].port = usable[m].port => k = m
<1> DEFINE usable == Exits(r, servers, sel)
           at == SwitchOrder(servers, sel)
           all == [k \in DOMAIN servers |-> Exit(r, servers, at[k], BridgePort(k))]
           places == {k \in DOMAIN all : all[k].config # NoConfig}
           n == Cardinality(places)
           order == InOrder(places)
<1>0. DOMAIN servers = 1..Len(servers) /\ Len(servers) \in Nat
  OBVIOUS
<1>1. \A k \in DOMAIN servers : at[k] \in DOMAIN servers
  BY <1>0 DEF SwitchOrder
<1>2. DOMAIN all = DOMAIN servers /\ \A k \in DOMAIN servers : all[k] = Exit(r, servers, at[k], BridgePort(k))
  OBVIOUS
<1>3. all \in Seq(Range(all))
  <2>1. DOMAIN all = 1..Len(servers) /\ all = [i \in 1..Len(servers) |-> all[i]]
    BY <1>0
  <2> HIDE DEF all
  <2> QED
    BY <1>0, <2>1, Zenon, ListIsSeq
<1>4. usable = Picked(all, places)
  BY Zenon DEF Exits
<1>5. places \in SUBSET (DOMAIN all) /\ \A k \in places : all[k].config # NoConfig
  OBVIOUS
<1> HIDE DEF usable, all, at, places
<1>6. /\ usable \in Seq(Range(all)) /\ Len(usable) = n /\ n \in Nat /\ IsOrder(order, places)
      /\ \A k \in 1..n : order[k] \in places /\ usable[k] = all[order[k]]
  BY <1>3, <1>4, <1>5, PickedFacts
<1>7. usable \in Seq(Range(usable)) /\ DOMAIN usable = 1..n
  BY <1>6, ListInItsRange
<1>8. \A j, k \in 1..n : j < k => order[j] < order[k]
  BY <1>6 DEF IsOrder
<1> HIDE DEF n, order
<1>9. ASSUME NEW k \in 1..n
      PROVE  /\ order[k] \in DOMAIN servers /\ at[order[k]] \in DOMAIN servers
             /\ usable[k] = Exit(r, servers, at[order[k]], BridgePort(order[k]))
             /\ usable[k].config # NoConfig
  <2>1. order[k] \in places /\ order[k] \in DOMAIN servers /\ usable[k] = all[order[k]]
    BY <1>2, <1>5, <1>6
  <2> QED
    BY <1>1, <1>2, <1>5, <2>1
<1>10. \A k \in 1..n : usable[k].port = 10 + order[k] /\ order[k] \in Nat
  <2> SUFFICES ASSUME NEW k \in 1..n PROVE usable[k].port = 10 + order[k] /\ order[k] \in Nat
    OBVIOUS
  <2>1. \A i, port : Exit(r, servers, i, port).port = port
    BY DEF Exit
  <2> QED
    BY <1>0, <1>9, <2>1 DEF BridgePort
<1>11. \A k, m \in 1..n : usable[k].port = usable[m].port => k = m
  <2> SUFFICES ASSUME NEW k \in 1..n, NEW m \in 1..n, usable[k].port = usable[m].port PROVE k = m
    OBVIOUS
  <2>1. order[k] = order[m] /\ order[k] \in Nat
    BY <1>10
  <2>2. ~(k < m) /\ ~(m < k)
    BY <1>8, <2>1
  <2> QED
    BY <1>6, <2>2
<1> QED
  BY <1>7, <1>9, <1>11, Zenon DEF usable

ImportInv ==
    /\ \E s \in Scenarios : text = s.text /\ request = s.request
    /\ library = IF stage = "source" THEN <<>> ELSE Import(text, MaxNodes)

LEMMA ImportInit ==
  ASSUME Init PROVE ImportInv
  BY DEF Init, ImportInv

LEMMA ImportStep ==
  ASSUME ImportInv, [Next]_vars
  PROVE  ImportInv'
<1>1. text' = text /\ request' = request
  BY DEF Next, ImportText, StartProxy, StartTun, Refuse, Check, Launch, vars
<1>2. Import(text', MaxNodes) = Import(text, MaxNodes)
  BY <1>1
<1>3. library' = IF stage' = "source" THEN <<>> ELSE Import(text, MaxNodes)
  <2>1. CASE ImportText
    BY <2>1 DEF ImportText
  <2>2. CASE ~ImportText
    <3>1. library' = library /\ (stage' = "source" <=> stage = "source")
      BY <2>2 DEF Next, StartProxy, StartTun, Refuse, Check, Launch, vars
    <3> QED
      BY <3>1, Zenon DEF ImportInv
  <2> QED
    BY <2>1, <2>2
<1> QED
  BY <1>1, <1>2, <1>3, Zenon DEF ImportInv

LEMMA LibraryFacts ==
  ASSUME ImportInv
  PROVE  library \in Seq(Range(library))
<1>1. text.entries \in Seq(Range(text.entries))
  BY TextsAssumption, Zenon DEF ImportInv
<1>2. <<>> \in Seq(Range(<<>>))
  OBVIOUS
<1>3. Import(text, MaxNodes) \in Seq(Range(Import(text, MaxNodes)))
  BY <1>1, ImportFacts, Zenon
<1> QED
  BY <1>2, <1>3, Zenon DEF ImportInv

RoutingInv ==
    /\ stage \notin {"source", "library", "refused"} => Routed(sealed, request)
    /\ stage = "running" => Routed(launched, request)

LEMMA RequestFacts ==
  ASSUME ImportInv
  PROVE  /\ {"policy", "mode"} \subseteq DOMAIN request
         /\ RequestOK(request)
         /\ \A a \in Range(request.policy.apps) :
                a.by \in {"path", "name"} /\ a.action \in {"direct", "vpn"}
         /\ \A t \in Range(request.mode.rules) : t.action \in {"block", "direct", "vpn"}
<1>1. PICK s \in Scenarios : request = s.request
  BY DEF ImportInv
<1>2. /\ {"policy", "mode"} \subseteq DOMAIN s.request
      /\ RequestOK(s.request)
      /\ \A a \in Range(s.request.policy.apps) :
                a.by \in {"path", "name"} /\ a.action \in {"direct", "vpn"}
      /\ \A t \in Range(s.request.mode.rules) : t.action \in {"block", "direct", "vpn"}
  BY RequestsAssumption, Zenon DEF RequestOK
<1> QED
  BY <1>1, <1>2, Zenon

\* A session the application refuses has no configuration; what the helper starts
\* differs from what was sealed in the exit it begins with.
LEMMA RestartRoutes ==
  ASSUME NEW config, NEW r, Routed(config, r), NEW index, RestartTarget(config, index) # NoConfig
  PROVE  Routed(RestartTarget(config, index), r)
<1>1. CASE index = 0
  BY <1>1, Zenon DEF RestartTarget
<1>2. CASE index # 0
  <2> DEFINE other == RestartTarget(config, index)
  <2>1. other = [config EXCEPT !.outbounds[1] = ("default" :> NodeTag(index + 1)) @@ @]
    BY <1>2, Zenon DEF RestartTarget
  <2>2. DOMAIN other = DOMAIN config
    BY <2>1
  <2>3. other.route = config.route
    BY <2>1
  <2> HIDE DEF other
  <2> QED
    BY <2>2, <2>3, Zenon DEF Routed, Switches, other
<1> QED
  BY <1>1, <1>2

LEMMA RoutingInit ==
  ASSUME Init PROVE RoutingInv
  BY DEF Init, RoutingInv

LEMMA RoutingStep ==
  ASSUME ImportInv, RoutingInv, [Next]_vars
  PROVE  RoutingInv'
<1>0. request' = request
  BY DEF Next, ImportText, StartProxy, StartTun, Refuse, Check, Launch, vars
<1>1. CASE ImportText
  BY <1>0, <1>1, Zenon DEF ImportText, RoutingInv
<1>2. CASE StartProxy
  <2>1. PICK i \in DOMAIN library, approval \in {NoApproval} \cup {Approval(n) : n \in Range(library)} :
            LET r == RequestFor(i, approval)
                config == ExitConfig(r, library[i], BridgePort(1))
            IN  IF config = NoConfig THEN Refuse
                ELSE /\ stage' = "generated" /\ sealed' = config /\ UNCHANGED launched
    BY <1>2, Zenon DEF StartProxy
  <2> DEFINE config == ExitConfig(RequestFor(i, approval), library[i], BridgePort(1))
  <2>2. CASE config = NoConfig
    <3>1. stage' = "refused"
      BY <2>1, <2>2, Zenon DEF Refuse
    <3> QED
      BY <1>0, <3>1, Zenon DEF RoutingInv
  <2>3. CASE config # NoConfig
    <3>1. stage' = "generated" /\ sealed' = config
      BY <2>1, <2>3, Zenon
    <3>2. RoutesAs(config, request)
      BY <2>3, RequestFacts, ExitRoutes
    <3>3. request.mode.kind # "tun"
      BY <1>2, Zenon DEF StartProxy
    <3>4. Routed(config, request)
      BY <3>2, <3>3, Zenon DEF RoutesAs, Routed
    <3> QED
      BY <1>0, <3>1, <3>4, Zenon DEF RoutingInv
  <2> QED
    BY <2>2, <2>3
<1>3. CASE StartTun
  <2>1. PICK i \in DOMAIN library, approval \in {NoApproval} \cup {Approval(n) : n \in Range(library)} :
            LET r == RequestFor(i, approval)
                usable == Exits(r, library, i)
            IN  IF usable = <<>> \/ usable[1].server # i \/ Len(usable) > MaxSwitchNodes THEN Refuse
                ELSE /\ stage' = "generated"
                     /\ sealed' = SwitchConfig(r, usable, [port |-> 4, secret |-> "ok"], 5)
    BY <1>3, Zenon DEF StartTun
  <2> DEFINE r == RequestFor(i, approval)
             usable == Exits(r, library, i)
             configs == [k \in DOMAIN usable |-> usable[k].config]
  <2>2. CASE usable = <<>> \/ usable[1].server # i \/ Len(usable) > MaxSwitchNodes
    <3>1. stage' = "refused"
      BY <2>1, <2>2, Zenon DEF Refuse
    <3> QED
      BY <1>0, <3>1, Zenon DEF RoutingInv
  <2>3. CASE ~(usable = <<>> \/ usable[1].server # i \/ Len(usable) > MaxSwitchNodes)
    <3>1. stage' = "generated" /\ sealed' = SwitchConfig(r, usable, [port |-> 4, secret |-> "ok"], 5)
      BY <2>1, <2>3, Zenon
    <3>2. RoutesAs(configs[1], request)
      <4>1. /\ 1 \in DOMAIN usable /\ usable[1].config # NoConfig
            /\ \E n, port : usable[1].config = ExitConfig(r, n, port)
        <5>1. usable \in Seq(Range(usable)) /\ usable # <<>>
          BY <2>3, LibraryFacts, ExitsFacts
        <5>2. 1 \in DOMAIN usable
          <6> HIDE DEF usable
          <6> QED
            BY <5>1
        <5>3. PICK k, j \in DOMAIN library :
                usable[1] = Exit(r, library, k, BridgePort(j)) /\ usable[1].config # NoConfig
          BY <5>2, LibraryFacts, ExitsFacts, Zenon
        <5>4. usable[1].config = ExitConfig(r, library[k], BridgePort(j))
          BY <5>3 DEF Exit
        <5> QED
          BY <5>2, <5>3, <5>4, Zenon
      <4>2. configs[1] = usable[1].config
        BY <4>1
      <4> QED
        BY <4>1, <4>2, RequestFacts, ExitRoutes
    <3>3. request.mode.kind = "tun"
      BY <1>3, Zenon DEF StartTun
    <3>4. sealed' = CombineConfigs(configs, [port |-> 4, secret |-> "ok"], 5, r.upstream.alias)
      BY <3>1, Zenon DEF SwitchConfig
    <3>5. Routed(sealed', request)
      BY <3>2, <3>3, <3>4, CombinedRoutes, Zenon
    <3> QED
      BY <1>0, <3>1, <3>5, Zenon DEF RoutingInv
  <2> QED
    BY <2>2, <2>3
<1>4. CASE Check
  <2>1. stage = "generated" /\ stage' # "running" /\ sealed' = sealed
    BY <1>4 DEF Check
  <2> QED
    BY <1>0, <2>1, Zenon DEF RoutingInv
<1>5. CASE Launch
  <2>1. PICK index \in 0..Len(exits) : launched' = RestartTarget(sealed, index) /\ launched' # NoConfig
    BY <1>5 DEF Launch
  <2>2. stage = "accepted" /\ stage' = "running" /\ sealed' = sealed
    BY <1>5 DEF Launch
  <2>3. Routed(sealed, request)
    BY <2>2, Zenon DEF RoutingInv
  <2>4. Routed(launched', request)
    BY <2>1, <2>3, RestartRoutes, Zenon
  <2> QED
    BY <1>0, <2>2, <2>3, <2>4, Zenon DEF RoutingInv
<1>6. CASE UNCHANGED vars
  BY <1>6, Zenon DEF vars, RoutingInv
<1> QED
  BY <1>1, <1>2, <1>3, <1>4, <1>5, <1>6 DEF Next

-----------------------------------------------------------------------------
(* Where the traffic of a running session goes *)

LEMMA LaterType ==
  ASSUME NEW r, NEW prefixes, RequestOK(r)
  PROVE  LaterRules(r, prefixes) \in Seq(RuleSetOf(r, prefixes))
<1> DEFINE R == RuleSetOf(r, prefixes)
           a == TunRules(r, prefixes)
           b == SixRules(r)
           d == RowRules(r)
           e == AppsOf(r, "path")
           f == AppsOf(r, "name")
           g == LanRules(r)
<1>1. a \in Seq(R) /\ b \in Seq(R) /\ d \in Seq(R) /\ e \in Seq(R) /\ f \in Seq(R) /\ g \in Seq(R)
  BY PartsType
<1>2. LaterRules(r, prefixes) = a \o b \o d \o (e \o f) \o g
  BY LaterAre, Zenon
<1> HIDE DEF R, a, b, d, e, f, g
<1>3. \A s, t \in Seq(R) : s \o t \in Seq(R)
  BY ConcatProperties, Zenon
<1>4. a \o b \in Seq(R) /\ a \o b \o d \in Seq(R) /\ e \o f \in Seq(R)
  BY <1>1, <1>3, Zenon
<1>5. a \o b \o d \o (e \o f) \o g \in Seq(R)
  BY <1>1, <1>3, <1>4, Zenon
<1> QED
  BY <1>2, <1>5, Zenon DEF R

\* A probe takes the rule made for it; every other connection goes where it should.
LEMMA Decided ==
  ASSUME NEW r, RequestOK(r), NEW config, Routed(config, r), NEW c, c.network \in {"tcp", "udp"}
  PROVE  Decide(config, c) =
            IF c.inbound = "health-in" THEN "selected"
            ELSE IF r.mode.kind = "tun" /\ c.inbound = "candidate-in" THEN "candidate"
            ELSE Destination(r, OutboundOf(r.policy.default), c)
<1> DEFINE prefixes == OwnPrefixes(r)
           R == RuleSetOf(r, prefixes)
           later == LaterRules(r, prefixes)
           default == OutboundOf(r.policy.default)
           rules == config.route["rules"]
<1>1. Decide(config, c) = Verdict(rules, default, c)
  BY Zenon DEF Decide, Routed
<1>2. Verdict(later, default, c) = Destination(r, default, c)
  BY LaterDecide
<1>3. later \in Seq(R) /\ HealthRule \in R /\ CandidateRule \in R
  BY LaterType DEF RuleSetOf, RuleSet
<1>4. rules = IF r.mode.kind = "tun" THEN Inserted(<<HealthRule>> \o later, CandidateRule)
                                     ELSE <<HealthRule>> \o later
  BY Zenon DEF Routed, Rules
<1> HIDE DEF prefixes, R, later, default, rules
<1>5. PICK health : health = <<HealthRule>>
  OBVIOUS
<1>6. PICK two : two = <<HealthRule, CandidateRule>>
  OBVIOUS
<1>7. PICK candidate : candidate = <<CandidateRule>>
  OBVIOUS
<1>8. /\ health \in Seq(R) /\ candidate \in Seq(R) /\ two \in Seq(R) /\ two = health \o candidate
  BY <1>3, <1>5, <1>6, <1>7
<1>9. \A s, t \in Seq(R) : \A other : Verdict(s \o t, other, c) = Verdict(s, Verdict(t, other, c), c)
  BY VerdictThrough
<1>10. \A x : Verdict(health, x, c) = IF c.inbound = "health-in" THEN "selected" ELSE x
  <2>1. \A x : Verdict(health, x, c) = IF RuleMatches(HealthRule, c) THEN Effect(HealthRule) ELSE x
    BY <1>5, VerdictOfOne, Zenon
  <2> QED
    BY <2>1, MatchHealth, Effects, Zenon
<1>11. \A x : Verdict(candidate, x, c) = IF c.inbound = "candidate-in" THEN "candidate" ELSE x
  <2>1. \A x : Verdict(candidate, x, c) = IF RuleMatches(CandidateRule, c) THEN Effect(CandidateRule) ELSE x
    BY <1>7, VerdictOfOne, Zenon
  <2> QED
    BY <2>1, MatchCandidate, Effects, Zenon
<1>12. CASE r.mode.kind = "tun"
  <2>1. rules = two \o later
    <3>1. PICK whole : whole = <<HealthRule>> \o later
      OBVIOUS
    <3>2. whole \in Seq(R) /\ Len(whole) = 1 + Len(later)
          /\ \A i \in 1..(1 + Len(later)) : whole[i] = IF i <= 1 THEN health[i] ELSE later[i - 1]
      <4>1. Len(health) = 1 /\ health \in Seq(R)
        BY <1>5, <1>8
      <4>2. /\ health \o later \in Seq(R) /\ Len(health \o later) = Len(health) + Len(later)
            /\ \A i \in 1..(Len(health) + Len(later)) :
                (health \o later)[i] = IF i <= Len(health) THEN health[i] ELSE later[i - Len(health)]
        BY <1>3, <1>8, ConcatProperties
      <4>3. whole = health \o later
        BY <1>5, <3>1, Zenon
      <4> QED
        BY <4>1, <4>2, <4>3, Zenon
    <3>3. Head(whole) = HealthRule
      BY <1>3, <1>5, <3>2
    <3>4. Tail(whole) = later
      <4>1. Tail(whole) \in Seq(R) /\ Len(Tail(whole)) = Len(later)
            /\ \A i \in 1..Len(later) : Tail(whole)[i] = later[i]
        BY <1>3, <3>2
      <4> QED
        BY <1>3, <4>1, SeqEqual
    <3>5. Inserted(whole, CandidateRule) = two \o later
      BY <1>6, <3>3, <3>4, Zenon DEF Inserted
    <3> QED
      BY <1>4, <1>12, <3>1, <3>5, Zenon
  <2>2. Verdict(rules, default, c) = Verdict(two, Verdict(later, default, c), c)
    BY <1>3, <1>8, <1>9, <2>1, Zenon
  <2>3. \A x : Verdict(two, x, c) = Verdict(health, Verdict(candidate, x, c), c)
    BY <1>8, <1>9, Zenon
  <2> QED
    BY <1>1, <1>2, <1>10, <1>11, <1>12, <2>2, <2>3, ZenonT(60) DEF default
<1>13. CASE r.mode.kind # "tun"
  <2>1. rules = health \o later
    BY <1>4, <1>5, <1>13, Zenon
  <2>2. Verdict(rules, default, c) = Verdict(health, Verdict(later, default, c), c)
    BY <1>3, <1>8, <1>9, <2>1, ZenonT(60)
  <2> QED
    BY <1>1, <1>2, <1>10, <1>13, <2>2, Zenon DEF default
<1> QED
  BY <1>12, <1>13

LEMMA RowsFacts ==
  ASSUME NEW rows, rows \in Seq(Range(rows)), NEW places \in SUBSET (DOMAIN rows), places # {}
  PROVE  /\ Min(places) \in DOMAIN rows /\ rows[Min(places)] \in Range(rows)
         /\ FirstAction(rows, places) = rows[Min(places)].action
<1>1. places \in SUBSET Nat
  OBVIOUS
<1>2. Min(places) \in DOMAIN rows
  BY <1>1, Least
<1>3. rows[Min(places)] \in Range(rows)
  BY <1>2 DEF Range
<1> QED
  BY <1>2, <1>3 DEF FirstAction

\* The user's rules and applications by their first action, as the properties say it.
LEMMA ActionFacts ==
  ASSUME ImportInv, NEW c
  PROVE  LET rows == RowsFor(request.mode.rules, c)
             paths == AppsFor(request.policy.apps, "path", c)
             names == AppsFor(request.policy.apps, "name", c)
             row == request.mode.rules[Min(rows)].action
         IN  /\ FirstRule(request.mode.rules, c) = IF rows = {} THEN "none" ELSE row
             /\ rows # {} => row \in {"block", "direct", "vpn"}
             /\ AppAction("path", c) =
                    IF paths = {} THEN "none" ELSE request.policy.apps[Min(paths)].action
             /\ AppAction("name", c) =
                    IF names = {} THEN "none" ELSE request.policy.apps[Min(names)].action
             /\ AppAction("path", c) \in {"none", "direct", "vpn"}
             /\ AppAction("name", c) \in {"none", "direct", "vpn"}
             /\ paths # {} => AppAction("path", c) # "none"
             /\ names # {} => AppAction("name", c) # "none"
<1> DEFINE rules == request.mode.rules
           apps == request.policy.apps
           rows == RowsFor(rules, c)
<1>1. /\ rules \in Seq(Range(rules)) /\ apps \in Seq(Range(apps))
      /\ \A a \in Range(apps) : a.action \in {"direct", "vpn"}
      /\ \A t \in Range(rules) : t.action \in {"block", "direct", "vpn"}
  BY RequestFacts DEF RequestOK
<1>2. FirstRule(rules, c) = FirstAction(rules, rows)
  BY Zenon DEF FirstRule, RowsFor
<1>3. \A by : AppAction(by, c) = FirstAction(apps, AppsFor(apps, by, c))
  BY Zenon DEF AppAction, AppsFor
<1>4. rows \in SUBSET (DOMAIN rules) /\ \A by : AppsFor(apps, by, c) \in SUBSET (DOMAIN apps)
  BY DEF RowsFor, AppsFor
<1> HIDE DEF rules, apps, rows
<1>5. rows # {} => /\ rules[Min(rows)] \in Range(rules)
                   /\ FirstAction(rules, rows) = rules[Min(rows)].action
  BY <1>1, <1>4, RowsFacts
<1>6. \A by : AppsFor(apps, by, c) # {} =>
        /\ apps[Min(AppsFor(apps, by, c))] \in Range(apps)
        /\ FirstAction(apps, AppsFor(apps, by, c)) = apps[Min(AppsFor(apps, by, c))].action
  BY <1>1, <1>4, RowsFacts
<1>7. \A list : FirstAction(list, {}) = "none"
  BY DEF FirstAction
<1>8. rows # {} => rules[Min(rows)].action \in {"block", "direct", "vpn"}
  BY <1>1, <1>5
<1>9. ASSUME NEW by
      PROVE  /\ AppAction(by, c) = IF AppsFor(apps, by, c) = {} THEN "none"
                                   ELSE apps[Min(AppsFor(apps, by, c))].action
             /\ AppAction(by, c) \in {"none", "direct", "vpn"}
             /\ AppsFor(apps, by, c) # {} => AppAction(by, c) # "none"
  <2>1. CASE AppsFor(apps, by, c) = {}
    BY <1>3, <1>7, <2>1, Zenon
  <2>2. CASE AppsFor(apps, by, c) # {}
    <3>1. AppAction(by, c) = apps[Min(AppsFor(apps, by, c))].action
      BY <1>3, <1>6, <2>2, Zenon
    <3>2. AppAction(by, c) \in {"direct", "vpn"}
      BY <1>1, <1>6, <2>2, <3>1
    <3> QED
      BY <2>2, <3>1, <3>2
  <2> QED
    BY <2>1, <2>2, Zenon
<1>10. FirstRule(rules, c) = IF rows = {} THEN "none" ELSE rules[Min(rows)].action
  BY <1>2, <1>5, <1>7, Zenon
<1> QED
  BY <1>8, <1>9, <1>10, Zenon DEF rules, apps, rows

LEMMA TrafficGoes ==
  ASSUME ImportInv, NEW config, Routed(config, request)
  PROVE  /\ ProbesStay(config) /\ NothingForbiddenLeaves(config)
         /\ ApplicationsGoWhereSaid(config)
<1> DEFINE default == OutboundOf(request.policy.default)
<1>0. RequestOK(request)
  BY RequestFacts
<1>1. \A c \in Connections : c.network \in {"tcp", "udp"}
  BY ConnectionsAssumption
<1>2. \A c \in Connections : Decide(config, c) =
            IF c.inbound = "health-in" THEN "selected"
            ELSE IF request.mode.kind = "tun" /\ c.inbound = "candidate-in" THEN "candidate"
            ELSE Destination(request, default, c)
  BY <1>0, <1>1, Decided
<1>3. ProbesStay(config)
  BY <1>2, Zenon DEF ProbesStay, Routed
<1>4. \A c \in UserTraffic : /\ c \in Connections
                              /\ Decide(config, c) = Destination(request, default, c)
  BY <1>2 DEF UserTraffic
<1>5. /\ ~Leaves("reject") /\ ~Leaves("hijack-dns")
      /\ \A action : OutboundOf(action) \in {"direct", "selected"}
  BY DEF Leaves, OutboundOf
<1>6. ASSUME NEW c \in UserTraffic
      PROVE  /\ ~request.policy.ipv6 /\ c.ipv6 => ~Leaves(Decide(config, c))
             /\ request.mode.kind = "tun" /\ c.inbound = "tun-in" =>
                /\ c.own \/ c.port = 53 => ~Leaves(Decide(config, c))
                /\ FirstRule(request.mode.rules, c) = "block" => ~Leaves(Decide(config, c))
  <2> DEFINE rows == RowsFor(request.mode.rules, c)
             row == request.mode.rules[Min(rows)].action
  <2>1. FirstRule(request.mode.rules, c) = IF rows = {} THEN "none" ELSE row
    BY ActionFacts
  <2> DEFINE d == Destination(request, default, c)
  <2>2. Decide(config, c) = d
    BY <1>4
  <2>3. ASSUME ~request.policy.ipv6, c.ipv6 PROVE d \in {"reject", "hijack-dns"}
    BY <2>3 DEF Destination
  <2>4. ASSUME request.mode.kind = "tun", c.inbound = "tun-in", c.own \/ c.port = 53
        PROVE  d \in {"reject", "hijack-dns"}
    BY <2>4 DEF Destination
  <2>5. ASSUME request.mode.kind = "tun", c.inbound = "tun-in", rows # {}, row = "block"
        PROVE  d \in {"reject", "hijack-dns"}
    BY <2>5 DEF Destination
  <2> HIDE DEF d, rows, row
  <2>6. d \in {"reject", "hijack-dns"} => ~Leaves(d)
    BY <1>5
  <2> QED
    BY <2>1, <2>2, <2>3, <2>4, <2>5, <2>6
<1>7. NothingForbiddenLeaves(config)
  BY <1>6, Zenon DEF NothingForbiddenLeaves
<1>8. ASSUME NEW c \in UserTraffic, Leaves(Decide(config, c)),
             \/ request.mode.kind # "tun" \/ c.inbound # "tun-in"
             \/ FirstRule(request.mode.rules, c) = "none"
      PROVE  LET byPath == AppAction("path", c)
                 byName == AppAction("name", c)
             IN Decide(config, c) =
                OutboundOf(CASE byPath # "none" -> byPath
                             [] byPath = "none" /\ byName # "none" -> byName
                             [] byPath = "none" /\ byName = "none" ->
                                    IF c.private /\ request.policy.lan = "direct" THEN "direct"
                                    ELSE request.policy.default)
  <2> DEFINE d == Decide(config, c)
  <2>1. d = Destination(request, default, c) /\ Leaves(d)
    BY <1>4, <1>8
  <2> DEFINE rows == RowsFor(request.mode.rules, c)
             row == request.mode.rules[Min(rows)].action
             paths == AppsFor(request.policy.apps, "path", c)
             names == AppsFor(request.policy.apps, "name", c)
             byPath == AppAction("path", c)
             byName == AppAction("name", c)
             tunnelled == request.mode.kind = "tun" /\ c.inbound = "tun-in"
  <2>2. /\ FirstRule(request.mode.rules, c) = IF rows = {} THEN "none" ELSE row
        /\ rows # {} => row \in {"block", "direct", "vpn"}
        /\ byPath = IF paths = {} THEN "none" ELSE request.policy.apps[Min(paths)].action
        /\ byName = IF names = {} THEN "none" ELSE request.policy.apps[Min(names)].action
        /\ paths # {} => byPath # "none"
        /\ names # {} => byName # "none"
    BY ActionFacts
  <2>3. d # "hijack-dns" /\ d # "reject"
    BY <1>5, <2>1, Zenon
  <2>4. ~(tunnelled /\ rows # {})
    BY <1>8, <2>2
  <2>5. d = IF paths # {} THEN OutboundOf(request.policy.apps[Min(paths)].action)
            ELSE IF names # {} THEN OutboundOf(request.policy.apps[Min(names)].action)
            ELSE IF request.policy.lan = "direct" /\ c.private THEN "direct" ELSE default
    <3>1. ~(tunnelled /\ c.port = 53)
      BY <2>1, <2>3, Zenon DEF Destination
    <3>2. ~((tunnelled /\ c.own) \/ (~request.policy.ipv6 /\ c.ipv6))
      BY <2>1, <2>3, <3>1, Zenon DEF Destination
    <3> QED
      BY <2>1, <2>4, <3>1, <3>2, Zenon DEF Destination
  <2>6. OutboundOf("direct") = "direct"
    BY DEF OutboundOf
  <2> HIDE DEF d, rows, row, paths, names, byPath, byName
  <2>7. CASE paths # {}
    BY <2>2, <2>5, <2>7 DEF d, byPath, byName
  <2>8. CASE paths = {} /\ names # {}
    BY <2>2, <2>5, <2>8 DEF d, byPath, byName
  <2>9. CASE paths = {} /\ names = {}
    <3>1. byPath = "none" /\ byName = "none"
      BY <2>2, <2>9
    <3>2. d = OutboundOf(IF c.private /\ request.policy.lan = "direct" THEN "direct"
                         ELSE request.policy.default)
      BY <2>5, <2>6, <2>9
    <3> QED
      BY <3>1, <3>2 DEF d, byPath, byName
  <2> QED
    BY <2>7, <2>8, <2>9
<1>9. ApplicationsGoWhereSaid(config)
  BY <1>8, Zenon DEF ApplicationsGoWhereSaid
<1> QED
  BY <1>3, <1>7, <1>9

\* The engine of a session sends every connection where the user's routing says.
THEOREM TrafficTheorem == Spec => []TrafficFollowsPolicy
<1>1. Init => ImportInv /\ RoutingInv
  BY ImportInit, RoutingInit
<1>2. ImportInv /\ RoutingInv /\ [Next]_vars => (ImportInv /\ RoutingInv)'
  <2> SUFFICES ASSUME ImportInv, RoutingInv, [Next]_vars PROVE ImportInv' /\ RoutingInv'
    OBVIOUS
  <2> QED
    BY ImportStep, RoutingStep
<1>3. ImportInv /\ RoutingInv => TrafficFollowsPolicy
  <2> SUFFICES ASSUME ImportInv, RoutingInv, stage = "running"
               PROVE  /\ ProbesStay(launched) /\ NothingForbiddenLeaves(launched)
                      /\ ApplicationsGoWhereSaid(launched)
    BY DEF TrafficFollowsPolicy
  <2>1. Routed(launched, request)
    BY DEF RoutingInv
  <2> QED
    BY <2>1, TrafficGoes
<1> QED
  BY <1>1, <1>2, <1>3, PTL DEF Spec

-----------------------------------------------------------------------------
(* What the source of a server asked for is in its node *)

NodeSecurity(n) ==
    [tls |-> n.tls.enabled,
     reality |-> IF n.tls.reality = "" THEN "" ELSE n.tls.sid,
     insecure |-> n.tls.insecure,
     pins |-> n.tls.pins # "",
     ech |-> n.tls.ech # "",
     obfs |-> n.obfs # "",
     vision |-> n.flow # ""]

LEMMA Created ==
  ASSUME NEW n, Create(n) # Rejected
  PROVE  Create(n) = n /\ ProtocolValid(n)
  BY Zenon DEF Create

\* What the source asked for, one thing at a time.
SameSecurity(n, format, e) ==
    /\ n.tls.enabled \in BOOLEAN /\ n.tls.insecure \in BOOLEAN
    /\ n.tls.enabled <=> Asked(format, e).tls
    /\ (IF n.tls.reality = "" THEN "" ELSE n.tls.sid) = Asked(format, e).reality
    /\ n.tls.insecure <=> Asked(format, e).insecure
    /\ (n.tls.pins # "") <=> Asked(format, e).pins
    /\ (n.tls.ech # "") <=> Asked(format, e).ech
    /\ (n.obfs # "") <=> Asked(format, e).obfs
    /\ (n.flow # "") <=> Asked(format, e).vision

LEMMA SecurityKept ==
  ASSUME NEW n, NEW format \in {"link", "json", "clash"}, NEW e, SameSecurity(n, format, e)
  PROVE  NodeSecurity(n) = Asked(format, e)
<1>1. PICK a : a = Asked(format, e)
  OBVIOUS
<1>2. a = [tls |-> a.tls, reality |-> a.reality, insecure |-> a.insecure, pins |-> a.pins,
           ech |-> a.ech, obfs |-> a.obfs, vision |-> a.vision]
  BY <1>1, Zenon DEF Asked
<1>4. a.tls \in BOOLEAN
  BY <1>1 DEF Asked, Enabled, IsTrue
<1>5. /\ a.insecure \in BOOLEAN /\ a.pins \in BOOLEAN
      /\ a.ech \in BOOLEAN /\ a.obfs \in BOOLEAN /\ a.vision \in BOOLEAN
  BY <1>1 DEF Asked, Given, IsTrue, EchEnabled, Enabled
<1>3. /\ n.tls.enabled = a.tls /\ n.tls.insecure = a.insecure
      /\ (n.tls.pins # "") = a.pins /\ (n.tls.ech # "") = a.ech
      /\ (n.obfs # "") = a.obfs /\ (n.flow # "") = a.vision
      /\ (IF n.tls.reality = "" THEN "" ELSE n.tls.sid) = a.reality
  BY <1>1, <1>4, <1>5 DEF SameSecurity
<1> QED
  BY <1>1, <1>2, <1>3, Zenon DEF NodeSecurity

LEMMA VlessUrlTold ==
  ASSUME NEW e, e.type = "vless", WellFormed(e.q), VlessUrl(e.q) # Rejected
  PROVE  NodeSecurity(VlessUrl(e.q)) = Asked("link", e)
<1> DEFINE q == e.q
           n == [AnyNode EXCEPT
            !.server = q["host"], !.port = q["port"], !.name = DisplayName(q),
            !.flow = Filled(q, "flow"), !.packet = Filled(q, "packetEncoding"),
            !.transport = TransportOf(q), !.tls = SecurityOf(q)]
<1>1. VlessUrl(q) = Create(n) /\ LinkFits(q, VlessQuery) /\ SecurityFits(q)
  BY Zenon DEF VlessUrl
<1>2. VlessUrl(q) = n
  BY <1>1, Created
<1>3. n.tls = SecurityOf(q) /\ n.flow = Filled(q, "flow") /\ n.obfs = ""
  BY DEF AnyNode
<1> HIDE DEF n
<1>4. DOMAIN q \subseteq AuthorityKeys \cup VlessQuery
  BY <1>1 DEF LinkFits
<1>5. /\ "reality-opts" \notin DOMAIN q /\ "tls.reality" \notin DOMAIN q /\ "tls.insecure" \notin DOMAIN q
      /\ "skip-cert-verify" \notin DOMAIN q /\ "tls.certificate_public_key_sha256" \notin DOMAIN q
      /\ "pinSHA256" \notin DOMAIN q /\ "ech" \notin DOMAIN q /\ "tls.ech" \notin DOMAIN q
      /\ "obfs" \notin DOMAIN q /\ "reality-opts.short-id" \notin DOMAIN q
      /\ "tls.reality.short_id" \notin DOMAIN q
  BY <1>4 DEF AuthorityKeys, VlessQuery
<1> DEFINE s == SecurityOf(q)
           a == Asked("link", e)
<1>6. /\ s.enabled <=> Security(q) # "none"
      /\ s.insecure <=> Security(q) # "none" /\ IsTrue(q, "insecure")
      /\ s.pins = "" /\ s.ech = ""
  BY <1>5 DEF SecurityOf, TlsFromQuery, TlsOn, TlsOff, Filled, Field
<1>7. /\ a.tls <=> Security(q) # "none"
      /\ a.insecure <=> Security(q) # "none" /\ IsTrue(q, "insecure")
      /\ ~a.pins /\ ~a.ech /\ ~a.obfs
      /\ a.vision <=> Filled(q, "flow") # ""
  BY <1>5 DEF Asked, IsTrue, Field, Filled, Given, EchEnabled, Enabled
<1>8. a.reality = IF Given(q, {"pbk", "sid", "spx"}) THEN Field(q, "sid", "empty") ELSE ""
  BY <1>5 DEF Asked, Field, Given, RealityEnabled, Enabled
<1>9. /\ s.enabled \in BOOLEAN /\ s.insecure \in BOOLEAN
      /\ (IF s.reality = "" THEN "" ELSE s.sid) =
            IF Given(q, {"pbk", "sid", "spx"}) THEN Field(q, "sid", "empty") ELSE ""
  <2>1. CASE Security(q) = "reality"
    <3>1. "pbk" \in DOMAIN q /\ q["pbk"] # ""
      BY <1>1, <2>1 DEF SecurityFits, Filled, Field, WellFormed
    <3>2. s.reality = q["pbk"] /\ s.sid = Field(q, "sid", "empty") /\ s.enabled = TRUE
          /\ s.insecure = IsTrue(q, "insecure")
      BY <2>1 DEF SecurityOf, TlsFromQuery, TlsOn, TlsOff
    <3> QED
      BY <3>1, <3>2 DEF Given, IsTrue
  <2>2. CASE Security(q) # "reality"
    <3>1. ~Given(q, {"pbk", "sid", "spx"})
      BY <1>1, <2>2 DEF SecurityFits, Given
    <3>2. s.reality = "" /\ s.enabled \in BOOLEAN /\ s.insecure \in BOOLEAN
      BY <1>1, <2>2 DEF SecurityFits, SecurityOf, TlsFromQuery, TlsOn, TlsOff, IsTrue
    <3> QED
      BY <3>1, <3>2
  <2> QED
    BY <2>1, <2>2
<1> HIDE DEF s, a
<1>10. n.tls = s
  BY <1>3 DEF s
<1>11. SameSecurity(n, "link", e)
  BY <1>3, <1>6, <1>7, <1>8, <1>9, <1>10 DEF SameSecurity, a
<1> QED
  BY <1>2, <1>11, SecurityKept

LEMMA HysteriaUrlKeeps ==
  ASSUME NEW e, e.type = "hysteria2", WellFormed(e.q), HysteriaUrl(e.q) # Rejected
  PROVE  NodeSecurity(HysteriaUrl(e.q)) = Asked("link", e)
<1> DEFINE q == e.q
           n == [AnyNode EXCEPT
            !.kind = "hysteria2", !.server = q["host"], !.name = DisplayName(q),
            !.port = IF "ports" \in DOMAIN q THEN "" ELSE Field(q, "port", "ok"),
            !.ports = Field(q, "ports", ""),
            !.user = IF "bad" \in {Field(q, "user", "ok"), Field(q, "pass", "ok")}
                     THEN "bad" ELSE "ok",
            !.obfs = Filled(q, "obfs-password"),
            !.tls = [TlsFromQuery(q) EXCEPT !.utls = ""]]
           s == [TlsFromQuery(q) EXCEPT !.utls = ""]
           a == Asked("link", e)
<1>1. /\ HysteriaUrl(q) = Create(n) /\ LinkFits(q, HysteriaQuery)
      /\ ~Given(q, {"pinSHA256", "ech"})
      /\ Filled(q, "obfs") # "" => Filled(q, "obfs-password") # ""
      /\ "obfs-password" \in DOMAIN q => Filled(q, "obfs") # ""
  BY Zenon DEF HysteriaUrl
<1>2. HysteriaUrl(q) = n
  <2> HIDE DEF n
  <2> QED
    BY <1>1, Created
<1>3. n.tls = s /\ n.flow = "" /\ n.obfs = Filled(q, "obfs-password")
  BY DEF AnyNode
<1> HIDE DEF n
<1>4. DOMAIN q \subseteq AuthorityKeys \cup HysteriaQuery
  BY <1>1 DEF LinkFits
<1>5. /\ {"reality-opts", "tls.reality", "tls.insecure", "skip-cert-verify", "pbk", "sid", "spx",
          "tls.certificate_public_key_sha256", "tls.ech", "flow"} \cap DOMAIN q = {}
      /\ "pinSHA256" \notin DOMAIN q /\ "ech" \notin DOMAIN q
  BY <1>1, <1>4 DEF AuthorityKeys, HysteriaQuery, Given
<1>6. /\ s.enabled = TRUE /\ s.insecure = IsTrue(q, "insecure")
      /\ s.pins = "" /\ s.ech = "" /\ s.reality = ""
  BY <1>5 DEF TlsFromQuery, TlsOn, TlsOff, Filled, Field
<1>7. /\ a.tls /\ a.reality = ""
      /\ a.insecure <=> IsTrue(q, "insecure")
      /\ ~a.pins /\ ~a.ech /\ ~a.vision
      /\ a.obfs <=> Filled(q, "obfs") # ""
  BY <1>5 DEF Asked, IsTrue, Field, Filled, Given, EchEnabled, RealityEnabled, Enabled
<1>8. n.obfs # "" <=> Filled(q, "obfs") # ""
  BY <1>1, <1>3 DEF Filled, Field
<1> HIDE DEF s, a
<1>9. SameSecurity(n, "link", e)
  BY <1>3, <1>6, <1>7, <1>8 DEF SameSecurity, a, IsTrue
<1> QED
  BY <1>2, <1>9, SecurityKept

LEMMA NaiveUrlKeeps ==
  ASSUME NEW e, e.type = "naive", WellFormed(e.q), NaiveUrl(e.q) # Rejected
  PROVE  NodeSecurity(NaiveUrl(e.q)) = Asked("link", e)
<1> DEFINE q == e.q
           n == [AnyNode EXCEPT
            !.kind = "naive", !.server = q["host"], !.port = Field(q, "port", "ok"),
            !.name = DisplayName(q), !.user = Field(q, "user", "ok"),
            !.pass = Field(q, "pass", ""),
            !.quic = Field(q, "scheme", "https") = "quic",
            !.headers = Field(q, "extra-headers", ""), !.tls = [TlsOn EXCEPT !.sni = q["host"]]]
           s == [TlsOn EXCEPT !.sni = q["host"]]
           a == Asked("link", e)
<1>1. NaiveUrl(q) = Create(n) /\ LinkFits(q, NaiveQuery)
  BY Zenon DEF NaiveUrl
<1>2. NaiveUrl(q) = n
  BY <1>1, Created
<1>3. n.tls = s /\ n.flow = "" /\ n.obfs = ""
  BY DEF AnyNode
<1> HIDE DEF n
<1>4. DOMAIN q \subseteq AuthorityKeys \cup NaiveQuery
  BY <1>1 DEF LinkFits
<1>5. {"reality-opts", "tls.reality", "tls.insecure", "skip-cert-verify", "pbk", "sid", "spx",
       "insecure", "tls.certificate_public_key_sha256", "tls.ech", "flow", "obfs", "ech",
       "pinSHA256"} \cap DOMAIN q = {}
  BY <1>4 DEF AuthorityKeys, NaiveQuery
<1>6. s.enabled = TRUE /\ s.insecure = FALSE /\ s.pins = "" /\ s.ech = "" /\ s.reality = ""
  BY DEF TlsOn, TlsOff
<1>7. /\ a.tls /\ a.reality = ""
      /\ ~a.insecure /\ ~a.pins /\ ~a.ech /\ ~a.vision /\ ~a.obfs
  BY <1>5 DEF Asked, IsTrue, Field, Filled, Given, EchEnabled, RealityEnabled, Enabled
<1> HIDE DEF s, a
<1>9. SameSecurity(n, "link", e)
  BY <1>3, <1>6, <1>7 DEF SameSecurity, a
<1> QED
  BY <1>2, <1>9, SecurityKept

\* What the TLS object of a sing-box outbound asks for is what the node has.
LEMMA JsonTlsKeeps ==
  ASSUME NEW q, WellFormed(q), NEW allow_reality, NEW required,
         JsonTlsFits(q, allow_reality, required)
  PROVE  LET t == JsonTlsOf(q)
         IN  /\ t.enabled \in BOOLEAN /\ t.insecure \in BOOLEAN
             /\ t.enabled <=> Enabled(q, "tls", "tls.enabled")
             /\ (IF t.reality = "" THEN "" ELSE t.sid) =
                    IF RealityEnabled(q) THEN Field(q, "tls.reality.short_id", "empty") ELSE ""
             /\ t.insecure <=> Enabled(q, "tls", "tls.enabled") /\ IsTrue(q, "tls.insecure")
             /\ t.pins # "" <=> "tls.certificate_public_key_sha256" \in DOMAIN q
             /\ t.ech # "" <=> EchEnabled(q) /\ "tls.ech.config" \in DOMAIN q
             /\ required => t.enabled
             /\ ~allow_reality => "tls.reality" \notin DOMAIN q
<1> DEFINE t == JsonTlsOf(q)
<1>1. /\ t.enabled \/ t = TlsOff
      /\ RealityEnabled(q) => Required(q, "tls.reality.public_key") /\ "tls.reality.short_id" \in DOMAIN q
      /\ required => t.enabled
      /\ ~allow_reality => "tls.reality" \notin DOMAIN q
  BY DEF JsonTlsFits, TlsValid
<1>2. \A k \in DOMAIN q : q[k] # ""
  BY DEF WellFormed
<1>3. CASE "tls" \notin DOMAIN q
  <2>1. t = TlsOff
    BY <1>3 DEF JsonTlsOf
  <2>2. /\ "tls.certificate_public_key_sha256" \notin DOMAIN q /\ "tls.reality" \notin DOMAIN q
        /\ "tls.ech" \notin DOMAIN q
    <3>1. DOMAIN q \cap (JsonTlsKeys \ {"tls"}) = {}
      BY <1>3 DEF WellFormed, Within, Given, Field
    <3>2. {"tls.certificate_public_key_sha256", "tls.reality", "tls.ech"} \subseteq JsonTlsKeys \ {"tls"}
      BY DEF JsonTlsKeys
    <3> QED
      BY <3>1, <3>2
  <2> HIDE DEF t
  <2>3. /\ t.enabled = FALSE /\ t.insecure = FALSE /\ t.reality = "" /\ t.pins = "" /\ t.ech = ""
    BY <2>1 DEF TlsOff
  <2>4. /\ ~Enabled(q, "tls", "tls.enabled") /\ ~RealityEnabled(q) /\ ~EchEnabled(q)
    BY <1>3, <2>2 DEF Enabled, RealityEnabled, EchEnabled
  <2> QED
    BY <1>1, <2>2, <2>3, <2>4 DEF t
<1>4. CASE "tls" \in DOMAIN q
  <2>1. /\ t.enabled = (Field(q, "tls.enabled", "true") = "true")
        /\ t.insecure = IsTrue(q, "tls.insecure")
        /\ t.pins = Field(q, "tls.certificate_public_key_sha256", "")
        /\ t.reality = IF RealityEnabled(q) THEN q["tls.reality.public_key"] ELSE ""
        /\ t.sid = IF RealityEnabled(q) THEN q["tls.reality.short_id"] ELSE ""
        /\ t.ech = IF EchEnabled(q) THEN Field(q, "tls.ech.config", "") ELSE ""
    BY <1>4 DEF JsonTlsOf
  <2>2. RealityEnabled(q) => /\ t.reality # ""
                             /\ t.sid = Field(q, "tls.reality.short_id", "empty")
    BY <1>1, <1>2, <2>1 DEF Required, Filled, Field
  <2>3. TlsOff.insecure = FALSE
    BY DEF TlsOff
  <2> HIDE DEF t
  <2>4. /\ t.enabled \in BOOLEAN /\ t.insecure \in BOOLEAN
        /\ t.enabled <=> Enabled(q, "tls", "tls.enabled")
    BY <1>4, <2>1 DEF Enabled, IsTrue
  <2>5. (IF t.reality = "" THEN "" ELSE t.sid) =
                    IF RealityEnabled(q) THEN Field(q, "tls.reality.short_id", "empty") ELSE ""
    BY <2>1, <2>2
  <2>6. t.insecure <=> Enabled(q, "tls", "tls.enabled") /\ IsTrue(q, "tls.insecure")
    <3>1. t.insecure => t.enabled
      BY <1>1, <2>3 DEF t
    <3> QED
      BY <2>1, <2>4, <3>1 DEF IsTrue
  <2>7. t.pins # "" <=> "tls.certificate_public_key_sha256" \in DOMAIN q
    BY <1>2, <2>1 DEF Field
  <2>8. t.ech # "" <=> EchEnabled(q) /\ "tls.ech.config" \in DOMAIN q
    BY <1>2, <2>1 DEF Field
  <2> QED
    BY <1>1, <2>4, <2>5, <2>6, <2>7, <2>8 DEF t
<1> QED
  BY <1>3, <1>4

LEMMA JsonVlessKeeps ==
  ASSUME NEW e, e.type = "vless", WellFormed(e.q), JsonVless(e.q) # Rejected
  PROVE  NodeSecurity(JsonVless(e.q)) = Asked("json", e)
<1> DEFINE q == e.q
           n == [AnyNode EXCEPT
            !.server = q["server"], !.name = JsonName(q), !.flow = Filled(q, "flow"),
            !.packet = Filled(q, "packet_encoding"), !.transport = JsonTransportOf(q),
            !.tls = JsonTlsOf(q)]
           t == JsonTlsOf(q)
           a == Asked("json", e)
<1>1. /\ JsonVless(q) = Create(n) /\ DOMAIN q \subseteq JsonVlessKeys \cup JsonTlsKeys
      /\ JsonTlsFits(q, TRUE, FALSE)
  BY Zenon DEF JsonVless
<1>2. JsonVless(q) = n
  <2> HIDE DEF n
  <2> QED
    BY <1>1, Created
<1>3. n.tls = t /\ n.flow = Filled(q, "flow") /\ n.obfs = ""
  BY DEF AnyNode
<1>4. {"reality-opts", "reality-opts.short-id", "skip-cert-verify", "pbk", "sid", "spx", "insecure",
       "obfs", "ech", "pinSHA256"} \cap DOMAIN q = {}
  BY <1>1 DEF JsonVlessKeys, JsonTlsKeys
<1>5. /\ a.tls <=> Enabled(q, "tls", "tls.enabled")
      /\ a.insecure <=> Enabled(q, "tls", "tls.enabled") /\ IsTrue(q, "tls.insecure")
      /\ a.pins <=> "tls.certificate_public_key_sha256" \in DOMAIN q
      /\ a.ech <=> EchEnabled(q) /\ "tls.ech.config" \in DOMAIN q
      /\ ~a.obfs /\ (a.vision <=> Filled(q, "flow") # "")
  BY <1>4 DEF Asked, IsTrue, Field, Filled, Given
<1>6. a.reality = IF RealityEnabled(q) THEN Field(q, "tls.reality.short_id", "empty") ELSE ""
  BY <1>4 DEF Asked, Field, Given
<1> HIDE DEF n, t, a
<1>7. /\ t.enabled \in BOOLEAN /\ t.insecure \in BOOLEAN
      /\ t.enabled <=> a.tls
      /\ (IF t.reality = "" THEN "" ELSE t.sid) = a.reality
      /\ t.insecure <=> a.insecure
      /\ t.pins # "" <=> a.pins
      /\ t.ech # "" <=> a.ech
  BY <1>1, <1>5, <1>6, JsonTlsKeeps DEF t
<1>8. SameSecurity(n, "json", e)
  BY <1>3, <1>5, <1>7 DEF SameSecurity, a
<1> QED
  BY <1>2, <1>8, SecurityKept

LEMMA JsonHysteriaKeeps ==
  ASSUME NEW e, e.type = "hysteria2", WellFormed(e.q), JsonHysteria(e.q) # Rejected
  PROVE  NodeSecurity(JsonHysteria(e.q)) = Asked("json", e)
<1> DEFINE q == e.q
           n == [AnyNode EXCEPT
            !.kind = "hysteria2", !.server = q["server"], !.name = JsonName(q),
            !.port = Field(q, "server_port", ""), !.ports = Field(q, "server_ports", ""),
            !.hop = Field(q, "hop_interval", ""), !.user = q["password"],
            !.obfs = Field(q, "obfs.password", ""), !.tls = JsonTlsOf(q)]
           t == JsonTlsOf(q)
           a == Asked("json", e)
<1>1. /\ JsonHysteria(q) = Create(n) /\ DOMAIN q \subseteq JsonHysteriaKeys \cup JsonTlsKeys
      /\ JsonTlsFits(q, FALSE, FALSE)
      /\ "obfs" \in DOMAIN q =>
            Field(q, "obfs.type", "") = "salamander" /\ Required(q, "obfs.password")
  BY Zenon DEF JsonHysteria
<1>2. JsonHysteria(q) = n
  <2> HIDE DEF n
  <2> QED
    BY <1>1, Created
<1>3. n.tls = t /\ n.flow = "" /\ n.obfs = Field(q, "obfs.password", "")
  BY DEF AnyNode
<1>4. {"reality-opts", "reality-opts.short-id", "skip-cert-verify", "pbk", "sid", "spx", "insecure",
       "flow", "ech", "pinSHA256"} \cap DOMAIN q = {}
  BY <1>1 DEF JsonHysteriaKeys, JsonTlsKeys
<1>5. /\ a.tls <=> Enabled(q, "tls", "tls.enabled")
      /\ a.insecure <=> Enabled(q, "tls", "tls.enabled") /\ IsTrue(q, "tls.insecure")
      /\ a.pins <=> "tls.certificate_public_key_sha256" \in DOMAIN q
      /\ a.ech <=> EchEnabled(q) /\ "tls.ech.config" \in DOMAIN q
      /\ ~a.vision /\ (a.obfs <=> Filled(q, "obfs") # "")
  BY <1>4 DEF Asked, IsTrue, Field, Filled, Given
<1>6. a.reality = IF RealityEnabled(q) THEN Field(q, "tls.reality.short_id", "empty") ELSE ""
  BY <1>4 DEF Asked, Field, Given
<1> HIDE DEF n, t, a
<1>7. /\ t.enabled \in BOOLEAN /\ t.insecure \in BOOLEAN
      /\ t.enabled <=> a.tls
      /\ (IF t.reality = "" THEN "" ELSE t.sid) = a.reality
      /\ t.insecure <=> a.insecure
      /\ t.pins # "" <=> a.pins
      /\ t.ech # "" <=> a.ech
  BY <1>1, <1>5, <1>6, JsonTlsKeeps DEF t
<1>8. Field(q, "obfs.password", "") # "" <=> Filled(q, "obfs") # ""
  <2>1. CASE "obfs" \in DOMAIN q
    <3>1. "obfs.type" \in DOMAIN q
      BY <1>1, <2>1 DEF Field
    <3>2. Field(q, "obfs", "") = "ok"
      BY <3>1 DEF WellFormed, Within, Given
    <3> QED
      BY <1>1, <2>1, <3>2 DEF Required, Filled, Field, WellFormed
  <2>2. CASE "obfs" \notin DOMAIN q
    <3>1. "obfs.password" \notin DOMAIN q
      BY <2>2 DEF WellFormed, Within, Given, Field
    <3> QED
      BY <2>2, <3>1 DEF Field, Filled
  <2> QED
    BY <2>1, <2>2
<1>9. SameSecurity(n, "json", e)
  BY <1>3, <1>5, <1>7, <1>8 DEF SameSecurity, a
<1> QED
  BY <1>2, <1>9, SecurityKept

LEMMA JsonNaiveKeeps ==
  ASSUME NEW e, e.type = "naive", WellFormed(e.q), JsonNaive(e.q) # Rejected
  PROVE  NodeSecurity(JsonNaive(e.q)) = Asked("json", e)
<1> DEFINE q == e.q
           n == [AnyNode EXCEPT
            !.kind = "naive", !.server = q["server"], !.name = JsonName(q),
            !.user = Field(q, "username", "ok"), !.pass = Field(q, "password", ""),
            !.quic = IsTrue(q, "quic"), !.headers = Field(q, "extra_headers", ""),
            !.tls = JsonTlsOf(q)]
           t == JsonTlsOf(q)
           a == Asked("json", e)
<1>1. /\ JsonNaive(q) = Create(n) /\ DOMAIN q \subseteq JsonNaiveKeys \cup JsonTlsKeys
      /\ JsonTlsFits(q, FALSE, TRUE)
  BY Zenon DEF JsonNaive
<1>2. JsonNaive(q) = n
  <2> HIDE DEF n
  <2> QED
    BY <1>1, Created
<1>3. n.tls = t /\ n.flow = "" /\ n.obfs = ""
  BY DEF AnyNode
<1>4. {"reality-opts", "reality-opts.short-id", "skip-cert-verify", "pbk", "sid", "spx", "insecure",
       "flow", "obfs", "ech", "pinSHA256"} \cap DOMAIN q = {}
  BY <1>1 DEF JsonNaiveKeys, JsonTlsKeys
<1>5. /\ a.tls <=> Enabled(q, "tls", "tls.enabled")
      /\ a.insecure <=> Enabled(q, "tls", "tls.enabled") /\ IsTrue(q, "tls.insecure")
      /\ a.pins <=> "tls.certificate_public_key_sha256" \in DOMAIN q
      /\ a.ech <=> EchEnabled(q) /\ "tls.ech.config" \in DOMAIN q
      /\ ~a.vision /\ ~a.obfs
  BY <1>4 DEF Asked, IsTrue, Field, Filled, Given
<1>6. a.reality = IF RealityEnabled(q) THEN Field(q, "tls.reality.short_id", "empty") ELSE ""
  BY <1>4 DEF Asked, Field, Given
<1> HIDE DEF n, t, a
<1>7. /\ t.enabled \in BOOLEAN /\ t.insecure \in BOOLEAN
      /\ t.enabled <=> a.tls
      /\ (IF t.reality = "" THEN "" ELSE t.sid) = a.reality
      /\ t.insecure <=> a.insecure
      /\ t.pins # "" <=> a.pins
      /\ t.ech # "" <=> a.ech
  BY <1>1, <1>5, <1>6, JsonTlsKeeps DEF t
<1>8. SameSecurity(n, "json", e)
  BY <1>3, <1>5, <1>7 DEF SameSecurity, a
<1> QED
  BY <1>2, <1>8, SecurityKept

LEMMA ClashVlessKeeps ==
  ASSUME NEW e, e.type = "vless", WellFormed(e.q), ClashVless(e.q) # Rejected
  PROVE  NodeSecurity(ClashVless(e.q)) = Asked("clash", e)
<1> DEFINE q == e.q
           t == [TlsOff EXCEPT
                !.enabled = IsTrue(q, "tls") \/ "reality-opts" \in DOMAIN q,
                !.sni = Field(q, "servername", ""), !.insecure = IsTrue(q, "skip-cert-verify"),
                !.alpn = Field(q, "alpn", ""), !.utls = Field(q, "client-fingerprint", ""),
                !.reality = Field(q, "reality-opts.public-key", ""),
                !.sid = IF "reality-opts" \in DOMAIN q
                        THEN Field(q, "reality-opts.short-id", "empty") ELSE ""]
           n == [AnyNode EXCEPT
            !.server = q["server"], !.name = q["name"], !.flow = Filled(q, "flow"),
            !.packet = Filled(q, "packet-encoding"), !.transport = ClashTransportOf(q),
            !.tls = t]
           a == Asked("clash", e)
<1>1. /\ ClashVless(q) = Create(n) /\ DOMAIN q \subseteq ClashVlessKeys
      /\ "reality-opts" \in DOMAIN q => Required(q, "reality-opts.public-key")
  BY Zenon DEF ClashVless
<1>2. ClashVless(q) = n /\ ProtocolValid(n)
  <2> HIDE DEF n
  <2> QED
    BY <1>1, Created
<1>3. n.tls = t /\ n.flow = Filled(q, "flow") /\ n.obfs = ""
  BY DEF AnyNode
<1>4. {"tls.reality", "tls.reality.short_id", "tls.insecure", "pbk", "sid", "spx", "insecure",
       "obfs", "ech", "tls.ech", "pinSHA256", "tls.certificate_public_key_sha256"} \cap DOMAIN q = {}
  BY <1>1 DEF ClashVlessKeys
<1>5. /\ t.enabled = (IsTrue(q, "tls") \/ "reality-opts" \in DOMAIN q)
      /\ t.insecure = IsTrue(q, "skip-cert-verify")
      /\ t.pins = "" /\ t.ech = "" /\ t.reality = Field(q, "reality-opts.public-key", "")
      /\ t.sid = IF "reality-opts" \in DOMAIN q THEN Field(q, "reality-opts.short-id", "empty") ELSE ""
  BY DEF TlsOff
<1>6. /\ a.tls <=> IsTrue(q, "tls") \/ "reality-opts" \in DOMAIN q
      /\ a.insecure <=> /\ IsTrue(q, "tls") \/ "reality-opts" \in DOMAIN q
                        /\ IsTrue(q, "skip-cert-verify")
      /\ ~a.pins /\ ~a.ech
      /\ ~a.obfs /\ (a.vision <=> Filled(q, "flow") # "")
  BY <1>4 DEF Asked, IsTrue, Field, Filled, Given, EchEnabled, Enabled
<1>7. a.reality = IF "reality-opts" \in DOMAIN q THEN Field(q, "reality-opts.short-id", "empty") ELSE ""
  BY <1>4 DEF Asked, Field, Given, RealityEnabled, Enabled
<1>8. IF "reality-opts" \in DOMAIN q THEN Field(q, "reality-opts.public-key", "") # ""
                                     ELSE Field(q, "reality-opts.public-key", "") = ""
  BY <1>1 DEF Required, Filled, Field, WellFormed, Within, Given
<1> HIDE DEF n, t, a
<1>9. t.insecure => t.enabled
  <2>1. t.enabled \/ t = TlsOff
    BY <1>2, <1>3 DEF ProtocolValid, TlsValid
  <2>2. TlsOff.insecure = FALSE
    BY DEF TlsOff
  <2> QED
    BY <2>1, <2>2, Zenon
<1>10. SameSecurity(n, "clash", e)
  BY <1>3, <1>5, <1>6, <1>7, <1>8, <1>9 DEF SameSecurity, a, IsTrue
<1> QED
  BY <1>2, <1>10, SecurityKept

LEMMA ClashHysteriaKeeps ==
  ASSUME NEW e, e.type = "hysteria2", WellFormed(e.q), ClashHysteria(e.q) # Rejected
  PROVE  NodeSecurity(ClashHysteria(e.q)) = Asked("clash", e)
<1> DEFINE q == e.q
           t == [TlsOn EXCEPT !.sni = Field(q, "sni", ""),
                        !.insecure = IsTrue(q, "skip-cert-verify"), !.alpn = Field(q, "alpn", "")]
           n == [AnyNode EXCEPT
            !.kind = "hysteria2", !.server = q["server"], !.name = q["name"],
            !.port = IF "ports" \in DOMAIN q THEN "" ELSE q["port"],
            !.ports = Field(q, "ports", ""), !.hop = Field(q, "hop-interval", ""),
            !.user = q["password"], !.obfs = Field(q, "obfs-password", ""),
            !.tls = t]
           a == Asked("clash", e)
<1>1. /\ ClashHysteria(q) = Create(n) /\ DOMAIN q \subseteq ClashHysteriaKeys
      /\ IF Filled(q, "obfs") = "" THEN "obfs-password" \notin DOMAIN q
                                   ELSE Required(q, "obfs-password")
  BY Zenon DEF ClashHysteria
<1>2. ClashHysteria(q) = n
  <2> HIDE DEF n
  <2> QED
    BY <1>1, Created
<1>3. n.tls = t /\ n.flow = "" /\ n.obfs = Field(q, "obfs-password", "")
  BY DEF AnyNode
<1>4. {"tls.reality", "tls.reality.short_id", "tls.insecure", "pbk", "sid", "spx", "insecure",
       "reality-opts", "flow", "ech", "tls.ech", "pinSHA256", "tls.certificate_public_key_sha256"}
       \cap DOMAIN q = {}
  BY <1>1 DEF ClashHysteriaKeys
<1>5. /\ t.enabled = TRUE /\ t.insecure = IsTrue(q, "skip-cert-verify")
      /\ t.pins = "" /\ t.ech = "" /\ t.reality = ""
  BY DEF TlsOn, TlsOff
<1>6. /\ a.tls /\ a.reality = ""
      /\ a.insecure <=> IsTrue(q, "skip-cert-verify")
      /\ ~a.pins /\ ~a.ech /\ ~a.vision
      /\ a.obfs <=> Filled(q, "obfs") # ""
  BY <1>4 DEF Asked, IsTrue, Field, Filled, Given, EchEnabled, RealityEnabled, Enabled
<1>7. n.obfs # "" <=> Filled(q, "obfs") # ""
  BY <1>1, <1>3 DEF Required, Filled, Field
<1> HIDE DEF n, t, a
<1>8. SameSecurity(n, "clash", e)
  BY <1>3, <1>5, <1>6, <1>7 DEF SameSecurity, a, IsTrue
<1> QED
  BY <1>2, <1>8, SecurityKept

\* No parser loses, adds or changes anything a source says about security.
LEMMA ParserKeeps ==
  ASSUME NEW format \in {"link", "json", "clash"}, NEW e, WellFormed(e.q),
         Parse(format, e) # Rejected
  PROVE  NodeSecurity(Parse(format, e)) = Asked(format, e)
<1>1. CASE e.type = "vless" /\ format = "link"
  <2>1. Parse(format, e) = VlessUrl(e.q)
    BY <1>1 DEF Parse
  <2> QED
    BY <1>1, <2>1, VlessUrlTold, Zenon
<1>2. CASE e.type = "vless" /\ format = "json"
  <2>1. Parse(format, e) = JsonVless(e.q)
    BY <1>2 DEF Parse
  <2> QED
    BY <1>2, <2>1, JsonVlessKeeps, Zenon
<1>3. CASE e.type = "vless" /\ format = "clash"
  <2>1. Parse(format, e) = ClashVless(e.q)
    BY <1>3 DEF Parse
  <2> QED
    BY <1>3, <2>1, ClashVlessKeeps, Zenon
<1>4. CASE e.type = "hysteria2" /\ format = "link"
  <2>1. Parse(format, e) = HysteriaUrl(e.q)
    BY <1>4 DEF Parse
  <2> QED
    BY <1>4, <2>1, HysteriaUrlKeeps, Zenon
<1>5. CASE e.type = "hysteria2" /\ format = "json"
  <2>1. Parse(format, e) = JsonHysteria(e.q)
    BY <1>5 DEF Parse
  <2> QED
    BY <1>5, <2>1, JsonHysteriaKeeps, Zenon
<1>6. CASE e.type = "hysteria2" /\ format = "clash"
  <2>1. Parse(format, e) = ClashHysteria(e.q)
    BY <1>6 DEF Parse
  <2> QED
    BY <1>6, <2>1, ClashHysteriaKeeps, Zenon
<1>7. CASE e.type = "naive" /\ format = "link"
  <2>1. Parse(format, e) = NaiveUrl(e.q)
    BY <1>7 DEF Parse
  <2> QED
    BY <1>7, <2>1, NaiveUrlKeeps, Zenon
<1>8. CASE e.type = "naive" /\ format = "json"
  <2>1. Parse(format, e) = JsonNaive(e.q)
    BY <1>8 DEF Parse
  <2> QED
    BY <1>8, <2>1, JsonNaiveKeeps, Zenon
<1>9. CASE /\ ~(e.type = "vless" /\ format = "link")
           /\ ~(e.type = "vless" /\ format = "json")
           /\ ~(e.type = "vless" /\ format = "clash")
           /\ ~(e.type = "hysteria2" /\ format = "link")
           /\ ~(e.type = "hysteria2" /\ format = "json")
           /\ ~(e.type = "hysteria2" /\ format = "clash")
           /\ ~(e.type = "naive" /\ format = "link")
           /\ ~(e.type = "naive" /\ format = "json")
  <2>1. Parse(format, e) = Rejected
    BY <1>9 DEF Parse
  <2> QED
    BY <2>1, Zenon
<1> QED
  BY <1>1, <1>2, <1>3, <1>4, <1>5, <1>6, <1>7, <1>8, <1>9, Zenon

\* A node is what Node::create lets through, and has the fields of its protocol.
NodeShape(n) ==
    /\ n.kind \in {"vless", "hysteria2", "naive"}
    /\ n.kind # "hysteria2" => n.obfs = ""
    /\ n.kind # "vless" => n.flow = ""

LEMMA ShapeOfCreated ==
  ASSUME NEW n, NodeShape(n), NEW m, m = Create(n), m # Rejected
  PROVE  NodeShape(m) /\ Create(m) = m
<1>1. m = n
  BY Created
<1> QED
  BY <1>1

LEMMA ParsedShape ==
  ASSUME NEW format, NEW e, Parse(format, e) # Rejected
  PROVE  LET n == Parse(format, e) IN NodeShape(n) /\ Create(n) = n
<1> DEFINE q == e.q
<1>1. ASSUME NEW m, m = VlessUrl(q), m # Rejected PROVE NodeShape(m) /\ Create(m) = m
  <2> DEFINE n == [AnyNode EXCEPT
            !.server = q["host"], !.port = q["port"], !.name = DisplayName(q),
            !.flow = Filled(q, "flow"), !.packet = Filled(q, "packetEncoding"),
            !.transport = TransportOf(q), !.tls = SecurityOf(q)]
  <2>1. m = Create(n)
    BY <1>1, Zenon DEF VlessUrl
  <2>2. NodeShape(n)
    BY DEF NodeShape, AnyNode
  <2> HIDE DEF n
  <2> QED
    BY <1>1, <2>1, <2>2, ShapeOfCreated
<1>2. ASSUME NEW m, m = HysteriaUrl(q), m # Rejected PROVE NodeShape(m) /\ Create(m) = m
  <2> DEFINE n == [AnyNode EXCEPT
            !.kind = "hysteria2", !.server = q["host"], !.name = DisplayName(q),
            !.port = IF "ports" \in DOMAIN q THEN "" ELSE Field(q, "port", "ok"),
            !.ports = Field(q, "ports", ""),
            !.user = IF "bad" \in {Field(q, "user", "ok"), Field(q, "pass", "ok")}
                     THEN "bad" ELSE "ok",
            !.obfs = Filled(q, "obfs-password"),
            !.tls = [TlsFromQuery(q) EXCEPT !.utls = ""]]
  <2>1. m = Create(n)
    BY <1>2, Zenon DEF HysteriaUrl
  <2>2. NodeShape(n)
    BY DEF NodeShape, AnyNode
  <2> HIDE DEF n
  <2> QED
    BY <1>2, <2>1, <2>2, ShapeOfCreated
<1>3. ASSUME NEW m, m = NaiveUrl(q), m # Rejected PROVE NodeShape(m) /\ Create(m) = m
  <2> DEFINE n == [AnyNode EXCEPT
            !.kind = "naive", !.server = q["host"], !.port = Field(q, "port", "ok"),
            !.name = DisplayName(q), !.user = Field(q, "user", "ok"),
            !.pass = Field(q, "pass", ""),
            !.quic = Field(q, "scheme", "https") = "quic",
            !.headers = Field(q, "extra-headers", ""), !.tls = [TlsOn EXCEPT !.sni = q["host"]]]
  <2>1. m = Create(n)
    BY <1>3, Zenon DEF NaiveUrl
  <2>2. NodeShape(n)
    BY DEF NodeShape, AnyNode
  <2> HIDE DEF n
  <2> QED
    BY <1>3, <2>1, <2>2, ShapeOfCreated
<1>4. ASSUME NEW m, m = JsonVless(q), m # Rejected PROVE NodeShape(m) /\ Create(m) = m
  <2> DEFINE n == [AnyNode EXCEPT
            !.server = q["server"], !.name = JsonName(q), !.flow = Filled(q, "flow"),
            !.packet = Filled(q, "packet_encoding"), !.transport = JsonTransportOf(q),
            !.tls = JsonTlsOf(q)]
  <2>1. m = Create(n)
    BY <1>4, Zenon DEF JsonVless
  <2>2. NodeShape(n)
    BY DEF NodeShape, AnyNode
  <2> HIDE DEF n
  <2> QED
    BY <1>4, <2>1, <2>2, ShapeOfCreated
<1>5. ASSUME NEW m, m = JsonHysteria(q), m # Rejected PROVE NodeShape(m) /\ Create(m) = m
  <2> DEFINE n == [AnyNode EXCEPT
            !.kind = "hysteria2", !.server = q["server"], !.name = JsonName(q),
            !.port = Field(q, "server_port", ""), !.ports = Field(q, "server_ports", ""),
            !.hop = Field(q, "hop_interval", ""), !.user = q["password"],
            !.obfs = Field(q, "obfs.password", ""), !.tls = JsonTlsOf(q)]
  <2>1. m = Create(n)
    BY <1>5, Zenon DEF JsonHysteria
  <2>2. NodeShape(n)
    BY DEF NodeShape, AnyNode
  <2> HIDE DEF n
  <2> QED
    BY <1>5, <2>1, <2>2, ShapeOfCreated
<1>6. ASSUME NEW m, m = JsonNaive(q), m # Rejected PROVE NodeShape(m) /\ Create(m) = m
  <2> DEFINE n == [AnyNode EXCEPT
            !.kind = "naive", !.server = q["server"], !.name = JsonName(q),
            !.user = Field(q, "username", "ok"), !.pass = Field(q, "password", ""),
            !.quic = IsTrue(q, "quic"), !.headers = Field(q, "extra_headers", ""),
            !.tls = JsonTlsOf(q)]
  <2>1. m = Create(n)
    BY <1>6, Zenon DEF JsonNaive
  <2>2. NodeShape(n)
    BY DEF NodeShape, AnyNode
  <2> HIDE DEF n
  <2> QED
    BY <1>6, <2>1, <2>2, ShapeOfCreated
<1>7. ASSUME NEW m, m = ClashVless(q), m # Rejected PROVE NodeShape(m) /\ Create(m) = m
  <2> DEFINE t == [TlsOff EXCEPT
                !.enabled = IsTrue(q, "tls") \/ "reality-opts" \in DOMAIN q,
                !.sni = Field(q, "servername", ""), !.insecure = IsTrue(q, "skip-cert-verify"),
                !.alpn = Field(q, "alpn", ""), !.utls = Field(q, "client-fingerprint", ""),
                !.reality = Field(q, "reality-opts.public-key", ""),
                !.sid = IF "reality-opts" \in DOMAIN q
                        THEN Field(q, "reality-opts.short-id", "empty") ELSE ""]
             n == [AnyNode EXCEPT
            !.server = q["server"], !.name = q["name"], !.flow = Filled(q, "flow"),
            !.packet = Filled(q, "packet-encoding"), !.transport = ClashTransportOf(q),
            !.tls = t]
  <2>1. m = Create(n)
    BY <1>7, Zenon DEF ClashVless
  <2>2. NodeShape(n)
    BY DEF NodeShape, AnyNode
  <2> HIDE DEF n
  <2> QED
    BY <1>7, <2>1, <2>2, ShapeOfCreated
<1>8. ASSUME NEW m, m = ClashHysteria(q), m # Rejected PROVE NodeShape(m) /\ Create(m) = m
  <2> DEFINE n == [AnyNode EXCEPT
            !.kind = "hysteria2", !.server = q["server"], !.name = q["name"],
            !.port = IF "ports" \in DOMAIN q THEN "" ELSE q["port"],
            !.ports = Field(q, "ports", ""), !.hop = Field(q, "hop-interval", ""),
            !.user = q["password"], !.obfs = Field(q, "obfs-password", ""),
            !.tls = [TlsOn EXCEPT !.sni = Field(q, "sni", ""),
                        !.insecure = IsTrue(q, "skip-cert-verify"), !.alpn = Field(q, "alpn", "")]]
  <2>1. m = Create(n)
    BY <1>8, Zenon DEF ClashHysteria
  <2>2. NodeShape(n)
    BY DEF NodeShape, AnyNode
  <2> HIDE DEF n
  <2> QED
    BY <1>8, <2>1, <2>2, ShapeOfCreated
<1>9. Parse(format, e) \in {VlessUrl(q), HysteriaUrl(q), NaiveUrl(q), JsonVless(q), JsonHysteria(q),
                            JsonNaive(q), ClashVless(q), ClashHysteria(q), Rejected}
  BY Zenon DEF Parse
<1> HIDE DEF q
<1> QED
  BY <1>1, <1>2, <1>3, <1>4, <1>5, <1>6, <1>7, <1>8, <1>9, Zenon

-----------------------------------------------------------------------------
(* What an outbound tells its engine *)

LEMMA MergedDomain ==
  \A f, g : \A x : x \in DOMAIN (f @@ g) <=> x \in DOMAIN f \/ x \in DOMAIN g
  BY Both DEF @@
LEMMA MergedLeft ==
  \A f, g : \A x \in DOMAIN f : (f @@ g)[x] = f[x]
  BY Both DEF @@
LEMMA MergedRight ==
  \A f, g : \A x \in DOMAIN g : x \notin DOMAIN f => (f @@ g)[x] = g[x]
  BY Both DEF @@
LEMMA OneDomain ==
  \A k, v : \A x : x \in DOMAIN (k :> v) <=> x = k
  BY One DEF :>
LEMMA OneValue ==
  \A k, v : (k :> v)[k] = v
  BY One DEF :>
LEMMA NoneDomain ==
  \A x : x \notin DOMAIN <<>>
<1>1. PICK none : none = <<>>
  OBVIOUS
<1>2. DOMAIN none = {}
  BY <1>1
<1> QED
  BY <1>1, <1>2, Zenon
LEMMA OptDomain ==
  \A k, v : \A x : x \in DOMAIN Opt(k, v) <=> v # "" /\ x = k
  BY OneDomain, NoneDomain, Zenon DEF Opt
LEMMA WhenDomain ==
  ASSUME NEW b, NEW f
  PROVE  \A x : x \in DOMAIN When(b, f) <=> b /\ x \in DOMAIN f
  BY NoneDomain, Zenon DEF When

\* What TlsValue says, and nothing else.
TlsHas(t, x) ==
    \/ \/ x = "tls.enabled" \/ (t.sni # "" /\ x = "tls.server_name")
       \/ (t.insecure /\ x = "tls.insecure") \/ (t.alpn # "" /\ x = "tls.alpn")
       \/ (t.pins # "" /\ x = "tls.certificate_public_key_sha256")
       \/ (t.utls # "" /\ x = "tls.utls.fingerprint")
    \/ (t.reality # "" /\ (x = "tls.reality.public_key" \/ x = "tls.reality.short_id"))
    \/ (t.ech # "" /\ x = "tls.ech.config")

LEMMA TlsHasFacts ==
  ASSUME NEW t
  PROVE  /\ TlsHas(t, "tls.enabled")
         /\ TlsHas(t, "tls.insecure") <=> t.insecure
         /\ TlsHas(t, "tls.certificate_public_key_sha256") <=> t.pins # ""
         /\ TlsHas(t, "tls.ech.config") <=> t.ech # ""
         /\ TlsHas(t, "tls.reality.short_id") <=> t.reality # ""
         /\ ~TlsHas(t, "type") /\ ~TlsHas(t, "obfs.password") /\ ~TlsHas(t, "flow")
         /\ ~TlsHas(t, "tag") /\ ~TlsHas(t, "bind_interface")
  BY DEF TlsHas

LEMMA TlsValueFields ==
  ASSUME NEW t
  PROVE  /\ \A x : x \in DOMAIN TlsValue(t) <=> TlsHas(t, x)
         /\ t.reality # "" => TlsValue(t)["tls.reality.short_id"] = t.sid
<1>1. PICK e : e = ("tls.enabled" :> "true") @@ Opt("tls.server_name", t.sni)
    @@ When(t.insecure, "tls.insecure" :> "true") @@ Opt("tls.alpn", t.alpn)
    @@ Opt("tls.certificate_public_key_sha256", t.pins) @@ Opt("tls.utls.fingerprint", t.utls)
  OBVIOUS
<1>2. PICK r : r = ("tls.reality.public_key" :> t.reality) @@ ("tls.reality.short_id" :> t.sid)
  OBVIOUS
<1>3. TlsValue(t) = e @@ When(t.reality # "", r) @@ Opt("tls.ech.config", t.ech)
  BY <1>1, <1>2, Zenon DEF TlsValue
<1>4. \A x : x \in DOMAIN e <=>
            \/ x = "tls.enabled" \/ (t.sni # "" /\ x = "tls.server_name")
            \/ (t.insecure /\ x = "tls.insecure") \/ (t.alpn # "" /\ x = "tls.alpn")
            \/ (t.pins # "" /\ x = "tls.certificate_public_key_sha256")
            \/ (t.utls # "" /\ x = "tls.utls.fingerprint")
  <2> DEFINE w == When(t.insecure, "tls.insecure" :> "true")
  <2>1. \A x : x \in DOMAIN w <=> t.insecure /\ x = "tls.insecure"
    BY WhenDomain, OneDomain, Zenon
  <2> HIDE DEF w
  <2>2. \A x : x \in DOMAIN e <=>
            \/ x \in DOMAIN ("tls.enabled" :> "true") \/ x \in DOMAIN Opt("tls.server_name", t.sni)
            \/ x \in DOMAIN w \/ x \in DOMAIN Opt("tls.alpn", t.alpn)
            \/ x \in DOMAIN Opt("tls.certificate_public_key_sha256", t.pins)
            \/ x \in DOMAIN Opt("tls.utls.fingerprint", t.utls)
    BY <1>1, MergedDomain, SMT DEF w
  <2>3. \A x : x \in DOMAIN ("tls.enabled" :> "true") <=> x = "tls.enabled"
    BY OneDomain, Zenon
  <2>4. \A x : /\ x \in DOMAIN Opt("tls.server_name", t.sni) <=> t.sni # "" /\ x = "tls.server_name"
               /\ x \in DOMAIN Opt("tls.alpn", t.alpn) <=> t.alpn # "" /\ x = "tls.alpn"
    BY OptDomain, Zenon
  <2>5. \A x : /\ x \in DOMAIN Opt("tls.certificate_public_key_sha256", t.pins) <=>
                    t.pins # "" /\ x = "tls.certificate_public_key_sha256"
               /\ x \in DOMAIN Opt("tls.utls.fingerprint", t.utls) <=>
                    t.utls # "" /\ x = "tls.utls.fingerprint"
    BY OptDomain, Zenon
  <2> QED
    BY <2>1, <2>2, <2>3, <2>4, <2>5, Zenon
<1>5. \A x : x \in DOMAIN r <=> x = "tls.reality.public_key" \/ x = "tls.reality.short_id"
  BY <1>2, MergedDomain, OneDomain, SMT
<1>6. \A x : x \in DOMAIN TlsValue(t) <=>
            \/ x \in DOMAIN e \/ x \in DOMAIN When(t.reality # "", r)
            \/ x \in DOMAIN Opt("tls.ech.config", t.ech)
  <2> DEFINE w == When(t.reality # "", r)
             o == Opt("tls.ech.config", t.ech)
  <2>1. TlsValue(t) = e @@ w @@ o
    BY <1>3
  <2> HIDE DEF w, o
  <2>2. \A x : x \in DOMAIN TlsValue(t) <=> x \in DOMAIN e \/ x \in DOMAIN w \/ x \in DOMAIN o
    BY <2>1, MergedDomain, SMT
  <2> QED
    BY <2>2 DEF w, o
<1>7. \A x : x \in DOMAIN When(t.reality # "", r) <=> t.reality # "" /\ x \in DOMAIN r
  BY NoneDomain, Zenon DEF When
<1>8. \A x : x \in DOMAIN TlsValue(t) <=>
            \/ x \in DOMAIN e
            \/ (t.reality # "" /\ (x = "tls.reality.public_key" \/ x = "tls.reality.short_id"))
            \/ (t.ech # "" /\ x = "tls.ech.config")
  BY <1>5, <1>6, <1>7, OptDomain, Zenon
<1>9. ASSUME t.reality # "" PROVE TlsValue(t)["tls.reality.short_id"] = t.sid
  <2> DEFINE z == "tls.reality.short_id"
  <2>1. z \notin {"tls.enabled", "tls.server_name", "tls.insecure", "tls.alpn",
                  "tls.certificate_public_key_sha256", "tls.utls.fingerprint"}
        /\ z # "tls.reality.public_key"
    OBVIOUS
  <2>2. r = ("tls.reality.public_key" :> t.reality) @@ (z :> t.sid)
    BY <1>2
  <2>3. z \in DOMAIN r
    BY <1>5
  <2> HIDE DEF z
  <2>4. z \notin DOMAIN e
    BY <1>4, <2>1, Zenon
  <2>5. z \notin DOMAIN ("tls.reality.public_key" :> t.reality) /\ z \in DOMAIN (z :> t.sid)
    BY <2>1, OneDomain, Zenon
  <2>6. r[z] = (z :> t.sid)[z]
    BY <2>2, <2>5, MergedRight, Zenon
  <2>7. r[z] = t.sid
    BY <2>6, OneValue, Zenon
  <2>8. TlsValue(t) = e @@ r @@ Opt("tls.ech.config", t.ech)
    BY <1>3, <1>9, Zenon DEF When
  <2>9. z \in DOMAIN (e @@ r) /\ (e @@ r)[z] = r[z]
    BY <2>3, <2>4, MergedDomain, MergedRight, SMT
  <2>10. TlsValue(t)[z] = r[z]
    BY <2>8, <2>9, MergedLeft, Zenon
  <2> QED
    BY <2>7, <2>10, Zenon DEF z
<1> QED
  BY <1>4, <1>8, <1>9, Zenon DEF TlsHas

TlsWords ==
    {"tls.enabled", "tls.insecure", "tls.certificate_public_key_sha256", "tls.ech.config",
     "tls.reality.short_id"}

\* An outbound says of its server's security what the node does.
Says(o, n) ==
    /\ "tls.enabled" \in DOMAIN o <=> n.tls.enabled
    /\ "tls.insecure" \in DOMAIN o <=> n.tls.insecure
    /\ "tls.certificate_public_key_sha256" \in DOMAIN o <=> n.tls.pins # ""
    /\ "tls.ech.config" \in DOMAIN o <=> n.tls.ech # ""
    /\ "tls.reality.short_id" \in DOMAIN o <=> n.tls.reality # ""
    /\ n.tls.reality # "" => o["tls.reality.short_id"] = n.tls.sid
    /\ "obfs.password" \in DOMAIN o <=> n.obfs # ""
    /\ "flow" \in DOMAIN o <=> n.flow # ""
    /\ "type" \in DOMAIN o /\ o["type"] # "socks"

TlsSaid(t, a, o) ==
    /\ "tls.enabled" \in DOMAIN o
    /\ "tls.insecure" \in DOMAIN o <=> t.insecure
    /\ "tls.certificate_public_key_sha256" \in DOMAIN o <=> t.pins # ""
    /\ "tls.ech.config" \in DOMAIN o <=> t.ech # ""
    /\ "tls.reality.short_id" \in DOMAIN o <=> t.reality # ""
    /\ t.reality # "" => o["tls.reality.short_id"] = t.sid
    /\ \A x \in {"type", "obfs.password", "flow"} : x \in DOMAIN o <=> x \in DOMAIN a
    /\ \A x \in DOMAIN a : o[x] = a[x]

\* The TLS fields stand behind others that are none of them.
LEMMA TlsSays ==
  ASSUME NEW t, NEW a, NEW o, o = a @@ TlsValue(t),
         \A x \in TlsWords : x \notin DOMAIN a
  PROVE  TlsSaid(t, a, o)
<1> DEFINE v == TlsValue(t)
<1>1. /\ \A x : x \in DOMAIN v <=> TlsHas(t, x)
      /\ t.reality # "" => v["tls.reality.short_id"] = t.sid
  BY TlsValueFields, Zenon
<1> HIDE DEF v
<1>2. \A x : x \in DOMAIN o <=> x \in DOMAIN a \/ x \in DOMAIN v
  BY MergedDomain, Zenon DEF v
<1>3. \A x \in DOMAIN v : x \notin DOMAIN a => o[x] = v[x]
  BY MergedRight, Zenon DEF v
<1>4. \A x \in DOMAIN a : o[x] = a[x]
  BY MergedLeft, Zenon DEF v
<1>5. \A x \in TlsWords : x \in DOMAIN o <=> TlsHas(t, x)
  BY <1>1, <1>2, Zenon
<1>6. \A x \in TlsWords : TlsHas(t, x) => o[x] = v[x]
  BY <1>1, <1>3, Zenon
<1>7. /\ "tls.enabled" \in TlsWords /\ "tls.insecure" \in TlsWords /\ "tls.ech.config" \in TlsWords
      /\ "tls.certificate_public_key_sha256" \in TlsWords /\ "tls.reality.short_id" \in TlsWords
  BY DEF TlsWords
<1>8. \A x : ~TlsHas(t, x) => (x \in DOMAIN o <=> x \in DOMAIN a)
  BY <1>1, <1>2, Zenon
<1>9. \A x \in {"type", "obfs.password", "flow"} : x \in DOMAIN o <=> x \in DOMAIN a
  BY <1>8, TlsHasFacts
<1>10. t.reality # "" => o["tls.reality.short_id"] = t.sid
  BY <1>1, <1>6, <1>7, TlsHasFacts, Zenon
<1>11. /\ "tls.enabled" \in DOMAIN o
       /\ "tls.insecure" \in DOMAIN o <=> t.insecure
       /\ "tls.certificate_public_key_sha256" \in DOMAIN o <=> t.pins # ""
       /\ "tls.ech.config" \in DOMAIN o <=> t.ech # ""
       /\ "tls.reality.short_id" \in DOMAIN o <=> t.reality # ""
  BY <1>5, <1>7, TlsHasFacts, Zenon
<1> QED
  BY <1>4, <1>9, <1>10, <1>11, Zenon DEF TlsSaid

LEMMA VlessSays ==
  ASSUME NEW n, n.kind = "vless", NodeShape(n), ProtocolValid(n)
  PROVE  Says(VlessOutbound(n), n)
<1>1. PICK t : t = TransportValue(n.transport)
  OBVIOUS
<1>2. PICK a : a = Outbound("vless") @@ ("server" :> n.server) @@ ("server_port" :> n.port)
                    @@ ("uuid" :> n.user) @@ Opt("flow", n.flow) @@ Opt("packet_encoding", n.packet) @@ t
  OBVIOUS
<1>3. PICK o : o = VlessOutbound(n)
  OBVIOUS
<1>4. o = a @@ When(n.tls.enabled, TlsValue(n.tls))
  BY <1>1, <1>2, <1>3, Zenon DEF VlessOutbound
<1>5. \A x : x \in DOMAIN t =>
        x \in {"transport.type", "transport.path", "transport.headers.Host", "transport.service_name"}
  <2> DEFINE w == When(n.transport.type # "tcp", "transport.type" :> n.transport.type)
             p == Opt("transport.path", n.transport.path)
             h == Opt("transport.headers.Host", n.transport.host)
             s == Opt("transport.service_name", n.transport.service)
  <2>1. t = w @@ p @@ h @@ s
    BY <1>1, Zenon DEF TransportValue
  <2>2. \A x : x \in DOMAIN w => x = "transport.type"
    <3>1. \A x : x \in DOMAIN ("transport.type" :> n.transport.type) => x = "transport.type"
      BY OneDomain, ZenonT(60)
    <3> QED
      BY <3>1, NoneDomain, Zenon DEF When
  <2>3. /\ \A x : x \in DOMAIN p => x = "transport.path"
        /\ \A x : x \in DOMAIN h => x = "transport.headers.Host"
        /\ \A x : x \in DOMAIN s => x = "transport.service_name"
    BY OptDomain, Zenon
  <2> HIDE DEF w, p, h, s
  <2>4. \A x : x \in DOMAIN t <=> x \in DOMAIN w \/ x \in DOMAIN p \/ x \in DOMAIN h \/ x \in DOMAIN s
    BY <2>1, MergedDomain, SMT
  <2> QED
    BY <2>2, <2>3, <2>4
<1>6. PICK b : b = Outbound("vless") @@ ("server" :> n.server) @@ ("server_port" :> n.port) @@ ("uuid" :> n.user)
  OBVIOUS
<1>7. /\ \A x : x \in DOMAIN b => x \in {"type", "tag", "server", "server_port", "uuid"}
      /\ "type" \in DOMAIN b /\ b["type"] = "vless"
  BY <1>6, One, Both DEF :>, @@, Outbound
<1> DEFINE f == Opt("flow", n.flow)
           p == Opt("packet_encoding", n.packet)
<1>8. a = b @@ f @@ p @@ t
  BY <1>2, <1>6, Zenon
<1>9. /\ \A x : x \in DOMAIN f <=> n.flow # "" /\ x = "flow"
      /\ \A x : x \in DOMAIN p => x = "packet_encoding"
  BY OptDomain, Zenon
<1> HIDE DEF f, p
<1>10. \A x : x \in DOMAIN a <=> x \in DOMAIN b \/ x \in DOMAIN f \/ x \in DOMAIN p \/ x \in DOMAIN t
  BY <1>8, MergedDomain, SMT
<1>11. \A x \in DOMAIN b : a[x] = b[x]
  BY <1>8, MergedDomain, MergedLeft, SMT
<1>12a. \A x : x \in DOMAIN a =>
        \/ x \in {"type", "tag", "server", "server_port", "uuid", "flow", "packet_encoding"}
        \/ x \in {"transport.type", "transport.path", "transport.headers.Host", "transport.service_name"}
  BY <1>5, <1>7, <1>9, <1>10
<1>12b. "flow" \in DOMAIN a <=> n.flow # ""
  <2>1. "flow" \notin DOMAIN b /\ "flow" \notin DOMAIN p /\ "flow" \notin DOMAIN t
    BY <1>5, <1>7, <1>9
  <2> QED
    BY <1>9, <1>10, <2>1, Zenon
<1>12c. "type" \in DOMAIN a /\ a["type"] = "vless"
  BY <1>7, <1>10, <1>11
<1>12. /\ \A x \in TlsWords : x \notin DOMAIN a
       /\ "obfs.password" \notin DOMAIN a /\ ("flow" \in DOMAIN a <=> n.flow # "")
       /\ "type" \in DOMAIN a /\ a["type"] = "vless"
  <2>1. "obfs.password" \notin DOMAIN a
    BY <1>12a, SMT
  <2>2. \A x \in TlsWords : x \notin DOMAIN a
    BY <1>12a, Zenon DEF TlsWords
  <2> QED
    BY <1>12b, <1>12c, <2>1, <2>2, Zenon
<1>13. CASE n.tls.enabled
  <2>1. o = a @@ TlsValue(n.tls)
    BY <1>4, <1>13, Zenon DEF When
  <2>4. TlsSaid(n.tls, a, o)
    BY <1>12, <1>13, <2>1, TlsSays, Zenon
  <2>5. n.obfs = ""
    BY DEF NodeShape
  <2>6. Says(o, n)
    <3>1. o["type"] # "socks"
      BY <1>12, <2>4 DEF TlsSaid
    <3> QED
      BY <1>12, <1>13, <2>4, <2>5, <3>1, Zenon DEF Says, TlsSaid
  <2> QED
    BY <1>3, <2>6
<1>14. CASE ~n.tls.enabled
  <2>1. o = a @@ <<>>
    BY <1>4, <1>14, Zenon DEF When
  <2>2. \A x : x \in DOMAIN o <=> x \in DOMAIN a
    BY <2>1, MergedDomain, NoneDomain, Zenon
  <2>3. \A x \in DOMAIN a : o[x] = a[x]
    BY <2>1, MergedLeft, Zenon
  <2>4. n.tls = TlsOff /\ n.obfs = ""
    BY <1>14 DEF NodeShape, ProtocolValid, TlsValid
  <2>5. ~n.tls.insecure /\ n.tls.pins = "" /\ n.tls.ech = "" /\ n.tls.reality = ""
    <3>1. PICK off : off = TlsOff
      OBVIOUS
    <3>2. off.insecure = FALSE /\ off.pins = "" /\ off.ech = "" /\ off.reality = ""
      BY <3>1 DEF TlsOff
    <3> QED
      BY <2>4, <3>1, <3>2, Zenon
  <2>6. Says(o, n)
    BY <1>12, <1>14, <2>2, <2>3, <2>4, <2>5 DEF Says, TlsWords
  <2> QED
    BY <1>3, <2>6
<1> QED
  BY <1>13, <1>14

LEMMA HysteriaSays ==
  ASSUME NEW n, n.kind = "hysteria2", NodeShape(n), ProtocolValid(n)
  PROVE  Says(HysteriaOutbound(n), n)
<1>1. PICK b : b = Outbound("hysteria2") @@ ("server" :> n.server) @@ ("password" :> n.user)
  OBVIOUS
<1>2. /\ \A x : x \in DOMAIN b => x \in {"type", "tag", "server", "password"}
      /\ "type" \in DOMAIN b /\ b["type"] = "hysteria2"
  BY <1>1, One, Both DEF :>, @@, Outbound
<1>3. PICK w : w = ("obfs.type" :> "salamander") @@ ("obfs.password" :> n.obfs)
  OBVIOUS
<1>4. \A x : x \in DOMAIN w <=> x = "obfs.type" \/ x = "obfs.password"
  BY <1>3, MergedDomain, OneDomain, SMT
<1> DEFINE p == Opt("server_port", n.port)
           q == Opt("server_ports", n.ports)
           h == Opt("hop_interval", n.hop)
           f == When(n.obfs # "", w)
<1>5. PICK a : a = b @@ p @@ q @@ h @@ f
  OBVIOUS
<1>6. PICK o : o = HysteriaOutbound(n)
  OBVIOUS
<1>7. o = a @@ TlsValue(n.tls)
  BY <1>1, <1>3, <1>5, <1>6, Zenon DEF HysteriaOutbound
<1>8. /\ \A x : x \in DOMAIN p => x = "server_port"
      /\ \A x : x \in DOMAIN q => x = "server_ports"
      /\ \A x : x \in DOMAIN h => x = "hop_interval"
  BY OptDomain, Zenon
<1>9. \A x : x \in DOMAIN f <=> n.obfs # "" /\ x \in DOMAIN w
  BY NoneDomain, Zenon DEF When
<1> HIDE DEF p, q, h, f
<1>10. \A x : x \in DOMAIN a <=>
        x \in DOMAIN b \/ x \in DOMAIN p \/ x \in DOMAIN q \/ x \in DOMAIN h \/ x \in DOMAIN f
  BY <1>5, MergedDomain, SMT
<1>11. \A x \in DOMAIN b : a[x] = b[x]
  BY <1>5, MergedDomain, MergedLeft, SMT
<1>12. \A x : x \in DOMAIN a =>
        \/ x \in {"type", "tag", "server", "password", "server_port", "server_ports", "hop_interval"}
        \/ x \in {"obfs.type", "obfs.password"}
  BY <1>2, <1>4, <1>8, <1>9, <1>10
<1>13. "obfs.password" \in DOMAIN a <=> n.obfs # ""
  <2>1. /\ "obfs.password" \notin DOMAIN b /\ "obfs.password" \notin DOMAIN p
        /\ "obfs.password" \notin DOMAIN q /\ "obfs.password" \notin DOMAIN h
    BY <1>2, <1>8
  <2>2. "obfs.password" \in DOMAIN w
    BY <1>4
  <2> QED
    BY <1>9, <1>10, <2>1, <2>2, Zenon
<1>14. "type" \in DOMAIN a /\ a["type"] = "hysteria2"
  BY <1>2, <1>10, <1>11
<1>15. "flow" \notin DOMAIN a
  BY <1>12
<1>16. \A x \in TlsWords : x \notin DOMAIN a
  BY <1>12, Zenon DEF TlsWords
<1>17. TlsSaid(n.tls, a, o)
  BY <1>7, <1>16, TlsSays, Zenon
<1>18. n.flow = "" /\ n.tls.enabled
  BY DEF NodeShape, ProtocolValid
<1>19. o["type"] # "socks"
  BY <1>14, <1>17 DEF TlsSaid
<1>20. Says(o, n)
  BY <1>13, <1>14, <1>15, <1>17, <1>18, <1>19, Zenon DEF Says, TlsSaid
<1> QED
  BY <1>6, <1>20

LEMMA NaiveSays ==
  ASSUME NEW n, n.kind = "naive", NodeShape(n), ProtocolValid(n), NEW udp_over_tcp
  PROVE  Says(NaiveOutbound(n, udp_over_tcp), n)
<1>1. PICK b : b = Outbound("naive") @@ ("server" :> n.server) @@ ("server_port" :> n.port)
  OBVIOUS
<1>2. /\ \A x : x \in DOMAIN b => x \in {"type", "tag", "server", "server_port"}
      /\ "type" \in DOMAIN b /\ b["type"] = "naive"
  BY <1>1, One, Both DEF :>, @@, Outbound
<1> DEFINE p == When(n.pass # "", ("username" :> n.user) @@ ("password" :> n.pass))
           h == Opt("extra_headers", n.headers)
           q == When(n.quic, "quic" :> "true")
           w == When(udp_over_tcp, ("udp_over_tcp.enabled" :> "true") @@ ("udp_over_tcp.version" :> "2"))
<1>3. PICK a : a = b @@ p @@ h @@ q
  OBVIOUS
<1>4. PICK m : m = a @@ TlsValue(n.tls)
  OBVIOUS
<1>5. PICK o : o = NaiveOutbound(n, udp_over_tcp)
  OBVIOUS
<1>6. o = m @@ w
  BY <1>1, <1>3, <1>4, <1>5, Zenon DEF NaiveOutbound
<1>7. \A x : x \in DOMAIN p => x \in {"username", "password"}
  <2>1. \A x : x \in DOMAIN (("username" :> n.user) @@ ("password" :> n.pass)) =>
            x \in {"username", "password"}
    BY MergedDomain, OneDomain, SMT
  <2> QED
    BY <2>1, NoneDomain, Zenon DEF When
<1>8. \A x : x \in DOMAIN w => x \in {"udp_over_tcp.enabled", "udp_over_tcp.version"}
  <2>1. \A x : x \in DOMAIN (("udp_over_tcp.enabled" :> "true") @@ ("udp_over_tcp.version" :> "2")) =>
            x \in {"udp_over_tcp.enabled", "udp_over_tcp.version"}
    BY MergedDomain, OneDomain, SMT
  <2> QED
    BY <2>1, NoneDomain, Zenon DEF When
<1>9. (\A x : x \in DOMAIN h => x = "extra_headers") /\ (\A x : x \in DOMAIN q => x = "quic")
  <2>1. \A x : x \in DOMAIN ("quic" :> "true") => x = "quic"
    BY OneDomain, Zenon
  <2>2. \A x : x \in DOMAIN q => x = "quic"
    BY <2>1, NoneDomain, Zenon DEF When
  <2> QED
    BY <2>2, OptDomain, Zenon
<1> HIDE DEF p, h, q, w
<1>10. \A x : x \in DOMAIN a <=> x \in DOMAIN b \/ x \in DOMAIN p \/ x \in DOMAIN h \/ x \in DOMAIN q
  BY <1>3, MergedDomain, SMT
<1>11. \A x \in DOMAIN b : a[x] = b[x]
  BY <1>3, MergedDomain, MergedLeft, SMT
<1>12. \A x : x \in DOMAIN a =>
        x \in {"type", "tag", "server", "server_port", "username", "password", "extra_headers", "quic"}
  BY <1>2, <1>7, <1>9, <1>10
<1>13. "type" \in DOMAIN a /\ a["type"] = "naive"
  BY <1>2, <1>10, <1>11
<1>14. "flow" \notin DOMAIN a /\ "obfs.password" \notin DOMAIN a
  BY <1>12
<1>15. \A x \in TlsWords : x \notin DOMAIN a
  BY <1>12, Zenon DEF TlsWords
<1>16. TlsSaid(n.tls, a, m)
  BY <1>4, <1>15, TlsSays, Zenon
<1>17. n.flow = "" /\ n.obfs = "" /\ n.tls.enabled
  BY DEF NodeShape, ProtocolValid
<1>18. m["type"] # "socks" /\ "type" \in DOMAIN m
  BY <1>13, <1>16 DEF TlsSaid
<1>19. Says(m, n)
  BY <1>13, <1>14, <1>16, <1>17, <1>18, Zenon DEF Says, TlsSaid
<1>20. Says(o, n)
  <2>1. \A x : x \in DOMAIN o <=> x \in DOMAIN m \/ x \in DOMAIN w
    BY <1>6, MergedDomain, Zenon
  <2>2. \A x \in DOMAIN m : o[x] = m[x]
    BY <1>6, MergedLeft, Zenon
  <2> DEFINE words == TlsWords \cup {"obfs.password", "flow", "type"}
  <2>3. \A x \in words : x \notin DOMAIN w
    BY <1>8 DEF TlsWords
  <2>4. \A x \in words : x \in DOMAIN o <=> x \in DOMAIN m
    BY <2>1, <2>3, Zenon
  <2>5. /\ "tls.enabled" \in words /\ "tls.insecure" \in words /\ "tls.ech.config" \in words
        /\ "tls.certificate_public_key_sha256" \in words /\ "tls.reality.short_id" \in words
        /\ "obfs.password" \in words /\ "flow" \in words /\ "type" \in words
    BY DEF TlsWords
  <2> HIDE DEF words
  <2> QED
    BY <1>19, <2>2, <2>4, <2>5, Zenon DEF Says
<1> QED
  BY <1>5, <1>20

\* ... and so does the exit of a session, whatever its name and what it is bound to.
LEMMA SelectedSays ==
  ASSUME NEW n, NodeShape(n), ProtocolValid(n), NEW udp_over_tcp
  PROVE  Says(SelectedOutbound(n, udp_over_tcp), n)
<1>1. CASE n.kind = "vless"
  <2>1. SelectedOutbound(n, udp_over_tcp) = VlessOutbound(n)
    BY <1>1 DEF SelectedOutbound
  <2> QED
    BY <1>1, <2>1, VlessSays
<1>2. CASE n.kind = "hysteria2"
  <2>1. SelectedOutbound(n, udp_over_tcp) = HysteriaOutbound(n)
    BY <1>2 DEF SelectedOutbound
  <2> QED
    BY <1>2, <2>1, HysteriaSays
<1>3. CASE n.kind = "naive"
  <2>1. SelectedOutbound(n, udp_over_tcp) = NaiveOutbound(n, udp_over_tcp)
    BY <1>3 DEF SelectedOutbound
  <2> QED
    BY <1>3, <2>1, NaiveSays
<1> QED
  BY <1>1, <1>2, <1>3 DEF NodeShape

\* The words a configuration adds to an outbound say nothing of its security.
LEMMA SaysAfter ==
  ASSUME NEW n, NEW o, Says(o, n), NEW f, \A x \in DOMAIN f : x \in {"domain_resolver", "bind_interface"}
  PROVE  Says(o @@ f, n)
<1>1. PICK m : m = o @@ f
  OBVIOUS
<1>2. \A x : x \in DOMAIN m <=> x \in DOMAIN o \/ x \in DOMAIN f
  BY <1>1, MergedDomain, Zenon
<1>3. \A x \in DOMAIN o : m[x] = o[x]
  BY <1>1, MergedLeft, Zenon
<1> DEFINE words == TlsWords \cup {"obfs.password", "flow", "type"}
<1>4. \A x \in words : x \notin DOMAIN f
  BY DEF TlsWords
<1>5. \A x \in words : x \in DOMAIN m <=> x \in DOMAIN o
  BY <1>2, <1>4, Zenon
<1>6. /\ "tls.enabled" \in words /\ "tls.insecure" \in words /\ "tls.ech.config" \in words
      /\ "tls.certificate_public_key_sha256" \in words /\ "tls.reality.short_id" \in words
      /\ "obfs.password" \in words /\ "flow" \in words /\ "type" \in words
  BY DEF TlsWords
<1> HIDE DEF words
<1>7. Says(m, n)
  BY <1>3, <1>5, <1>6, Zenon DEF Says
<1> QED
  BY <1>1, <1>7

LEMMA SaysTagged ==
  ASSUME NEW n, NEW o, Says(o, n), NEW tag
  PROVE  Says(("tag" :> tag) @@ o, n)
<1>1. PICK m : m = ("tag" :> tag) @@ o
  OBVIOUS
<1>2. \A x : x \in DOMAIN m <=> x = "tag" \/ x \in DOMAIN o
  BY <1>1, MergedDomain, OneDomain, SMT
<1>3. \A x \in DOMAIN o : x # "tag" => m[x] = o[x]
  <2>1. PICK t : t = "tag" :> tag
    OBVIOUS
  <2>2. \A x : x # "tag" => x \notin DOMAIN t
    BY <2>1, OneDomain, Zenon
  <2> QED
    BY <1>1, <2>1, <2>2, MergedRight, Zenon
<1> DEFINE words == TlsWords \cup {"obfs.password", "flow", "type"}
<1>4. \A x \in words : x # "tag"
  BY DEF TlsWords
<1>5. /\ \A x \in words : x \in DOMAIN m <=> x \in DOMAIN o
      /\ \A x \in words : x \in DOMAIN o => m[x] = o[x]
  BY <1>2, <1>3, <1>4, Zenon
<1>6. /\ "tls.enabled" \in words /\ "tls.insecure" \in words /\ "tls.ech.config" \in words
      /\ "tls.certificate_public_key_sha256" \in words /\ "tls.reality.short_id" \in words
      /\ "obfs.password" \in words /\ "flow" \in words /\ "type" \in words
  BY DEF TlsWords
<1> HIDE DEF words
<1>7. Says(m, n)
  BY <1>5, <1>6, Zenon DEF Says
<1> QED
  BY <1>1, <1>7

\* What an engine hears in an outbound, as Told puts it.
Heard(o) ==
    [tls |-> "tls.enabled" \in DOMAIN o, reality |-> Field(o, "tls.reality.short_id", ""),
     insecure |-> "tls.insecure" \in DOMAIN o,
     pins |-> "tls.certificate_public_key_sha256" \in DOMAIN o,
     ech |-> "tls.ech.config" \in DOMAIN o,
     obfs |-> "obfs.password" \in DOMAIN o, vision |-> "flow" \in DOMAIN o]

LEMMA SaysHeard ==
  ASSUME NEW n, NEW o, Says(o, n), n.tls.enabled \in BOOLEAN, n.tls.insecure \in BOOLEAN
  PROVE  Heard(o) = NodeSecurity(n)
<1>1. /\ ("tls.enabled" \in DOMAIN o) = n.tls.enabled
      /\ ("tls.insecure" \in DOMAIN o) = n.tls.insecure
  <2>1. ("tls.enabled" \in DOMAIN o <=> n.tls.enabled) /\ ("tls.insecure" \in DOMAIN o <=> n.tls.insecure)
    BY Zenon DEF Says
  <2> DEFINE a == "tls.enabled" \in DOMAIN o
             b == "tls.insecure" \in DOMAIN o
  <2>2. a \in BOOLEAN /\ b \in BOOLEAN /\ (a <=> n.tls.enabled) /\ (b <=> n.tls.insecure)
    BY <2>1
  <2> HIDE DEF a, b
  <2>3. a = n.tls.enabled /\ b = n.tls.insecure
    BY <2>2
  <2> QED
    BY <2>3, Zenon DEF a, b
<1>2. Field(o, "tls.reality.short_id", "") = IF n.tls.reality = "" THEN "" ELSE n.tls.sid
  BY DEF Says, Field
<1>3. /\ ("tls.certificate_public_key_sha256" \in DOMAIN o) = (n.tls.pins # "")
      /\ ("tls.ech.config" \in DOMAIN o) = (n.tls.ech # "")
      /\ ("obfs.password" \in DOMAIN o) = (n.obfs # "")
      /\ ("flow" \in DOMAIN o) = (n.flow # "")
  <2> DEFINE a == "tls.certificate_public_key_sha256" \in DOMAIN o
             b == "tls.ech.config" \in DOMAIN o
             c == "obfs.password" \in DOMAIN o
             d == "flow" \in DOMAIN o
             p == n.tls.pins # ""
             q == n.tls.ech # ""
             r == n.obfs # ""
             s == n.flow # ""
  <2>1. (a <=> p) /\ (b <=> q) /\ (c <=> r) /\ (d <=> s)
    BY Zenon DEF Says
  <2>2. /\ a \in BOOLEAN /\ b \in BOOLEAN /\ c \in BOOLEAN /\ d \in BOOLEAN
        /\ p \in BOOLEAN /\ q \in BOOLEAN /\ r \in BOOLEAN /\ s \in BOOLEAN
    OBVIOUS
  <2> HIDE DEF a, b, c, d, p, q, r, s
  <2>3. a = p /\ b = q /\ c = r /\ d = s
    BY <2>1, <2>2
  <2> QED
    BY <2>3, Zenon DEF a, b, c, d, p, q, r, s
<1> QED
  BY <1>1, <1>2, <1>3, Zenon DEF Heard, NodeSecurity

\* The sidecar of a REALITY server says what the node does.
SidecarSays(x, n) == x["shortId"] = n.tls.sid /\ ("flow" \in DOMAIN x <=> n.flow # "")

LEMMA XrayTells ==
  ASSUME NEW n, NEW upstream
  PROVE  SidecarSays(XrayOutbound(n, upstream), n) /\ "shortId" \in DOMAIN XrayOutbound(n, upstream)
<1>1. PICK b : b = ("type" :> "vless") @@ ("tag" :> "selected") @@ ("server" :> n.server) @@ ("port" :> n.port)
                    @@ ("id" :> n.user)
  OBVIOUS
<1>2. PICK c : c = ("security" :> "reality")
  OBVIOUS
<1> DEFINE f == Opt("flow", n.flow)
           p == Opt("packetEncoding", n.packet)
           s == "serverName" :> IF n.tls.sni = "" THEN n.server ELSE n.tls.sni
           g == "fingerprint" :> IF n.tls.utls = "" THEN "chrome" ELSE n.tls.utls
           k == "publicKey" :> n.tls.reality
           i == "shortId" :> n.tls.sid
           y == "spiderX" :> n.tls.spider
           t == "network" :> IF n.transport.type = "tcp" THEN "raw" ELSE n.transport.type
           a1 == Opt("path", n.transport.path)
           a2 == Opt("Host", n.transport.host)
           a3 == Opt("serviceName", n.transport.service)
           a4 == Opt("interface", upstream.alias)
<1>3. PICK a : a = b @@ f @@ p @@ c @@ s @@ g @@ k
  OBVIOUS
<1>4. PICK x : x = XrayOutbound(n, upstream)
  OBVIOUS
<1>5. x = a @@ i @@ y @@ t @@ a1 @@ a2 @@ a3 @@ a4
  BY <1>1, <1>2, <1>3, <1>4, Zenon DEF XrayOutbound
<1>6. \A z : z \in DOMAIN b => z \in {"type", "tag", "server", "port", "id"}
  BY <1>1, MergedDomain, OneDomain, SMT
<1>17. \A z : z \in DOMAIN f <=> n.flow # "" /\ z = "flow"
  BY OptDomain, Zenon
<1>7. /\ \A z : z \in DOMAIN p => z = "packetEncoding"
      /\ \A z : z \in DOMAIN a1 => z = "path"
      /\ \A z : z \in DOMAIN a2 => z = "Host"
      /\ \A z : z \in DOMAIN a3 => z = "serviceName"
      /\ \A z : z \in DOMAIN a4 => z = "interface"
  BY OptDomain, ZenonT(60)
<1>8. /\ \A z : z \in DOMAIN c => z = "security"
      /\ \A z : z \in DOMAIN s => z = "serverName"
      /\ \A z : z \in DOMAIN g => z = "fingerprint"
      /\ \A z : z \in DOMAIN k => z = "publicKey"
      /\ \A z : z \in DOMAIN i <=> z = "shortId"
      /\ \A z : z \in DOMAIN y => z = "spiderX"
      /\ \A z : z \in DOMAIN t => z = "network"
  <2>1. \A z : z \in DOMAIN c => z = "security"
    BY <1>2, OneDomain, ZenonT(60)
  <2>2. \A z : z \in DOMAIN s => z = "serverName"
    BY OneDomain, ZenonT(60)
  <2>3. \A z : z \in DOMAIN g => z = "fingerprint"
    BY OneDomain, ZenonT(60)
  <2>4. \A z : z \in DOMAIN k => z = "publicKey"
    BY OneDomain, ZenonT(60)
  <2>5. \A z : z \in DOMAIN i <=> z = "shortId"
    BY OneDomain, ZenonT(60)
  <2>6. \A z : z \in DOMAIN y => z = "spiderX"
    BY OneDomain, ZenonT(60)
  <2>7. \A z : z \in DOMAIN t => z = "network"
    BY OneDomain, ZenonT(60)
  <2> QED
    BY <2>1, <2>2, <2>3, <2>4, <2>5, <2>6, <2>7, Zenon
<1>9. i["shortId"] = n.tls.sid
  BY OneValue, Zenon
<1> HIDE DEF f, p, s, g, k, i, y, t, a1, a2, a3, a4
<1>10. \A z : z \in DOMAIN a <=>
        \/ z \in DOMAIN b \/ z \in DOMAIN f \/ z \in DOMAIN p \/ z \in DOMAIN c
        \/ z \in DOMAIN s \/ z \in DOMAIN g \/ z \in DOMAIN k
  BY <1>3, MergedDomain, SMT
<1>11. \A z : z \in DOMAIN x <=>
        \/ z \in DOMAIN a \/ z \in DOMAIN i \/ z \in DOMAIN y \/ z \in DOMAIN t
        \/ z \in DOMAIN a1 \/ z \in DOMAIN a2 \/ z \in DOMAIN a3 \/ z \in DOMAIN a4
  BY <1>5, MergedDomain, SMT
<1>12. "shortId" \notin DOMAIN a
  <2>1. \A z : z \in DOMAIN a =>
            \/ z \in {"type", "tag", "server", "port", "id"}
            \/ z \in {"flow", "packetEncoding", "security", "serverName", "fingerprint", "publicKey"}
    <3>1. \A z : z \in DOMAIN a =>
            \/ z \in {"type", "tag", "server", "port", "id"}
            \/ z = "flow" \/ z = "packetEncoding" \/ z = "security"
            \/ z = "serverName" \/ z = "fingerprint" \/ z = "publicKey"
      BY <1>6, <1>7, <1>8, <1>10, <1>17, Zenon
    <3> QED
      BY <3>1
  <2> QED
    BY <2>1
<1>13. "shortId" \in DOMAIN i
  BY <1>8
<1>14. x["shortId"] = n.tls.sid
  <2>1. PICK m : m = a @@ i
    OBVIOUS
  <2>2. "shortId" \in DOMAIN m /\ m["shortId"] = i["shortId"]
    BY <1>12, <1>13, <2>1, MergedDomain, MergedRight, SMT
  <2>3. x = m @@ y @@ t @@ a1 @@ a2 @@ a3 @@ a4
    BY <1>5, <2>1, Zenon
  <2>4. \A z \in DOMAIN m : x[z] = m[z]
    BY <2>3, MergedDomain, MergedLeft, SMT
  <2> QED
    BY <1>9, <2>2, <2>4, Zenon
<1>15. "flow" \in DOMAIN x <=> n.flow # ""
  <2>1. "flow" \notin DOMAIN b
    BY <1>6, SMT
  <2>2. "flow" \notin DOMAIN p
    BY <1>7, Zenon
  <2>3. "flow" \notin DOMAIN c
    BY <1>8, SMT
  <2>4. "flow" \notin DOMAIN s
    BY <1>8, SMT
  <2>5. "flow" \notin DOMAIN g
    BY <1>8, SMT
  <2>6. "flow" \notin DOMAIN k
    BY <1>8, SMT
  <2>7. "flow" \notin DOMAIN i
    BY <1>8, SMT
  <2>8. "flow" \notin DOMAIN y
    BY <1>8, SMT
  <2>9. "flow" \notin DOMAIN t
    BY <1>8, SMT
  <2>10. "flow" \notin DOMAIN a1
    BY <1>7, Zenon
  <2>11. "flow" \notin DOMAIN a2
    BY <1>7, Zenon
  <2>12. "flow" \notin DOMAIN a3
    BY <1>7, Zenon
  <2>13. "flow" \notin DOMAIN a4
    BY <1>7, Zenon
  <2> QED
    BY <1>17, <1>10, <1>11, <2>1, <2>2, <2>3, <2>4, <2>5, <2>6, <2>7, <2>8, <2>9, <2>10, <2>11, <2>12, <2>13, Zenon
<1>16. "shortId" \in DOMAIN x
  BY <1>11, <1>13, Zenon
<1> QED
  BY <1>4, <1>14, <1>15, <1>16, Zenon DEF SidecarSays

LEMMA AskedBooleans ==
  ASSUME NEW format \in {"link", "json", "clash"}, NEW e
  PROVE  Asked(format, e).tls \in BOOLEAN /\ Asked(format, e).insecure \in BOOLEAN
  BY DEF Asked, Enabled, IsTrue

\* A server of the library, and the entry of the text it was made of.
LEMMA ServerFacts ==
  ASSUME ImportInv, stage # "source", NEW i \in DOMAIN library
  PROVE  LET n == library[i]
         IN  /\ NodeShape(n) /\ ProtocolValid(n)
             /\ NodeSecurity(n) = Asked(Detected(text), AcceptedEntries[i])
             /\ n.tls.enabled \in BOOLEAN /\ n.tls.insecure \in BOOLEAN
<1> DEFINE n == library[i]
           format == Detected(text)
           e == AcceptedEntries[i]
<1>1. library = Import(text, MaxNodes)
  BY Zenon DEF ImportInv
<1>2. /\ text.entries \in Seq(Range(text.entries))
      /\ \A x \in Range(text.entries) : WellFormed(x.q)
  BY TextsAssumption, Zenon DEF ImportInv
<1>3. e \in Range(text.entries) /\ n = Parse(format, e) /\ n # Rejected
  BY <1>1, <1>2, ImportFacts, Zenon
<1>4. format # "unknown"
  <2> SUFFICES ASSUME format = "unknown" PROVE FALSE
    OBVIOUS
  <2>1. library = <<>>
    BY <1>1, Zenon DEF Import
  <2> QED
    BY <2>1, NoneDomain, Zenon
<1>5. format \in {"link", "json", "clash"}
  BY <1>4 DEF Detected
<1> HIDE DEF format, e, n
<1>6. WellFormed(e.q)
  BY <1>2, <1>3
<1>7. NodeSecurity(n) = Asked(format, e)
  BY <1>3, <1>5, <1>6, ParserKeeps, Zenon
<1>8. NodeShape(n) /\ Create(n) = n
  BY <1>3, ParsedShape, Zenon
<1>9. ProtocolValid(n)
  BY <1>3, <1>8, Created, Zenon
<1>10. NodeSecurity(n).tls = n.tls.enabled /\ NodeSecurity(n).insecure = n.tls.insecure
  BY DEF NodeSecurity
<1>11. n.tls.enabled \in BOOLEAN /\ n.tls.insecure \in BOOLEAN
  BY <1>5, <1>7, <1>10, AskedBooleans, Zenon
<1> QED
  BY <1>7, <1>8, <1>9, <1>11, Zenon DEF n, format, e

\* What a configuration for one server says of it; a bridge says it to its sidecar.
Conveys(config, n, port) ==
    LET o == config.outbounds[1]
    IN  IF IsReality(n)
        THEN /\ "type" \in DOMAIN o /\ o["type"] = "socks"
             /\ "bridge_port" \in DOMAIN o /\ o["bridge_port"] = port
        ELSE Says(o, n)

LEMMA ExitConveys ==
  ASSUME NEW r, "node" \in DOMAIN r, NEW n, NodeShape(n), ProtocolValid(n), NEW port,
         ExitConfig(r, n, port) # NoConfig
  PROVE  /\ Conveys(ExitConfig(r, n, port), n, port)
         /\ IsReality(n) => XrayFits(n, port, r.upstream)
<1>1. PICK q : q = [r EXCEPT !.node = n]
  OBVIOUS
<1>2. q.node = n
  BY <1>1
<1>3. PICK config : config = ExitConfig(r, n, port)
  OBVIOUS
<1>4. \A exit, bridged : Generated(q, exit, bridged) # NoConfig =>
            Generated(q, exit, bridged) = Root(q, exit, bridged)
  BY Zenon DEF Generated
<1>5. \A exit, bridged : Root(q, exit, bridged).outbounds[1] =
            exit @@ When(ThroughVpn(q), "domain_resolver" :> "bootstrap")
  BY DEF Root
<1> DEFINE f == When(ThroughVpn(q), "domain_resolver" :> "bootstrap")
<1>6. \A x \in DOMAIN f : x \in {"domain_resolver", "bind_interface"}
  <2>1. \A x : x \in DOMAIN ("domain_resolver" :> "bootstrap") => x = "domain_resolver"
    BY OneDomain, Zenon
  <2>2. \A x : x \in DOMAIN f => x = "domain_resolver"
    BY <2>1, NoneDomain, Zenon DEF When
  <2> QED
    BY <2>2
<1> HIDE DEF f
<1>7. CASE ~IsReality(n)
  <2>1. PICK exit : exit = SelectedOutbound(n, q.udp_over_tcp)
    OBVIOUS
  <2>2. config = Generated(q, exit, FALSE)
    BY <1>1, <1>2, <1>3, <1>7, <2>1, Zenon DEF ExitConfig, Generate
  <2>3. config = Root(q, exit, FALSE)
    BY <1>3, <1>4, <2>2, Zenon
  <2>4. config.outbounds[1] = exit @@ f
    BY <1>5, <2>3, Zenon DEF f
  <2>5. Says(exit, n)
    BY <2>1, SelectedSays, Zenon
  <2>6. Says(exit @@ f, n)
    BY <1>6, <2>5, SaysAfter, Zenon
  <2> QED
    BY <1>3, <1>7, <2>4, <2>6, Zenon DEF Conveys
<1>8. CASE IsReality(n)
  <2>1. XrayConfig(n, port, r.upstream) # NoConfig
    BY <1>8, Zenon DEF ExitConfig
  <2>2. XrayFits(n, port, r.upstream)
    BY <2>1, Zenon DEF XrayConfig
  <2>3. config = GenerateBridge(q, port) /\ config # NoConfig
    BY <1>1, <1>3, <1>8, <2>1, Zenon DEF ExitConfig
  <2>4. PICK exit : exit = SocksBridge(port)
    OBVIOUS
  <2>5. config = Generated(q, exit, TRUE)
    BY <2>3, <2>4, Zenon DEF GenerateBridge
  <2>6. config = Root(q, exit, TRUE)
    BY <1>4, <2>3, <2>5, Zenon
  <2>7. config.outbounds[1] = exit @@ f
    BY <1>5, <2>6, Zenon DEF f
  <2>8. /\ "type" \in DOMAIN exit /\ exit["type"] = "socks"
        /\ "bridge_port" \in DOMAIN exit /\ exit["bridge_port"] = port
    BY <2>4, One, Both DEF :>, @@, SocksBridge, Outbound
  <2>9. PICK o : o = exit @@ f
    OBVIOUS
  <2>10. /\ "type" \in DOMAIN o /\ o["type"] = "socks"
         /\ "bridge_port" \in DOMAIN o /\ o["bridge_port"] = port
    BY <2>8, <2>9, MergedDomain, MergedLeft, SMT
  <2>11. config.outbounds[1] = o
    BY <2>7, <2>9
  <2> QED
    BY <1>3, <1>8, <2>2, <2>10, <2>11, Zenon DEF Conveys
<1> QED
  BY <1>7, <1>8

-----------------------------------------------------------------------------
(* The sidecar of a session *)

\* The exits of a session have names of their own.
LEMMA TagsApart ==
  ASSUME NEW n \in Nat, n <= MaxSwitchNodes
  PROVE  \A i, j \in 1..n : NodeTag(i) = NodeTag(j) => i = j
<1>1. /\ MaxSwitchNodes \in Nat /\ NodeTags \in Seq(Range(NodeTags))
      /\ Len(NodeTags) >= MaxSwitchNodes /\ IsInjective(NodeTags)
  BY TagsAssumption
<1>2. \A i \in 1..n : i \in DOMAIN NodeTags
  BY <1>1
<1> QED
  BY <1>1, <1>2 DEF NodeTag, IsInjective

\* The sidecar of a session: what arrives at the port of a bridge leaves by the exit
\* it was made for.
LEMMA SidecarOfExit ==
  ASSUME NEW r, NEW usable, usable \in Seq(Range(usable)), Len(usable) <= MaxSwitchNodes,
         \A k, m \in DOMAIN usable : usable[k].port = usable[m].port => k = m,
         xray = SwitchXray(r, usable),
         NEW k \in DOMAIN usable, IsReality(usable[k].node)
  PROVE  XrayExit(usable[k].port) = Retag(XrayOutbound(usable[k].node, r.upstream), NodeTag(k))
<1> DEFINE pairs == [i \in DOMAIN usable |-> <<i, usable[i]>>]
           places == {i \in DOMAIN usable : IsReality(usable[i].node)}
           n == Cardinality(places)
           order == InOrder(places)
           bridged == Picked(pairs, places)
           Out(i) == Retag(XrayOutbound(usable[i].node, r.upstream), NodeTag(i))
<1>1. DOMAIN usable = 1..Len(usable) /\ Len(usable) \in Nat
  OBVIOUS
<1>2. pairs \in Seq(Range(pairs)) /\ DOMAIN pairs = DOMAIN usable
  <2>1. DOMAIN pairs = 1..Len(usable) /\ pairs = [i \in 1..Len(usable) |-> pairs[i]]
    BY <1>1
  <2> HIDE DEF pairs
  <2> QED
    BY <1>1, <2>1, Zenon, ListIsSeq
<1>3. places \in SUBSET (DOMAIN pairs) /\ k \in places /\ places \in SUBSET (1..Len(usable))
  BY <1>1, <1>2
<1>4. \A i \in DOMAIN usable : pairs[i] = <<i, usable[i]>>
  OBVIOUS
<1>5. \A i, j \in 1..Len(usable) : NodeTag(i) = NodeTag(j) => i = j
  BY <1>1, TagsApart
<1> HIDE DEF pairs, places
<1>6. /\ bridged \in Seq(Range(pairs)) /\ Len(bridged) = n /\ n \in Nat /\ IsOrder(order, places)
      /\ \A m \in 1..n : order[m] \in places /\ bridged[m] = pairs[order[m]]
  BY <1>2, <1>3, PickedFacts
<1>7. DOMAIN bridged = 1..n
  BY <1>6
<1>8. PICK b : b = bridged
  OBVIOUS
<1>9. \A m \in 1..n : /\ order[m] \in DOMAIN usable
                      /\ b[m] = <<order[m], usable[order[m]]>>
  BY <1>1, <1>3, <1>4, <1>6, <1>8
<1>10. xray = [inbounds |-> [m \in DOMAIN b |-> [port |-> b[m][2].port, tag |-> NodeTag(b[m][1])]],
               outbounds |-> [m \in DOMAIN b |-> Retag(XrayOutbound(b[m][2].node, r.upstream), NodeTag(b[m][1]))],
               rules |-> [m \in DOMAIN b |-> [inbound |-> NodeTag(b[m][1]), outbound |-> NodeTag(b[m][1])]]]
  BY <1>8, Zenon DEF SwitchXray, pairs, places
<1>11. PICK j \in 1..n : order[j] = k
  BY <1>3, <1>6 DEF IsOrder
<1>12. \A m \in 1..n : order[m] = k => m = j
  <2> SUFFICES ASSUME NEW m \in 1..n, order[m] = k PROVE m = j
    OBVIOUS
  <2>1. ~(m < j) /\ ~(j < m)
    <3>1. k \in Nat
      BY <1>1
    <3> QED
      BY <1>6, <1>11, <3>1 DEF IsOrder
  <2> QED
    BY <1>6, <2>1
<1>13. DOMAIN b = 1..n
  BY <1>7, <1>8
<1> HIDE DEF n, order, bridged
<1>14. /\ DOMAIN xray.inbounds = 1..n /\ DOMAIN xray.outbounds = 1..n /\ DOMAIN xray.rules = 1..n
       /\ \A m \in 1..n :
            /\ xray.inbounds[m] = [port |-> usable[order[m]].port, tag |-> NodeTag(order[m])]
            /\ xray.outbounds[m] = Out(order[m])
            /\ xray.rules[m] = [inbound |-> NodeTag(order[m]), outbound |-> NodeTag(order[m])]
  <2>1. \A m \in 1..n : b[m][1] = order[m] /\ b[m][2] = usable[order[m]]
    BY <1>9
  <2>2. DOMAIN xray.inbounds = 1..n /\ DOMAIN xray.outbounds = 1..n /\ DOMAIN xray.rules = 1..n
    BY <1>10, <1>13
  <2>3. \A m \in 1..n :
            /\ xray.inbounds[m] = [port |-> b[m][2].port, tag |-> NodeTag(b[m][1])]
            /\ xray.outbounds[m] = Retag(XrayOutbound(b[m][2].node, r.upstream), NodeTag(b[m][1]))
            /\ xray.rules[m] = [inbound |-> NodeTag(b[m][1]), outbound |-> NodeTag(b[m][1])]
    BY <1>10, <1>13
  <2> QED
    BY <2>1, <2>2, <2>3
<1>23. /\ \A m \in 1..n : xray.inbounds[m].port = usable[order[m]].port
       /\ \A m \in 1..n : xray.inbounds[m].tag = NodeTag(order[m])
       /\ \A m \in 1..n : xray.rules[m].inbound = NodeTag(order[m])
       /\ \A m \in 1..n : xray.rules[m].outbound = NodeTag(order[m])
  <2> SUFFICES ASSUME NEW m \in 1..n
               PROVE  /\ xray.inbounds[m].port = usable[order[m]].port
                      /\ xray.inbounds[m].tag = NodeTag(order[m])
                      /\ xray.rules[m].inbound = NodeTag(order[m])
                      /\ xray.rules[m].outbound = NodeTag(order[m])
    OBVIOUS
  <2>1. PICK in : in = xray.inbounds[m]
    OBVIOUS
  <2>2. PICK rule : rule = xray.rules[m]
    OBVIOUS
  <2>3. /\ in = [port |-> usable[order[m]].port, tag |-> NodeTag(order[m])]
        /\ rule = [inbound |-> NodeTag(order[m]), outbound |-> NodeTag(order[m])]
    BY <1>14, <2>1, <2>2, Zenon
  <2>4. /\ in.port = usable[order[m]].port /\ in.tag = NodeTag(order[m])
        /\ rule.inbound = NodeTag(order[m]) /\ rule.outbound = NodeTag(order[m])
    BY <2>3
  <2> QED
    BY <2>1, <2>2, <2>4, Zenon
<1>15. \A i : Field(Out(i), "tag", "") = NodeTag(i)
  <2> SUFFICES ASSUME NEW i PROVE Field(Out(i), "tag", "") = NodeTag(i)
    OBVIOUS
  <2>1. PICK o : o = XrayOutbound(usable[i].node, r.upstream)
    OBVIOUS
  <2>2. PICK t : t = "tag" :> NodeTag(i)
    OBVIOUS
  <2>3. Out(i) = t @@ o
    BY <2>1, <2>2, Zenon DEF Retag
  <2>4. "tag" \in DOMAIN t /\ t["tag"] = NodeTag(i)
    BY <2>2, OneDomain, OneValue, Zenon
  <2>6. "tag" \in DOMAIN (t @@ o)
    BY <2>4, MergedDomain, Zenon
  <2>7. (t @@ o)["tag"] = t["tag"]
    BY <2>4, MergedLeft, Zenon
  <2>5. "tag" \in DOMAIN (t @@ o) /\ (t @@ o)["tag"] = NodeTag(i)
    BY <2>4, <2>6, <2>7, Zenon
  <2> QED
    BY <2>3, <2>5, Zenon DEF Field
<1> HIDE DEF Out
<1>16. (CHOOSE i \in DOMAIN xray.inbounds : xray.inbounds[i].port = usable[k].port) = j
  <2>1. j \in DOMAIN xray.inbounds /\ xray.inbounds[j].port = usable[k].port
    BY <1>11, <1>14, <1>23
  <2>2. \A i \in DOMAIN xray.inbounds : xray.inbounds[i].port = usable[k].port => i = j
    <3> SUFFICES ASSUME NEW i \in 1..n, xray.inbounds[i].port = usable[k].port PROVE i = j
      BY <1>14, <1>23
    <3>1. usable[order[i]].port = usable[k].port /\ order[i] \in DOMAIN usable
      BY <1>9, <1>14, <1>23
    <3>2. order[i] = k
      BY <3>1
    <3> QED
      BY <1>12, <3>2
  <2> QED
    BY <2>1, <2>2
<1>17. {i \in DOMAIN xray.rules : xray.rules[i].inbound = xray.inbounds[j].tag} = {j}
  <2>1. xray.inbounds[j].tag = NodeTag(k) /\ xray.rules[j].inbound = NodeTag(k)
    BY <1>11, <1>14, <1>23
  <2>2. ASSUME NEW i \in 1..n, xray.rules[i].inbound = NodeTag(k) PROVE i = j
    <3>1. NodeTag(order[i]) = NodeTag(k) /\ order[i] \in 1..Len(usable) /\ k \in 1..Len(usable)
      BY <1>1, <1>9, <1>14, <1>23, <2>2
    <3> QED
      BY <1>5, <1>12, <3>1
  <2> QED
    BY <1>14, <1>23, <2>1, <2>2
<1>18. Tagged(xray.outbounds, NodeTag(k)) = {j}
  <2>1. Field(xray.outbounds[j], "tag", "") = NodeTag(k)
    BY <1>11, <1>14, <1>23, <1>15
  <2>2. ASSUME NEW i \in 1..n, Field(xray.outbounds[i], "tag", "") = NodeTag(k) PROVE i = j
    <3>1. NodeTag(order[i]) = NodeTag(k) /\ order[i] \in 1..Len(usable) /\ k \in 1..Len(usable)
      BY <1>1, <1>9, <1>14, <1>23, <1>15, <2>2
    <3> QED
      BY <1>5, <1>12, <3>1
  <2> QED
    BY <1>14, <1>23, <2>1, <2>2 DEF Tagged
<1>19. Min({j}) = j
  <2>1. {j} \in SUBSET Nat /\ {j} # {} /\ j \in {j} /\ \A x \in {j} : j <= x
    BY <1>6
  <2> QED
    BY <2>1, Least
<1>20. First(xray.outbounds, NodeTag(k)) = Out(k)
  BY <1>11, <1>14, <1>23, <1>18, <1>19, ZenonT(60) DEF First
<1>21. xray.rules[j].outbound = NodeTag(k)
  BY <1>11, <1>14, <1>23
<1>22. XrayExit(usable[k].port) = First(xray.outbounds, xray.rules[j].outbound)
  BY <1>16, <1>17, <1>19, Zenon DEF XrayExit
<1> QED
  BY <1>20, <1>21, <1>22, Zenon DEF Out

\* The exits of a session stand in their order behind the two selectors and the way out.
LEMMA CombinedExits ==
  ASSUME NEW configs, NEW n \in Nat, DOMAIN configs = 1..n, Len(configs) = n,
         NEW control, NEW candidate, NEW alias, NEW k \in 1..n
  PROVE  LET c == CombineConfigs(configs, control, candidate, alias)
         IN  Switches(c) /\ c.outbounds[k + 3] = BoundExit(configs[k], k, alias)
<1>1. PICK c : c = CombineConfigs(configs, control, candidate, alias)
  OBVIOUS
<1>2. PICK three : three = <<Selector("selected", n), Selector("candidate", n), BoundDirect(alias)>>
  OBVIOUS
<1>3. PICK rest : rest = [i \in 1..n |-> BoundExit(configs[i], i, alias)]
  OBVIOUS
<1>4. c.outbounds = three \o rest /\ "control" \in DOMAIN c
  BY <1>1, <1>2, <1>3 DEF CombineConfigs
<1> DEFINE X == Range(three) \cup Range(rest)
<1>5. three \in Seq(X) /\ Len(three) = 3
  <2>1. three \in [1..3 -> X]
    BY <1>2 DEF Range
  <2> QED
    BY <1>2, <2>1
<1>6. rest \in Seq(X) /\ Len(rest) = n
  <2>1. DOMAIN rest = 1..n /\ rest = [i \in 1..n |-> rest[i]]
    BY <1>3
  <2>2. rest \in Seq(Range(rest)) /\ Len(rest) = n
    BY <2>1, Zenon, ListIsSeq
  <2> QED
    BY <2>2
<1> HIDE DEF X
<1>7. (three \o rest)[k + 3] = rest[k]
  <2>1. \A i \in 1..(Len(three) + Len(rest)) :
            (three \o rest)[i] = IF i <= Len(three) THEN three[i] ELSE rest[i - Len(three)]
    BY <1>5, <1>6, ConcatProperties
  <2>2. k + 3 \in 1..(Len(three) + Len(rest)) /\ ~(k + 3 <= Len(three)) /\ (k + 3) - Len(three) = k
    BY <1>5, <1>6
  <2> QED
    BY <2>1, <2>2
<1>8. rest[k] = BoundExit(configs[k], k, alias)
  BY <1>3
<1> QED
  BY <1>1, <1>4, <1>7, <1>8, Zenon DEF Switches

\* What the outbound of an exit says, for a session or alone.
Speaks(o, n, port) ==
    IF IsReality(n)
    THEN /\ "type" \in DOMAIN o /\ o["type"] = "socks"
         /\ "bridge_port" \in DOMAIN o /\ o["bridge_port"] = port
    ELSE Says(o, n)

LEMMA BoundSpeaks ==
  ASSUME NEW config, NEW n, NEW port, Conveys(config, n, port), NEW k, NEW alias
  PROVE  Speaks(BoundExit(config, k, alias), n, port)
<1>1. PICK o : o = config.outbounds[1]
  OBVIOUS
<1>2. PICK t : t = "tag" :> NodeTag(k)
  OBVIOUS
<1>3. PICK f : f = When(o["type"] # "socks", "bind_interface" :> alias)
  OBVIOUS
<1>4. PICK m : m = t @@ o
  OBVIOUS
<1>5. PICK b : b = m @@ f
  OBVIOUS
<1>6. BoundExit(config, k, alias) = b
  BY <1>1, <1>2, <1>3, <1>4, <1>5, Zenon DEF BoundExit
<1>7. CASE ~IsReality(n)
  <2>1. Says(o, n)
    BY <1>1, <1>7, Zenon DEF Conveys
  <2>2. Says(m, n)
    BY <1>2, <1>4, <2>1, SaysTagged, Zenon
  <2>3. \A x \in DOMAIN f : x \in {"domain_resolver", "bind_interface"}
    <3>1. \A x : x \in DOMAIN ("bind_interface" :> alias) => x = "bind_interface"
      BY OneDomain, Zenon
    <3>2. \A x : x \in DOMAIN f => x = "bind_interface"
      BY <1>3, <3>1, NoneDomain, Zenon DEF When
    <3> QED
      BY <3>2
  <2>4. Says(m @@ f, n)
    BY <2>2, <2>3, SaysAfter, Zenon
  <2> QED
    BY <1>5, <1>6, <1>7, <2>4, Zenon DEF Speaks
<1>8. CASE IsReality(n)
  <2>1. /\ "type" \in DOMAIN o /\ o["type"] = "socks"
        /\ "bridge_port" \in DOMAIN o /\ o["bridge_port"] = port
    BY <1>1, <1>8, Zenon DEF Conveys
  <2>2. \A x : x # "tag" => x \notin DOMAIN t
    BY <1>2, OneDomain, Zenon
  <2>3. \A x \in DOMAIN o : x # "tag" => x \in DOMAIN m /\ m[x] = o[x]
    BY <1>4, <2>2, MergedDomain, MergedRight, SMT
  <2>4. \A x \in DOMAIN m : x \in DOMAIN b /\ b[x] = m[x]
    BY <1>5, MergedDomain, MergedLeft, SMT
  <2>5. "type" # "tag" /\ "bridge_port" # "tag"
    OBVIOUS
  <2>6. /\ "type" \in DOMAIN b /\ b["type"] = o["type"]
        /\ "bridge_port" \in DOMAIN b /\ b["bridge_port"] = o["bridge_port"]
    BY <2>1, <2>3, <2>4, <2>5, Zenon
  <2> QED
    BY <1>6, <1>8, <2>1, <2>6, Zenon DEF Speaks
<1> QED
  BY <1>7, <1>8

\* What an exit says, and its sidecar where it has one, is what its node asks for.
LEMMA TellsNode ==
  ASSUME NEW n, NodeShape(n), n.tls.enabled \in BOOLEAN, n.tls.insecure \in BOOLEAN,
         NEW port, NEW upstream, NEW k,
         Speaks(sealed.outbounds[IF Switches(sealed) THEN k + 3 ELSE 1], n, port),
         IsReality(n) => XrayFits(n, port, upstream) /\ SidecarSays(XrayExit(port), n)
  PROVE  Told(k) = NodeSecurity(n)
<1>1. PICK o : o = sealed.outbounds[IF Switches(sealed) THEN k + 3 ELSE 1]
  OBVIOUS
<1>2. Told(k) = IF o["type"] # "socks" THEN Heard(o)
        ELSE [tls |-> TRUE, reality |-> XrayExit(o["bridge_port"])["shortId"], insecure |-> FALSE,
              pins |-> FALSE, ech |-> FALSE, obfs |-> FALSE,
              vision |-> "flow" \in DOMAIN XrayExit(o["bridge_port"])]
  BY <1>1, Zenon DEF Told, Heard
<1>3. CASE ~IsReality(n)
  <2>1. Says(o, n)
    BY <1>1, <1>3, Zenon DEF Speaks
  <2>2. o["type"] # "socks"
    BY <2>1, Zenon DEF Says
  <2>3. Heard(o) = NodeSecurity(n)
    BY <2>1, SaysHeard, Zenon
  <2> QED
    BY <1>2, <2>2, <2>3, Zenon
<1>4. CASE IsReality(n)
  <2>1. o["type"] = "socks" /\ o["bridge_port"] = port
    BY <1>1, <1>4, Zenon DEF Speaks
  <2>2. PICK x : x = XrayExit(port)
    OBVIOUS
  <2>3. Told(k) = [tls |-> TRUE, reality |-> x["shortId"], insecure |-> FALSE, pins |-> FALSE,
                   ech |-> FALSE, obfs |-> FALSE, vision |-> "flow" \in DOMAIN x]
    BY <1>2, <2>1, <2>2, Zenon
  <2>4. x["shortId"] = n.tls.sid /\ ("flow" \in DOMAIN x <=> n.flow # "")
    BY <1>4, <2>2, Zenon DEF SidecarSays
  <2>5. XrayFits(n, port, upstream)
    BY <1>4
  <2>6. n.tls.enabled = TRUE /\ n.tls.insecure = FALSE
    BY <2>5, Zenon DEF XrayFits
  <2>7. n.tls.pins = "" /\ n.tls.ech = ""
    <3>1. {n.tls.alpn, n.tls.pins, n.tls.ech} = {""}
      BY <2>5, Zenon DEF XrayFits
    <3> QED
      BY <3>1
  <2>8. n.tls.reality # "" /\ n.obfs = ""
    <3>1. n.kind = "vless" /\ n.tls.reality # ""
      BY <1>4, Zenon DEF IsReality
    <3>2. n.kind # "hysteria2"
      BY <3>1
    <3> QED
      BY <3>1, <3>2, Zenon DEF NodeShape
  <2> DEFINE a == n.tls.pins # ""
             b == n.tls.ech # ""
             c == n.obfs # ""
             d == n.flow # ""
             e == "flow" \in DOMAIN x
  <2>9. a \in BOOLEAN /\ b \in BOOLEAN /\ c \in BOOLEAN /\ d \in BOOLEAN /\ e \in BOOLEAN
    OBVIOUS
  <2>10. ~a /\ ~b /\ ~c /\ (d <=> e)
    BY <2>4, <2>7, <2>8, Zenon
  <2> HIDE DEF a, b, c, d, e
  <2>11. a = FALSE /\ b = FALSE /\ c = FALSE /\ d = e
    BY <2>9, <2>10
  <2>12. NodeSecurity(n) = [tls |-> n.tls.enabled, reality |-> n.tls.sid, insecure |-> n.tls.insecure,
                            pins |-> a, ech |-> b, obfs |-> c, vision |-> d]
    BY <2>8, Zenon DEF NodeSecurity, a, b, c, d
  <2> QED
    BY <2>3, <2>4, <2>6, <2>11, <2>12, Zenon DEF e
<1> QED
  BY <1>3, <1>4

-----------------------------------------------------------------------------
(* What the application hands to its engines *)

LEMMA RetagTells ==
  ASSUME NEW n, NEW upstream, NEW tag
  PROVE  SidecarSays(Retag(XrayOutbound(n, upstream), tag), n)
<1>1. PICK x : x = XrayOutbound(n, upstream)
  OBVIOUS
<1>2. SidecarSays(x, n) /\ "shortId" \in DOMAIN x
  BY <1>1, XrayTells, Zenon
<1>3. PICK t : t = "tag" :> tag
  OBVIOUS
<1>4. PICK m : m = t @@ x
  OBVIOUS
<1>5. \A z : z # "tag" => z \notin DOMAIN t
  BY <1>3, OneDomain, Zenon
<1>6. \A z : z # "tag" => (z \in DOMAIN m <=> z \in DOMAIN x)
  BY <1>4, <1>5, MergedDomain, SMT
<1>7. \A z \in DOMAIN x : z # "tag" => m[z] = x[z]
  BY <1>4, <1>5, MergedRight, Zenon
<1>8. "shortId" # "tag" /\ "flow" # "tag"
  OBVIOUS
<1>9. m["shortId"] = x["shortId"] /\ ("flow" \in DOMAIN m <=> "flow" \in DOMAIN x)
  BY <1>2, <1>6, <1>7, <1>8, Zenon
<1>10. SidecarSays(m, n)
  BY <1>2, <1>9, Zenon DEF SidecarSays
<1>11. Retag(XrayOutbound(n, upstream), tag) = m
  BY <1>1, <1>3, <1>4, Zenon DEF Retag
<1> QED
  BY <1>10, <1>11, Zenon

\* What the application hands to the engine of one server, and to that of a TUN session.
ProxyExit(i, approval) ==
    LET r == RequestFor(i, approval)
        config == ExitConfig(r, library[i], BridgePort(1))
    IN  /\ config # NoConfig /\ sealed = config
        /\ exits = <<[server |-> i, node |-> library[i], port |-> BridgePort(1), config |-> config]>>
        /\ xray = IF IsReality(library[i])
                  THEN XrayConfig(library[i], BridgePort(1), NoUpstream) ELSE NoConfig

TunExits(i, approval) ==
    LET r == RequestFor(i, approval)
        usable == Exits(r, library, i)
    IN  /\ usable # <<>> /\ Len(usable) <= MaxSwitchNodes /\ exits = usable
        /\ sealed = SwitchConfig(r, usable, [port |-> 4, secret |-> "ok"], 5)
        /\ xray = SwitchXray(r, usable)

ExitInv ==
    stage = "generated" =>
        \E i \in DOMAIN library : \E approval :
            IF request.mode.kind = "tun" THEN TunExits(i, approval) ELSE ProxyExit(i, approval)

LEMMA ExitInit ==
  ASSUME Init PROVE ExitInv
  BY DEF Init, ExitInv

LEMMA ExitStep ==
  ASSUME ImportInv, ExitInv, [Next]_vars
  PROVE  ExitInv'
<1>1. CASE ImportText
  BY <1>1 DEF ImportText, ExitInv
<1>2. CASE StartProxy
  <2>1. PICK i \in DOMAIN library, approval \in {NoApproval} \cup {Approval(n) : n \in Range(library)} :
            LET r == RequestFor(i, approval)
                config == ExitConfig(r, library[i], BridgePort(1))
            IN  IF config = NoConfig THEN Refuse
                ELSE /\ stage' = "generated" /\ sealed' = config
                     /\ exits' = <<[server |-> i, node |-> library[i], port |-> BridgePort(1),
                                    config |-> config]>>
                     /\ xray' = IF IsReality(library[i])
                                THEN XrayConfig(library[i], BridgePort(1), NoUpstream) ELSE NoConfig
                     /\ UNCHANGED <<text, library, request, launched>>
    BY <1>2, Zenon DEF StartProxy
  <2> DEFINE config == ExitConfig(RequestFor(i, approval), library[i], BridgePort(1))
  <2>2. CASE config = NoConfig
    <3>1. stage' = "refused"
      BY <2>1, <2>2, Zenon DEF Refuse
    <3> QED
      BY <3>1 DEF ExitInv
  <2>3. CASE config # NoConfig
    <3>1. /\ sealed' = config
          /\ exits' = <<[server |-> i, node |-> library[i], port |-> BridgePort(1), config |-> config]>>
          /\ xray' = IF IsReality(library[i])
                     THEN XrayConfig(library[i], BridgePort(1), NoUpstream) ELSE NoConfig
          /\ library' = library /\ request' = request
      BY <2>1, <2>3
    <3>2. request.mode.kind # "tun"
      BY <1>2, Zenon DEF StartProxy
    <3>3. RequestFor(i, approval)' = RequestFor(i, approval)
      BY <3>1, Zenon DEF RequestFor
    <3>4. ProxyExit(i, approval)'
      BY <2>3, <3>1, <3>3, Zenon DEF ProxyExit
    <3>5. i \in DOMAIN library' /\ request'.mode.kind # "tun"
      BY <3>1, <3>2
    <3> QED
      BY <3>4, <3>5, Zenon DEF ExitInv
  <2> QED
    BY <2>2, <2>3
<1>3. CASE StartTun
  <2>1. PICK i \in DOMAIN library, approval \in {NoApproval} \cup {Approval(n) : n \in Range(library)} :
            LET r == RequestFor(i, approval)
                usable == Exits(r, library, i)
            IN  IF usable = <<>> \/ usable[1].server # i \/ Len(usable) > MaxSwitchNodes THEN Refuse
                ELSE /\ stage' = "generated" /\ exits' = usable
                     /\ sealed' = SwitchConfig(r, usable, [port |-> 4, secret |-> "ok"], 5)
                     /\ xray' = SwitchXray(r, usable)
                     /\ UNCHANGED <<text, library, request, launched>>
    BY <1>3, Zenon DEF StartTun
  <2> DEFINE r == RequestFor(i, approval)
             usable == Exits(r, library, i)
  <2>2. CASE usable = <<>> \/ usable[1].server # i \/ Len(usable) > MaxSwitchNodes
    <3>1. stage' = "refused"
      BY <2>1, <2>2, Zenon DEF Refuse
    <3> QED
      BY <3>1 DEF ExitInv
  <2>3. CASE ~(usable = <<>> \/ usable[1].server # i \/ Len(usable) > MaxSwitchNodes)
    <3>1. /\ exits' = usable /\ sealed' = SwitchConfig(r, usable, [port |-> 4, secret |-> "ok"], 5)
          /\ xray' = SwitchXray(r, usable)
          /\ library' = library /\ request' = request
      BY <2>1, <2>3
    <3>2. request.mode.kind = "tun"
      BY <1>3, Zenon DEF StartTun
    <3>3. RequestFor(i, approval)' = RequestFor(i, approval)
      BY <3>1, Zenon DEF RequestFor
    <3>4. Len(usable) <= MaxSwitchNodes
      <4>2. ~(Len(usable) > MaxSwitchNodes)
        BY <2>3, Zenon
      <4>3. Len(usable) \in Nat
        <5>1. usable \in Seq(Range(usable))
          BY LibraryFacts, ExitsFacts, Zenon
        <5> HIDE DEF usable
        <5> QED
          BY <5>1
      <4>4. MaxSwitchNodes \in Nat
        BY TagsAssumption
      <4> QED
        BY <4>2, <4>3, <4>4
    <3>5. TunExits(i, approval)'
      BY <2>3, <3>1, <3>3, <3>4, Zenon DEF TunExits
    <3>6. i \in DOMAIN library' /\ request'.mode.kind = "tun"
      BY <3>1, <3>2
    <3> QED
      BY <3>5, <3>6, Zenon DEF ExitInv
  <2> QED
    BY <2>2, <2>3
<1>4. CASE Check
  BY <1>4 DEF Check, ExitInv
<1>5. CASE Launch
  BY <1>5 DEF Launch, ExitInv
<1>6. CASE UNCHANGED vars
  <2>1. /\ stage' = stage /\ library' = library /\ request' = request /\ sealed' = sealed
        /\ exits' = exits /\ xray' = xray
    BY <1>6 DEF vars
  <2> QED
    BY <2>1, Zenon DEF ExitInv, TunExits, ProxyExit, RequestFor
<1> QED
  BY <1>1, <1>2, <1>3, <1>4, <1>5, <1>6 DEF Next

LEMMA RequestHasNode ==
  ASSUME NEW i, NEW approval
  PROVE  "node" \in DOMAIN RequestFor(i, approval)
<1>1. PICK n : n = "node" :> library[i]
  OBVIOUS
<1>2. PICK a : a = "approval" :> approval
  OBVIOUS
<1>3. "node" \in DOMAIN n
  BY <1>1, OneDomain, Zenon
<1>4. PICK m : m = n @@ a
  OBVIOUS
<1>5. "node" \in DOMAIN m
  BY <1>3, <1>4, MergedDomain, Zenon
<1>6. "node" \in DOMAIN (m @@ request)
  BY <1>5, MergedDomain, Zenon
<1> QED
  BY <1>1, <1>2, <1>4, <1>6, Zenon DEF RequestFor

\* One server, alone or behind its sidecar.
LEMMA ProxyTold ==
  ASSUME ImportInv, stage = "generated", NEW i \in DOMAIN library, NEW approval,
         ProxyExit(i, approval), NEW k \in DOMAIN exits
  PROVE  exits[k].server = i /\ Told(k) = NodeSecurity(library[i])
<1>1. PICK n : n = library[i]
  OBVIOUS
<1>2. PICK r : r = RequestFor(i, approval)
  OBVIOUS
<1>3. PICK port : port = BridgePort(1)
  OBVIOUS
<1>4. PICK config : config = ExitConfig(r, n, port)
  OBVIOUS
<1>5. /\ config # NoConfig /\ sealed = config
      /\ exits = <<[server |-> i, node |-> n, port |-> port, config |-> config]>>
      /\ xray = IF IsReality(n) THEN XrayConfig(n, port, NoUpstream) ELSE NoConfig
  BY <1>1, <1>2, <1>3, <1>4, Zenon DEF ProxyExit
<1>6. /\ NodeShape(n) /\ ProtocolValid(n)
      /\ n.tls.enabled \in BOOLEAN /\ n.tls.insecure \in BOOLEAN
  <2>1. stage # "source"
    OBVIOUS
  <2> QED
    BY <1>1, <2>1, ServerFacts, Zenon
<1>7. "node" \in DOMAIN r
  BY <1>2, RequestHasNode, Zenon
<1>8. Conveys(config, n, port) /\ (IsReality(n) => XrayFits(n, port, r.upstream))
  BY <1>4, <1>5, <1>6, <1>7, ExitConveys, Zenon
<1>9. ~Switches(sealed)
  <2>1. {"policy", "mode"} \subseteq DOMAIN request
    BY RequestFacts
  <2>2. RoutesAs(config, request)
    BY <1>2, <1>4, <1>5, <2>1, ExitRoutes, Zenon
  <2> QED
    BY <1>5, <2>2, Zenon DEF RoutesAs
<1>10. Speaks(sealed.outbounds[IF Switches(sealed) THEN k + 3 ELSE 1], n, port)
  BY <1>5, <1>8, <1>9, Zenon DEF Conveys, Speaks
<1>11. ASSUME IsReality(n) PROVE SidecarSays(XrayExit(port), n)
  <2>1. XrayFits(n, port, NoUpstream)
    BY <1>8, <1>11, Zenon DEF XrayFits
  <2>2. xray = [inbounds |-> <<[port |-> port, tag |-> "bridge-in"]>>,
                outbounds |-> <<XrayOutbound(n, NoUpstream)>>, rules |-> <<>>]
    BY <1>5, <1>11, <2>1, Zenon DEF XrayConfig
  <2>3. xray.outbounds[1] = XrayOutbound(n, NoUpstream) /\ DOMAIN xray.rules = {}
    BY <2>2
  <2>4. \A tag : {j \in DOMAIN xray.rules : xray.rules[j].inbound = tag} = {}
    BY <2>3
  <2>5. XrayExit(port) = xray.outbounds[1]
    BY <2>4, Zenon DEF XrayExit
  <2> QED
    BY <2>3, <2>5, XrayTells, Zenon
<1>12. Told(k) = NodeSecurity(n)
  BY <1>6, <1>8, <1>10, <1>11, TellsNode, Zenon
<1>13. k = 1 /\ exits[1].server = i
  BY <1>5
<1> QED
  BY <1>1, <1>12, <1>13

\* The exits of a session are servers of the library, each at a port of its own.
UsableExits(usable, r) ==
    /\ usable \in Seq(Range(usable))
    /\ \A m \in DOMAIN usable : \E s \in DOMAIN library, j \in DOMAIN library :
            /\ usable[m] = Exit(r, library, s, BridgePort(j))
            /\ usable[m].config # NoConfig
    /\ \A m, j \in DOMAIN usable : usable[m].port = usable[j].port => m = j
LEMMA ExitsOfLibrary ==
  ASSUME ImportInv, NEW i \in DOMAIN library, NEW r, NEW usable, usable = Exits(r, library, i)
  PROVE  UsableExits(usable, r)
<1>1. library \in Seq(Range(library))
  BY LibraryFacts
<1> QED
  BY <1>1, ExitsFacts DEF UsableExits

\* A TUN session: one engine and one sidecar for all its exits.
LEMMA TunTold ==
  ASSUME ImportInv, stage = "generated", NEW i \in DOMAIN library, NEW approval,
         TunExits(i, approval), NEW k \in DOMAIN exits
  PROVE  /\ exits[k].server \in DOMAIN library
         /\ Told(k) = NodeSecurity(library[exits[k].server])
<1>1. PICK r : r = RequestFor(i, approval)
  OBVIOUS
<1>2. /\ exits = Exits(r, library, i) /\ Len(exits) <= MaxSwitchNodes
      /\ sealed = SwitchConfig(r, exits, [port |-> 4, secret |-> "ok"], 5)
      /\ xray = SwitchXray(r, exits)
  BY <1>1, Zenon DEF TunExits
<1>3. /\ exits \in Seq(Range(exits))
      /\ \A m \in DOMAIN exits : \E s \in DOMAIN library, j \in DOMAIN library :
            /\ exits[m] = Exit(r, library, s, BridgePort(j))
            /\ exits[m].config # NoConfig
      /\ \A m, j \in DOMAIN exits : exits[m].port = exits[j].port => m = j
  <2>1. UsableExits(exits, r)
    BY <1>2, ExitsOfLibrary, Zenon
  <2> QED
    BY <2>1, Zenon DEF UsableExits
<1>4. PICK s \in DOMAIN library, j \in DOMAIN library :
            /\ exits[k] = Exit(r, library, s, BridgePort(j))
            /\ exits[k].config # NoConfig
  BY <1>3, Zenon
<1>5. PICK port : port = BridgePort(j)
  OBVIOUS
<1>6. PICK n : n = library[s]
  OBVIOUS
<1>7. PICK config : config = ExitConfig(r, n, port)
  OBVIOUS
<1>8. exits[k] = [server |-> s, node |-> n, port |-> port, config |-> config]
  BY <1>4, <1>5, <1>6, <1>7, Zenon DEF Exit
<1>9. /\ exits[k].server = s /\ exits[k].node = n /\ exits[k].port = port
      /\ exits[k].config = config
  <2>1. PICK e : e = exits[k]
    OBVIOUS
  <2>2. e.server = s /\ e.node = n /\ e.port = port /\ e.config = config
    BY <1>8, <2>1
  <2> QED
    BY <2>1, <2>2, Zenon
<1>10. /\ NodeShape(n) /\ ProtocolValid(n)
       /\ n.tls.enabled \in BOOLEAN /\ n.tls.insecure \in BOOLEAN
  <2>1. stage # "source"
    OBVIOUS
  <2> QED
    BY <1>6, <2>1, ServerFacts, Zenon
<1>11. "node" \in DOMAIN r
  BY <1>1, RequestHasNode, Zenon
<1>12. Conveys(config, n, port) /\ (IsReality(n) => XrayFits(n, port, r.upstream))
  BY <1>4, <1>7, <1>9, <1>10, <1>11, ExitConveys, Zenon
<1>13. Switches(sealed) /\ sealed.outbounds[k + 3] = BoundExit(config, k, r.upstream.alias)
  <2>1. PICK configs : configs = [m \in DOMAIN exits |-> exits[m].config]
    OBVIOUS
  <2>2. PICK control : control = [port |-> 4, secret |-> "ok"]
    OBVIOUS
  <2>3. sealed = CombineConfigs(configs, control, 5, r.upstream.alias)
    BY <1>2, <2>1, <2>2, Zenon DEF SwitchConfig
  <2>4. DOMAIN exits = 1..Len(exits) /\ Len(exits) \in Nat
    BY <1>3
  <2>5. DOMAIN configs = 1..Len(exits) /\ configs = [m \in 1..Len(exits) |-> configs[m]]
    BY <2>1, <2>4
  <2>6. Len(configs) = Len(exits)
    BY <2>4, <2>5, ListIsSeq, Zenon
  <2>7. configs[k] = config
    BY <1>9, <2>1
  <2>8. k \in 1..Len(exits)
    BY <2>4
  <2>9. \E n1 \in Nat : n1 = Len(exits) /\ DOMAIN configs = 1..n1 /\ Len(configs) = n1 /\ k \in 1..n1
    BY <2>4, <2>5, <2>6, <2>8
  <2>10. /\ Switches(CombineConfigs(configs, control, 5, r.upstream.alias))
         /\ CombineConfigs(configs, control, 5, r.upstream.alias).outbounds[k + 3] =
                BoundExit(configs[k], k, r.upstream.alias)
    <3>1. PICK n1 \in Nat : n1 = Len(exits) /\ DOMAIN configs = 1..n1 /\ Len(configs) = n1 /\ k \in 1..n1
      BY <2>9
    <3> QED
      BY <3>1, CombinedExits
  <2> QED
    BY <2>3, <2>7, <2>10, Zenon
<1>14. Speaks(sealed.outbounds[IF Switches(sealed) THEN k + 3 ELSE 1], n, port)
  BY <1>12, <1>13, BoundSpeaks, Zenon
<1>15. ASSUME IsReality(n) PROVE SidecarSays(XrayExit(port), n)
  <2>1. XrayExit(port) = Retag(XrayOutbound(n, r.upstream), NodeTag(k))
    <3>1. IsReality(exits[k].node)
      BY <1>9, <1>15, Zenon
    <3>2. XrayExit(exits[k].port) = Retag(XrayOutbound(exits[k].node, r.upstream), NodeTag(k))
      <4>1. /\ exits \in Seq(Range(exits)) /\ Len(exits) <= MaxSwitchNodes
            /\ xray = SwitchXray(r, exits)
        BY <1>2, <1>3, Zenon
      <4>2. \A m, l \in DOMAIN exits : exits[m].port = exits[l].port => m = l
        BY <1>3, Zenon
      <4> QED
        BY <4>1, <4>2, <3>1, SidecarOfExit
    <3> QED
      BY <1>9, <3>2, Zenon
  <2> QED
    BY <2>1, RetagTells, Zenon
<1>16. Told(k) = NodeSecurity(n)
  BY <1>10, <1>12, <1>14, <1>15, TellsNode, Zenon
<1> QED
  BY <1>4, <1>6, <1>9, <1>16, Zenon

LEMMA SecurityHolds ==
  ASSUME ImportInv, ExitInv
  PROVE  ImportKeepsSecurity
<1> SUFFICES ASSUME stage = "generated", NEW k \in DOMAIN exits
             PROVE  Told(k) = Asked(Detected(text), AcceptedEntries[exits[k].server])
  BY DEF ImportKeepsSecurity
<1>1. PICK i \in DOMAIN library : \E approval :
        IF request.mode.kind = "tun" THEN TunExits(i, approval) ELSE ProxyExit(i, approval)
  BY Zenon DEF ExitInv
<1>2. PICK approval :
        IF request.mode.kind = "tun" THEN TunExits(i, approval) ELSE ProxyExit(i, approval)
  BY <1>1
<1>3. /\ exits[k].server \in DOMAIN library
      /\ Told(k) = NodeSecurity(library[exits[k].server])
  BY <1>2, TunTold, ProxyTold, Zenon
<1>4. stage # "source"
  OBVIOUS
<1>5. NodeSecurity(library[exits[k].server]) =
        Asked(Detected(text), AcceptedEntries[exits[k].server])
  BY <1>3, <1>4, ServerFacts, Zenon
<1> QED
  BY <1>3, <1>5, Zenon

\* No engine is told less, or other, about the security of a server than its source said.
THEOREM SecurityTheorem == Spec => []ImportKeepsSecurity
<1>1. Init => ImportInv /\ ExitInv
  BY ImportInit, ExitInit
<1>2. ImportInv /\ ExitInv /\ [Next]_vars => (ImportInv /\ ExitInv)'
  <2> SUFFICES ASSUME ImportInv, ExitInv, [Next]_vars PROVE ImportInv' /\ ExitInv'
    OBVIOUS
  <2> QED
    BY ImportStep, ExitStep
<1>3. ImportInv /\ ExitInv => ImportKeepsSecurity
  BY SecurityHolds
<1> QED
  BY <1>1, <1>2, <1>3, PTL DEF Spec

-----------------------------------------------------------------------------
(* The fields a server can have *)

\* What else the generator relies on: a port, unless there are several, and the fields of one transport.
TransportShape(t) ==
    /\ t.type \in {"tcp", "ws", "grpc"}
    /\ t.type # "ws" => t.path = "" /\ t.host = ""
    /\ t.type # "grpc" => t.service = ""
NodeFits(n) ==
    /\ n.port \in {"ok", ""} /\ (n.kind # "hysteria2" => n.port = "ok")
    /\ TransportShape(n.transport)

LEMMA TransportShapes ==
  /\ TransportShape(Tcp)
  /\ \A path, host : TransportShape(Ws(path, host))
  /\ \A service : TransportShape(Grpc(service))
<1>1. TransportShape(Tcp)
  BY DEF TransportShape, Tcp
<1>2. ASSUME NEW path, NEW host PROVE TransportShape(Ws(path, host))
  BY DEF TransportShape, Ws, Tcp
<1>3. ASSUME NEW service PROVE TransportShape(Grpc(service))
  BY DEF TransportShape, Grpc, Tcp
<1> QED
  BY <1>1, <1>2, <1>3, Zenon

LEMMA FitsOfCreated ==
  ASSUME NEW n, NEW m, m = Create(n), m # Rejected, n.kind # "hysteria2" => n.port # "",
         TransportShape(n.transport)
  PROVE  NodeFits(m)
<1>1. m = n /\ n.port \in {"ok", ""}
  BY Zenon DEF Create
<1> QED
  BY <1>1, Zenon DEF NodeFits

LEMMA ParsedFits ==
  ASSUME NEW format, NEW e, WellFormed(e.q), Parse(format, e) # Rejected
  PROVE  NodeFits(Parse(format, e))
<1> DEFINE q == e.q
<1>0. \A k \in DOMAIN q : q[k] # ""
  BY Zenon DEF WellFormed
<1>1. ASSUME NEW m, m = VlessUrl(q), m # Rejected PROVE NodeFits(m)
  <2> DEFINE n == [AnyNode EXCEPT
            !.server = q["host"], !.port = q["port"], !.name = DisplayName(q),
            !.flow = Filled(q, "flow"), !.packet = Filled(q, "packetEncoding"),
            !.transport = TransportOf(q), !.tls = SecurityOf(q)]
  <2>1. m = Create(n) /\ "port" \in DOMAIN q
    BY <1>1, Zenon DEF VlessUrl
  <2>2. n.port = q["port"] /\ n.transport = TransportOf(q)
    BY DEF AnyNode
  <2>3. TransportShape(TransportOf(q))
    BY TransportShapes, Zenon DEF TransportOf
  <2> HIDE DEF n, q
  <2>4. n.port # "" /\ TransportShape(n.transport)
    BY <1>0, <2>1, <2>2, <2>3, Zenon
  <2> QED
    BY <1>1, <2>1, <2>4, FitsOfCreated, Zenon
<1>2. ASSUME NEW m, m = HysteriaUrl(q), m # Rejected PROVE NodeFits(m)
  <2> DEFINE n == [AnyNode EXCEPT
            !.kind = "hysteria2", !.server = q["host"], !.name = DisplayName(q),
            !.port = IF "ports" \in DOMAIN q THEN "" ELSE Field(q, "port", "ok"),
            !.ports = Field(q, "ports", ""),
            !.user = IF "bad" \in {Field(q, "user", "ok"), Field(q, "pass", "ok")}
                     THEN "bad" ELSE "ok",
            !.obfs = Filled(q, "obfs-password"),
            !.tls = [TlsFromQuery(q) EXCEPT !.utls = ""]]
  <2>1. m = Create(n)
    BY <1>2, Zenon DEF HysteriaUrl
  <2>2. n.kind = "hysteria2" /\ n.transport = Tcp
    BY DEF AnyNode
  <2> HIDE DEF n, q
  <2> QED
    BY <1>2, <2>1, <2>2, TransportShapes, FitsOfCreated, Zenon
<1>3. ASSUME NEW m, m = NaiveUrl(q), m # Rejected PROVE NodeFits(m)
  <2> DEFINE n == [AnyNode EXCEPT
            !.kind = "naive", !.server = q["host"], !.port = Field(q, "port", "ok"),
            !.name = DisplayName(q), !.user = Field(q, "user", "ok"),
            !.pass = Field(q, "pass", ""),
            !.quic = Field(q, "scheme", "https") = "quic",
            !.headers = Field(q, "extra-headers", ""), !.tls = [TlsOn EXCEPT !.sni = q["host"]]]
  <2>1. m = Create(n)
    BY <1>3, Zenon DEF NaiveUrl
  <2>2. n.port = Field(q, "port", "ok") /\ n.transport = Tcp
    BY DEF AnyNode
  <2>3. Field(q, "port", "ok") # ""
    BY <1>0 DEF Field
  <2> HIDE DEF n, q
  <2> QED
    BY <1>3, <2>1, <2>2, <2>3, TransportShapes, FitsOfCreated, Zenon
<1>4. ASSUME NEW m, m = JsonVless(q), m # Rejected PROVE NodeFits(m)
  <2> DEFINE n == [AnyNode EXCEPT
            !.server = q["server"], !.name = JsonName(q), !.flow = Filled(q, "flow"),
            !.packet = Filled(q, "packet_encoding"), !.transport = JsonTransportOf(q),
            !.tls = JsonTlsOf(q)]
  <2>1. m = Create(n)
    BY <1>4, Zenon DEF JsonVless
  <2>2. n.port = "ok" /\ n.transport = JsonTransportOf(q)
    BY DEF AnyNode
  <2>3. TransportShape(JsonTransportOf(q))
    BY TransportShapes, Zenon DEF JsonTransportOf
  <2>4. "ok" # ""
    OBVIOUS
  <2> HIDE DEF n, q
  <2>5. n.port # "" /\ TransportShape(n.transport)
    BY <2>2, <2>3, <2>4, Zenon
  <2> QED
    BY <1>4, <2>1, <2>5, FitsOfCreated, Zenon
<1>5. ASSUME NEW m, m = JsonHysteria(q), m # Rejected PROVE NodeFits(m)
  <2> DEFINE n == [AnyNode EXCEPT
            !.kind = "hysteria2", !.server = q["server"], !.name = JsonName(q),
            !.port = Field(q, "server_port", ""), !.ports = Field(q, "server_ports", ""),
            !.hop = Field(q, "hop_interval", ""), !.user = q["password"],
            !.obfs = Field(q, "obfs.password", ""), !.tls = JsonTlsOf(q)]
  <2>1. m = Create(n)
    BY <1>5, Zenon DEF JsonHysteria
  <2>2. n.kind = "hysteria2" /\ n.transport = Tcp
    BY DEF AnyNode
  <2> HIDE DEF n, q
  <2> QED
    BY <1>5, <2>1, <2>2, TransportShapes, FitsOfCreated, Zenon
<1>6. ASSUME NEW m, m = JsonNaive(q), m # Rejected PROVE NodeFits(m)
  <2> DEFINE n == [AnyNode EXCEPT
            !.kind = "naive", !.server = q["server"], !.name = JsonName(q),
            !.user = Field(q, "username", "ok"), !.pass = Field(q, "password", ""),
            !.quic = IsTrue(q, "quic"), !.headers = Field(q, "extra_headers", ""),
            !.tls = JsonTlsOf(q)]
  <2>1. m = Create(n)
    BY <1>6, Zenon DEF JsonNaive
  <2>2. n.port = "ok" /\ n.transport = Tcp
    BY DEF AnyNode
  <2>3. "ok" # ""
    OBVIOUS
  <2> HIDE DEF n, q
  <2>4. n.port # "" /\ TransportShape(n.transport)
    BY <2>2, <2>3, TransportShapes, Zenon
  <2> QED
    BY <1>6, <2>1, <2>4, FitsOfCreated, Zenon
<1>7. ASSUME NEW m, m = ClashVless(q), m # Rejected PROVE NodeFits(m)
  <2> DEFINE n == [AnyNode EXCEPT
            !.server = q["server"], !.name = q["name"], !.flow = Filled(q, "flow"),
            !.packet = Filled(q, "packet-encoding"), !.transport = ClashTransportOf(q),
            !.tls = [TlsOff EXCEPT
                !.enabled = IsTrue(q, "tls") \/ "reality-opts" \in DOMAIN q,
                !.sni = Field(q, "servername", ""), !.insecure = IsTrue(q, "skip-cert-verify"),
                !.alpn = Field(q, "alpn", ""), !.utls = Field(q, "client-fingerprint", ""),
                !.reality = Field(q, "reality-opts.public-key", ""),
                !.sid = IF "reality-opts" \in DOMAIN q
                        THEN Field(q, "reality-opts.short-id", "empty") ELSE ""]]
  <2>1. m = Create(n)
    BY <1>7, Zenon DEF ClashVless
  <2>2. n.port = "ok" /\ n.transport = ClashTransportOf(q)
    BY DEF AnyNode
  <2>3. TransportShape(ClashTransportOf(q))
    BY TransportShapes, Zenon DEF ClashTransportOf
  <2>4. "ok" # ""
    OBVIOUS
  <2> HIDE DEF n, q
  <2>5. n.port # "" /\ TransportShape(n.transport)
    BY <2>2, <2>3, <2>4, Zenon
  <2> QED
    BY <1>7, <2>1, <2>5, FitsOfCreated, Zenon
<1>8. ASSUME NEW m, m = ClashHysteria(q), m # Rejected PROVE NodeFits(m)
  <2> DEFINE n == [AnyNode EXCEPT
            !.kind = "hysteria2", !.server = q["server"], !.name = q["name"],
            !.port = IF "ports" \in DOMAIN q THEN "" ELSE q["port"],
            !.ports = Field(q, "ports", ""), !.hop = Field(q, "hop-interval", ""),
            !.user = q["password"], !.obfs = Field(q, "obfs-password", ""),
            !.tls = [TlsOn EXCEPT !.sni = Field(q, "sni", ""),
                        !.insecure = IsTrue(q, "skip-cert-verify"), !.alpn = Field(q, "alpn", "")]]
  <2>1. m = Create(n)
    BY <1>8, Zenon DEF ClashHysteria
  <2>2. n.kind = "hysteria2" /\ n.transport = Tcp
    BY DEF AnyNode
  <2> HIDE DEF n, q
  <2> QED
    BY <1>8, <2>1, <2>2, TransportShapes, FitsOfCreated, Zenon
<1>9. Parse(format, e) \in {VlessUrl(q), HysteriaUrl(q), NaiveUrl(q), JsonVless(q), JsonHysteria(q),
                            JsonNaive(q), ClashVless(q), ClashHysteria(q), Rejected}
  BY Zenon DEF Parse
<1> HIDE DEF q
<1> QED
  BY <1>1, <1>2, <1>3, <1>4, <1>5, <1>6, <1>7, <1>8, <1>9, Zenon

LEMMA ServerFits ==
  ASSUME ImportInv, stage # "source", NEW i \in DOMAIN library
  PROVE  NodeFits(library[i])
<1>1. library = Import(text, MaxNodes)
  BY Zenon DEF ImportInv
<1>2. /\ text.entries \in Seq(Range(text.entries))
      /\ \A x \in Range(text.entries) : WellFormed(x.q)
  BY TextsAssumption, Zenon DEF ImportInv
<1> DEFINE e == AcceptedEntries[i]
<1>3. e \in Range(text.entries) /\ library[i] = Parse(Detected(text), e) /\ library[i] # Rejected
  BY <1>1, <1>2, ImportFacts, Zenon
<1> HIDE DEF e
<1>4. WellFormed(e.q)
  BY <1>2, <1>3
<1> QED
  BY <1>3, <1>4, ParsedFits, Zenon

-----------------------------------------------------------------------------
(* Functions put together, field by field *)

LEMMA SameFunction ==
  ASSUME NEW f, NEW g, f = [x \in DOMAIN f |-> f[x]], g = [x \in DOMAIN g |-> g[x]],
         \A x : x \in DOMAIN f <=> x \in DOMAIN g, \A x \in DOMAIN f : f[x] = g[x]
  PROVE  f = g
<1>1. DOMAIN f = DOMAIN g
  OBVIOUS
<1> QED
  BY <1>1

\* h has the fields of f, and those of g it has not from f.
IsMerge(h, f, g) ==
    /\ h = [x \in DOMAIN h |-> h[x]]
    /\ \A x : x \in DOMAIN h <=> x \in DOMAIN f \/ x \in DOMAIN g
    /\ \A x \in DOMAIN f : h[x] = f[x]
    /\ \A x \in DOMAIN g : x \notin DOMAIN f => h[x] = g[x]
\* f has the field k, with the value v, when b.
IsPart(f, b, k, v) ==
    /\ \A x : x \in DOMAIN f <=> b /\ x = k
    /\ b => f[k] = v

LEMMA MergeIs ==
  ASSUME NEW f, NEW g, NEW h, h = f @@ g
  PROVE  IsMerge(h, f, g)
<1>1. \A a, b : Merged(a, b) = [x \in DOMAIN a \cup DOMAIN b |-> IF x \in DOMAIN a THEN a[x] ELSE b[x]]
  BY DEF Merged
<1>2. h = Merged(f, g)
  BY DEF @@
<1>3. h = [x \in DOMAIN f \cup DOMAIN g |-> IF x \in DOMAIN f THEN f[x] ELSE g[x]]
  BY <1>1, <1>2, Zenon
<1> QED
  BY <1>3 DEF IsMerge

LEMMA PartIs ==
  ASSUME NEW f, NEW k, NEW v, f = k :> v
  PROVE  IsPart(f, TRUE, k, v)
<1>1. f = Single(k, v)
  BY DEF :>
<1> QED
  BY <1>1, One, Zenon DEF IsPart

LEMMA OptIs ==
  ASSUME NEW f, NEW k, NEW v, f = Opt(k, v)
  PROVE  IsPart(f, v # "", k, v)
<1>1. CASE v = ""
  <2>1. f = <<>>
    BY <1>1, Zenon DEF Opt
  <2> QED
    BY <1>1, <2>1, NoneDomain, Zenon DEF IsPart
<1>2. CASE v # ""
  <2>1. f = k :> v
    BY <1>2, Zenon DEF Opt
  <2> QED
    BY <1>2, <2>1, PartIs, Zenon DEF IsPart
<1> QED
  BY <1>1, <1>2

LEMMA WhenIs ==
  ASSUME NEW f, NEW b, NEW k, NEW v, f = When(b, k :> v)
  PROVE  IsPart(f, b, k, v)
<1>1. CASE ~b
  <2>1. f = <<>>
    BY <1>1, Zenon DEF When
  <2> QED
    BY <1>1, <2>1, NoneDomain, Zenon DEF IsPart
<1>2. CASE b
  <2>1. f = k :> v
    BY <1>2, Zenon DEF When
  <2> QED
    BY <1>2, <2>1, PartIs, Zenon DEF IsPart
<1> QED
  BY <1>1, <1>2

\* h is f without the field k.
IsLess(h, f, k) ==
    /\ h = [x \in DOMAIN h |-> h[x]]
    /\ \A x : x \in DOMAIN h <=> x \in DOMAIN f /\ x # k
    /\ \A x \in DOMAIN h : h[x] = f[x]

LEMMA WithoutIs ==
  ASSUME NEW f, NEW k, NEW h, h = Without(f, k)
  PROVE  IsLess(h, f, k)
  BY DEF Without, Restrict, IsLess

-----------------------------------------------------------------------------
(* What split_config takes apart is what combine_configs put together *)

\* Nothing of a request but its node is of one server.
RequestFields == {"policy", "mode", "upstream", "vpn_dns", "http", "socks", "health"}
LEMMA RootSame ==
  ASSUME NEW r, RequestFields \subseteq DOMAIN r, NEW n, NEW exit, NEW bridged
  PROVE  Root([r EXCEPT !.node = n], exit, bridged) = Root(r, exit, bridged)
<1> DEFINE q == [r EXCEPT !.node = n]
<1>1. /\ q.policy = r.policy /\ q.mode = r.mode /\ q.upstream = r.upstream /\ q.vpn_dns = r.vpn_dns
      /\ q.http = r.http /\ q.socks = r.socks /\ q.health = r.health
  BY DEF RequestFields
<1> HIDE DEF q
<1>2. Rules(q, OwnPrefixes(q)) = Rules(r, OwnPrefixes(r))
  BY <1>1, RulesSame, Zenon
<1>3. Inbounds(q) = Inbounds(r)
  BY <1>1, Zenon DEF Inbounds, TunInbound, TunAddresses
<1>4. BootstrapDns(q, bridged) = BootstrapDns(r, bridged) /\ RemoteDns(q) = RemoteDns(r)
  BY <1>1, Zenon DEF BootstrapDns, RemoteDns
<1>5. ThroughVpn(q) = ThroughVpn(r)
  BY <1>1, Zenon DEF ThroughVpn
<1>6. q.policy.default = r.policy.default /\ q.upstream.alias = r.upstream.alias
  BY <1>1, Zenon
<1>7. Root(q, exit, bridged) = Root(r, exit, bridged)
  BY <1>2, <1>3, <1>4, <1>5, <1>6, Zenon DEF Root
<1> QED
  BY <1>7 DEF q

LEMMA Unbound ==
  ASSUME NEW config, NEW o, config.outbounds[1] = o, o = [x \in DOMAIN o |-> o[x]],
         "tag" \in DOMAIN o, o["tag"] = "selected", "bind_interface" \notin DOMAIN o,
         NEW k, NEW alias
  PROVE  Retag(Without(BoundExit(config, k, alias), "bind_interface"), "selected") = o
<1>1. PICK t : t = "tag" :> NodeTag(k)
  OBVIOUS
<1>2. PICK f : f = When(o["type"] # "socks", "bind_interface" :> alias)
  OBVIOUS
<1>3. PICK m : m = t @@ o
  OBVIOUS
<1>4. PICK b : b = m @@ f
  OBVIOUS
<1>5. BoundExit(config, k, alias) = b
  BY <1>1, <1>2, <1>3, <1>4, Zenon DEF BoundExit
<1>6. PICK w : w = Without(b, "bind_interface")
  OBVIOUS
<1>7. PICK s : s = "tag" :> "selected"
  OBVIOUS
<1>8. PICK z : z = s @@ w
  OBVIOUS
<1>9. /\ IsPart(t, TRUE, "tag", NodeTag(k)) /\ IsPart(s, TRUE, "tag", "selected")
      /\ IsPart(f, o["type"] # "socks", "bind_interface", alias)
  BY <1>1, <1>2, <1>7, PartIs, WhenIs, Zenon
<1>10. IsMerge(m, t, o) /\ IsMerge(b, m, f) /\ IsMerge(z, s, w)
  BY <1>3, <1>4, <1>8, MergeIs, Zenon
<1>11. IsLess(w, b, "bind_interface")
  BY <1>6, WithoutIs, Zenon
<1>12. \A x : x \in DOMAIN z <=> x \in DOMAIN o
  BY <1>9, <1>10, <1>11 DEF IsPart, IsMerge, IsLess
<1>13. \A x \in DOMAIN o : z[x] = o[x]
  BY <1>9, <1>10, <1>11 DEF IsPart, IsMerge, IsLess
<1>14. z = o
  BY <1>10, <1>12, <1>13, SameFunction DEF IsMerge
<1> QED
  BY <1>5, <1>6, <1>7, <1>8, <1>14, Zenon DEF Retag

LEMMA BoundBootstrap ==
  ASSUME NEW r, NEW alias, alias = r.upstream.alias, alias # "", NEW bridged
  PROVE  /\ ("bind_interface" :> alias) @@ BootstrapDns(r, bridged) = BootstrapDns(r, TRUE)
         /\ r.upstream.dns # "" => BootstrapDns(r, bridged) = BootstrapDns(r, TRUE)
         /\ r.upstream.dns = "" => Without(BootstrapDns(r, TRUE), "bind_interface") = BootstrapDns(r, FALSE)
         /\ BootstrapDns(r, bridged)["type"] = (IF r.upstream.dns = "" THEN "local" ELSE "tcp")
<1>1. PICK b : b = "bind_interface" :> alias
  OBVIOUS
<1>2. PICK g : g = "tag" :> "bootstrap"
  OBVIOUS
<1>3. IsPart(b, TRUE, "bind_interface", alias) /\ IsPart(g, TRUE, "tag", "bootstrap")
  BY <1>1, <1>2, PartIs, Zenon
<1>4. CASE r.upstream.dns # ""
  <2>1. PICK s : s = ("type" :> "tcp") @@ ("server" :> r.upstream.dns) @@ ("server_port" :> "53")
            @@ ("bind_interface" :> r.upstream.alias)
    OBVIOUS
  <2>2. \A any : BootstrapDns(r, any) = g @@ s
    BY <1>2, <1>4, <2>1, Zenon DEF BootstrapDns
  <2>3. /\ "type" \in DOMAIN s /\ s["type"] = "tcp"
        /\ "bind_interface" \in DOMAIN s /\ s["bind_interface"] = alias
    <3>1. PICK s1 : s1 = ("type" :> "tcp") @@ ("server" :> r.upstream.dns) @@ ("server_port" :> "53")
      OBVIOUS
    <3>2. /\ "type" \in DOMAIN s1 /\ s1["type"] = "tcp"
          /\ "bind_interface" \notin DOMAIN s1
      <4>1. PICK t : t = "type" :> "tcp"
        OBVIOUS
      <4>2. PICK a : a = "server" :> r.upstream.dns
        OBVIOUS
      <4>3. PICK p : p = "server_port" :> "53"
        OBVIOUS
      <4>4. PICK m : m = t @@ a
        OBVIOUS
      <4>5. s1 = m @@ p
        BY <3>1, <4>1, <4>2, <4>3, <4>4, Zenon
      <4>6. /\ IsPart(t, TRUE, "type", "tcp") /\ IsPart(a, TRUE, "server", r.upstream.dns)
            /\ IsPart(p, TRUE, "server_port", "53")
        BY <4>1, <4>2, <4>3, PartIs, Zenon
      <4>7. IsMerge(m, t, a) /\ IsMerge(s1, m, p)
        BY <4>4, <4>5, MergeIs, Zenon
      <4>8. /\ \A x : x \in DOMAIN m <=> x = "type" \/ x = "server"
            /\ m["type"] = "tcp"
        BY <4>6, <4>7 DEF IsMerge, IsPart
      <4>9. \A x : x \in DOMAIN s1 <=> x = "type" \/ x = "server" \/ x = "server_port"
        BY <4>6, <4>7, <4>8 DEF IsMerge, IsPart
      <4>10. s1["type"] = "tcp"
        BY <4>7, <4>8 DEF IsMerge
      <4>11. /\ "bind_interface" # "type" /\ "bind_interface" # "server"
             /\ "bind_interface" # "server_port"
        OBVIOUS
      <4> QED
        BY <4>9, <4>10, <4>11, Zenon
    <3>3. s = s1 @@ b
      BY <1>1, <2>1, <3>1, Zenon
    <3>4. IsMerge(s, s1, b)
      BY <3>3, MergeIs, Zenon
    <3> QED
      BY <1>3, <3>2, <3>4 DEF IsMerge, IsPart
  <2>4. PICK z : z = g @@ s
    OBVIOUS
  <2>5. PICK y : y = b @@ z
    OBVIOUS
  <2>6. IsMerge(z, g, s) /\ IsMerge(y, b, z)
    BY <2>4, <2>5, MergeIs, Zenon
  <2>7. z["type"] = "tcp"
    BY <1>3, <2>3, <2>6, ZenonT(60) DEF IsMerge, IsPart
  <2>8a. "bind_interface" \in DOMAIN z /\ z["bind_interface"] = alias
    BY <1>3, <2>3, <2>6 DEF IsMerge, IsPart
  <2>8. (\A x : x \in DOMAIN y <=> x \in DOMAIN z) /\ \A x \in DOMAIN y : y[x] = z[x]
    BY <1>3, <2>6, <2>8a DEF IsMerge, IsPart
  <2>9. y = z
    BY <2>6, <2>8, SameFunction DEF IsMerge
  <2> QED
    BY <1>1, <1>4, <2>2, <2>4, <2>5, <2>7, <2>9, Zenon
<1>5. CASE r.upstream.dns = ""
  <2>1. PICK l : l = "type" :> "local"
    OBVIOUS
  <2>2. PICK none : none = When(FALSE, "bind_interface" :> alias)
    OBVIOUS
  <2>3. PICK u : u = l @@ b
    OBVIOUS
  <2>4. PICK v : v = l @@ none
    OBVIOUS
  <2>5. PICK y : y = g @@ u
    OBVIOUS
  <2>6. PICK z : z = g @@ v
    OBVIOUS
  <2>7. BootstrapDns(r, TRUE) = y
    BY <1>1, <1>2, <1>5, <2>1, <2>3, <2>5, Zenon DEF BootstrapDns, When, Opt
  <2>8. BootstrapDns(r, FALSE) = z
    BY <1>2, <1>5, <2>1, <2>2, <2>4, <2>6, Zenon DEF BootstrapDns, When
  <2>9. IsPart(l, TRUE, "type", "local") /\ IsPart(none, FALSE, "bind_interface", alias)
    BY <2>1, <2>2, PartIs, WhenIs, Zenon
  <2>10. IsMerge(u, l, b) /\ IsMerge(v, l, none) /\ IsMerge(y, g, u) /\ IsMerge(z, g, v)
    BY <2>3, <2>4, <2>5, <2>6, MergeIs, Zenon
  <2>11. /\ \A x : x \in DOMAIN y <=> x = "tag" \/ x = "type" \/ x = "bind_interface"
         /\ y["tag"] = "bootstrap" /\ y["type"] = "local" /\ y["bind_interface"] = alias
    <3>1. /\ \A x : x \in DOMAIN u <=> x = "type" \/ x = "bind_interface"
          /\ u["type"] = "local" /\ u["bind_interface"] = alias
      <4>1. IsMerge(u, l, b) /\ IsPart(l, TRUE, "type", "local") /\ IsPart(b, TRUE, "bind_interface", alias)
        BY <1>3, <2>9, <2>10
      <4>2. \A x : x \in DOMAIN u <=> x = "type" \/ x = "bind_interface"
        BY <4>1 DEF IsMerge, IsPart
      <4>3. u["type"] = "local"
        BY <4>1 DEF IsMerge, IsPart
      <4>4. u["bind_interface"] = alias
        BY <4>1 DEF IsMerge, IsPart
      <4> QED
        BY <4>2, <4>3, <4>4
    <3>2. IsMerge(y, g, u)
      BY <2>10
    <3> QED
      BY <1>3, <3>1, <3>2 DEF IsMerge, IsPart
  <2>12. /\ \A x : x \in DOMAIN z <=> x = "tag" \/ x = "type"
         /\ z["tag"] = "bootstrap" /\ z["type"] = "local"
    BY <1>3, <2>9, <2>10 DEF IsMerge, IsPart
  <2>13. y = [x \in DOMAIN y |-> y[x]] /\ z = [x \in DOMAIN z |-> z[x]]
    BY <2>10 DEF IsMerge
  <2>14. b @@ y = y
    <3>1. PICK w : w = b @@ y
      OBVIOUS
    <3>2. IsMerge(w, b, y)
      BY <3>1, MergeIs, Zenon
    <3>3. (\A x : x \in DOMAIN w <=> x \in DOMAIN y) /\ \A x \in DOMAIN w : w[x] = y[x]
      BY <1>3, <2>11, <3>2 DEF IsMerge, IsPart
    <3>4. w = y
      BY <2>13, <3>2, <3>3, SameFunction DEF IsMerge
    <3> QED
      BY <3>1, <3>4
  <2>15. b @@ z = y
    <3>1. PICK w : w = b @@ z
      OBVIOUS
    <3>2. IsMerge(w, b, z)
      BY <3>1, MergeIs, Zenon
    <3>3. (\A x : x \in DOMAIN w <=> x \in DOMAIN y) /\ \A x \in DOMAIN w : w[x] = y[x]
      BY <1>3, <2>11, <2>12, <3>2, ZenonT(60) DEF IsMerge, IsPart
    <3>4. w = y
      BY <2>13, <3>2, <3>3, SameFunction DEF IsMerge
    <3> QED
      BY <3>1, <3>4
  <2>16. Without(y, "bind_interface") = z
    <3>1. PICK w : w = Without(y, "bind_interface")
      OBVIOUS
    <3>2. IsLess(w, y, "bind_interface")
      BY <3>1, WithoutIs, Zenon
    <3>3. (\A x : x \in DOMAIN w <=> x \in DOMAIN z) /\ \A x \in DOMAIN w : w[x] = z[x]
      BY <2>11, <2>12, <3>2 DEF IsLess
    <3>4. w = z
      BY <2>13, <3>2, <3>3, SameFunction DEF IsLess
    <3> QED
      BY <3>1, <3>4
  <2>17. CASE bridged
    <3>1. BootstrapDns(r, bridged) = BootstrapDns(r, TRUE)
      BY <2>17, Zenon DEF BootstrapDns, When
    <3> QED
      BY <1>1, <1>5, <2>7, <2>8, <2>11, <2>14, <2>16, <3>1, Zenon
  <2>18. CASE ~bridged
    <3>1. BootstrapDns(r, bridged) = BootstrapDns(r, FALSE)
      BY <2>18, Zenon DEF BootstrapDns, When
    <3> QED
      BY <1>1, <1>5, <2>7, <2>8, <2>12, <2>15, <2>16, <3>1, Zenon
  <2> QED
    BY <2>17, <2>18
<1> QED
  BY <1>4, <1>5

LEMMA PairIs ==
  ASSUME NEW x, NEW y
  PROVE  <<x>> \o <<y>> = <<x, y>>
<1> DEFINE both == <<x>> \o <<y>>
<1>1. <<x>> \in Seq({x, y}) /\ <<y>> \in Seq({x, y}) /\ <<x, y>> \in Seq({x, y})
  OBVIOUS
<1>2. both \in Seq({x, y}) /\ Len(both) = 2
  BY <1>1
<1>3. both[1] = x /\ both[2] = y
  BY <1>1
<1> HIDE DEF both
<1>4. \A i \in 1..Len(both) : both[i] = <<x, y>>[i]
  BY <1>2, <1>3
<1>5. both = <<x, y>>
  BY <1>1, <1>2, <1>4, SeqEqual
<1> QED
  BY <1>5 DEF both

LEMMA InsertedFacts ==
  ASSUME NEW X, NEW rules \in Seq(X), rules # <<>>, NEW rule \in X,
         NEW all, all = Inserted(rules, rule)
  PROVE  /\ all \in Seq(X) /\ Len(all) = Len(rules) + 1 /\ all[2] = rule
         /\ <<Head(all)>> \o Tail(Tail(all)) = rules
<1>1. all = <<rules[1], rule>> \o Tail(rules)
  BY DEF Inserted
<1>2. <<rules[1], rule>> \in Seq(X) /\ Tail(rules) \in Seq(X) /\ Len(Tail(rules)) = Len(rules) - 1
  OBVIOUS
<1>3. all \in Seq(X) /\ Len(all) = Len(rules) + 1
  BY <1>1, <1>2
<1>4. /\ all[1] = rules[1] /\ all[2] = rule
      /\ \A i \in 3..Len(all) : all[i] = rules[i - 1]
  BY <1>1, <1>2, <1>3
<1>5. Tail(all) \in Seq(X) /\ Len(Tail(all)) = Len(rules)
  BY <1>3
<1>6. \A i \in 1..Len(rules) : Tail(all)[i] = all[i + 1]
  BY <1>3, <1>5
<1>7. Tail(Tail(all)) \in Seq(X) /\ Len(Tail(Tail(all))) = Len(rules) - 1
  BY <1>5
<1>8. \A i \in 1..Len(rules) - 1 : Tail(Tail(all))[i] = rules[i + 1]
  BY <1>4, <1>5, <1>6, <1>7, <1>3
<1> DEFINE back == <<Head(all)>> \o Tail(Tail(all))
<1>9. back \in Seq(X) /\ Len(back) = Len(rules)
  BY <1>3, <1>7
<1>10. \A i \in 1..Len(rules) : back[i] = rules[i]
  BY <1>3, <1>4, <1>7, <1>8
<1>11. back = rules
  BY <1>9, <1>10, SeqEqual
<1> QED
  BY <1>3, <1>4, <1>11

-----------------------------------------------------------------------------
(* The parts of a configuration *)

DnsOf(r, bridged) ==
    [servers |-> <<BootstrapDns(r, bridged)>> \o (IF ThroughVpn(r) THEN <<RemoteDns(r)>> ELSE <<>>),
     final |-> IF ThroughVpn(r) THEN "remote-dns" ELSE "bootstrap"]
ExitOf(r, exit) == exit @@ When(ThroughVpn(r), "domain_resolver" :> "bootstrap")
DirectOf(alias, bridged) ==
    ("type" :> "direct") @@ ("tag" :> "direct") @@ When(bridged, "bind_interface" :> alias)
RouteOf(r, alias, bridged) ==
    ("rules" :> Rules(r, OwnPrefixes(r))) @@ ("final" :> OutboundOf(r.policy.default))
    @@ ("default_domain_resolver" :> "bootstrap") @@ When(~bridged, "default_interface" :> alias)

\* The physical network is named.
Physical(r, alias) == alias = r.upstream.alias /\ alias # ""

LEMMA RootIs ==
  ASSUME NEW r, NEW alias, Physical(r, alias), NEW exit, NEW bridged
  PROVE  Root(r, exit, bridged) =
            [dns |-> DnsOf(r, bridged), inbounds |-> Inbounds(r),
             outbounds |-> <<ExitOf(r, exit), DirectOf(alias, bridged)>>,
             route |-> RouteOf(r, alias, bridged)]
<1>1. \A k : Opt(k, r.upstream.alias) = k :> alias
  BY Zenon DEF Opt, Physical
<1> QED
  BY <1>1, Zenon DEF Root, DnsOf, ExitOf, DirectOf, RouteOf

\* The list of DNS servers with its first replaced.
WithFirst(d, x) == [d EXCEPT !.servers[1] = x]
LEMMA FirstServer ==
  ASSUME NEW r, NEW b, NEW c, NEW x, x = BootstrapDns(r, c), NEW d, d = DnsOf(r, b)
  PROVE  WithFirst(d, x) = DnsOf(r, c)
<1> DEFINE rest == IF ThroughVpn(r) THEN <<RemoteDns(r)>> ELSE <<>>
           old == BootstrapDns(r, b)
<1>1. [(<<old>> \o rest) EXCEPT ![1] = x] = <<x>> \o rest
  <2> HIDE DEF old
  <2>1. CASE ThroughVpn(r)
    <3>1. PICK y : y = RemoteDns(r)
      OBVIOUS
    <3>2. rest = <<y>>
      BY <2>1, <3>1, Zenon
    <3> HIDE DEF rest
    <3>3. <<old>> \o <<y>> = <<old, y>> /\ <<x>> \o <<y>> = <<x, y>>
      BY PairIs, Zenon
    <3>4. [<<old, y>> EXCEPT ![1] = x] = <<x, y>>
      OBVIOUS
    <3> QED
      BY <3>2, <3>3, <3>4
  <2>2. CASE ~ThroughVpn(r)
    <3>1. rest = <<>>
      BY <2>2, Zenon
    <3> HIDE DEF rest
    <3> QED
      BY <3>1
  <2> QED
    BY <2>1, <2>2
<1> DEFINE final == IF ThroughVpn(r) THEN "remote-dns" ELSE "bootstrap"
<1>2. PICK l : l = <<old>> \o rest
  OBVIOUS
<1>3. PICK m : m = <<x>> \o rest
  OBVIOUS
<1>4. DnsOf(r, b) = [servers |-> l, final |-> final] /\ DnsOf(r, c) = [servers |-> m, final |-> final]
  BY <1>2, <1>3, Zenon DEF DnsOf
<1>5. [l EXCEPT ![1] = x] = m
  BY <1>1, <1>2, <1>3
<1> HIDE DEF old, rest, final
<1>6. [[servers |-> l, final |-> final] EXCEPT !.servers[1] = x] = [servers |-> m, final |-> final]
  BY <1>5
<1> QED
  BY <1>4, <1>6, Zenon DEF WithFirst

LEMMA FirstServerIs ==
  ASSUME NEW r, NEW b
  PROVE  DnsOf(r, b).servers[1] = BootstrapDns(r, b)
<1>1. PICK x : x = BootstrapDns(r, b)
  OBVIOUS
<1>2. CASE ThroughVpn(r)
  <2>1. DnsOf(r, b).servers = <<x>> \o <<RemoteDns(r)>>
    BY <1>1, <1>2 DEF DnsOf
  <2> QED
    BY <1>1, <2>1
<1>3. CASE ~ThroughVpn(r)
  <2>1. DnsOf(r, b).servers = <<x>> \o <<>>
    BY <1>1, <1>3 DEF DnsOf
  <2> QED
    BY <1>1, <2>1
<1> QED
  BY <1>2, <1>3

LEMMA InboundsUndone ==
  ASSUME NEW r, r.mode.kind = "tun", NEW x
  PROVE  /\ SubSeq(Append(Inbounds(r), x), 1, 4) = Inbounds(r)
         /\ Len(Append(Inbounds(r), x)) = 5 /\ Append(Inbounds(r), x)[5] = x
         /\ Inbounds(r) = <<Listener("http", "http-in", r.http), Listener("socks", "socks-in", r.socks),
                            Listener("http", "health-in", r.health) @@ Authenticated, TunInbound(r)>>
         /\ \A i \in 1..4 : Append(Inbounds(r), x)[i] = Inbounds(r)[i]
<1>1. PICK a : a = Listener("http", "http-in", r.http)
  OBVIOUS
<1>2. PICK b : b = Listener("socks", "socks-in", r.socks)
  OBVIOUS
<1>3. PICK h : h = Listener("http", "health-in", r.health) @@ Authenticated
  OBVIOUS
<1>4. PICK t : t = TunInbound(r)
  OBVIOUS
<1>5. Inbounds(r) = <<a, b, h>> \o <<t>>
  BY <1>1, <1>2, <1>3, <1>4, Zenon DEF Inbounds
<1> DEFINE X == {a, b, h, t, x}
<1>6. <<a, b, h>> \in Seq(X) /\ <<t>> \in Seq(X) /\ <<a, b, h, t>> \in Seq(X)
  OBVIOUS
<1>7. <<a, b, h>> \o <<t>> = <<a, b, h, t>>
  <2>1. Len(<<a, b, h>> \o <<t>>) = 4 /\ <<a, b, h>> \o <<t>> \in Seq(X)
    BY <1>6
  <2>2. \A i \in 1..4 : (<<a, b, h>> \o <<t>>)[i] = <<a, b, h, t>>[i]
    BY <1>6
  <2> QED
    BY <1>6, <2>1, <2>2, SeqEqual
<1>8. PICK l : l = <<a, b, h, t>>
  OBVIOUS
<1>9. l \in Seq(X) /\ Len(l) = 4 /\ x \in X
  BY <1>6, <1>8
<1> HIDE DEF X
<1>10. /\ Append(l, x) \in Seq(X) /\ Len(Append(l, x)) = 5 /\ Append(l, x)[5] = x
       /\ \A i \in 1..4 : Append(l, x)[i] = l[i]
  <2>1. /\ Append(l, x) \in Seq(X) /\ Len(Append(l, x)) = Len(l) + 1
        /\ Append(l, x)[Len(l) + 1] = x
    BY <1>9, AppendProperties, ZenonT(60)
  <2>2. \A i \in 1..Len(l) : Append(l, x)[i] = l[i]
    BY <1>9, SMTT(60)
  <2> QED
    BY <1>9, <2>1, <2>2
<1>11. SubSeq(Append(l, x), 1, 4) = l
  <2>1. \A i \in 1..4 : Append(l, x)[i] \in X
    BY <1>9, <1>10
  <2>2. /\ SubSeq(Append(l, x), 1, 4) \in Seq(X) /\ Len(SubSeq(Append(l, x), 1, 4)) = 4
        /\ \A i \in 1..4 : SubSeq(Append(l, x), 1, 4)[i] = Append(l, x)[i]
    BY <1>10, <2>1
  <2> QED
    BY <1>9, <1>10, <2>2, SeqEqual
<1>12. Inbounds(r) = l
  BY <1>5, <1>7, <1>8, Zenon
<1> QED
  BY <1>1, <1>2, <1>3, <1>4, <1>8, <1>10, <1>11, <1>12, Zenon

LEMMA InboundsBack ==
  ASSUME NEW r, r.mode.kind = "tun", NEW x
  PROVE  SubSeq(Append(Inbounds(r), x), 1, 4) = Inbounds(r)
  BY InboundsUndone

LEMMA BootstrapType ==
  ASSUME NEW r, r.upstream.alias # "", NEW bridged
  PROVE  /\ r.upstream.dns = "" => BootstrapDns(r, bridged)["type"] = "local"
         /\ r.upstream.dns # "" => BootstrapDns(r, bridged)["type"] = "tcp"
<1>1. PICK alias : alias = r.upstream.alias
  OBVIOUS
<1>2. BootstrapDns(r, bridged)["type"] = (IF r.upstream.dns = "" THEN "local" ELSE "tcp")
  BY <1>1, BoundBootstrap, Zenon
<1> QED
  BY <1>2, Zenon

LEMMA FirstServers ==
  \A r, b, c, x, d : x = BootstrapDns(r, c) /\ d = DnsOf(r, b) => WithFirst(d, x) = DnsOf(r, c)
<1> SUFFICES ASSUME NEW r, NEW b, NEW c, NEW x, NEW d, x = BootstrapDns(r, c), d = DnsOf(r, b)
             PROVE  WithFirst(d, x) = DnsOf(r, c)
  OBVIOUS
<1> QED
  BY FirstServer, ZenonT(60)

LEMMA FirstBound ==
  ASSUME NEW r, NEW b, NEW x, x = BootstrapDns(r, TRUE), NEW d, d = DnsOf(r, b)
  PROVE  WithFirst(d, x) = DnsOf(r, TRUE)
  BY FirstServers, ZenonT(60)
LEMMA FirstFree ==
  ASSUME NEW r, NEW b, NEW x, x = BootstrapDns(r, FALSE), NEW d, d = DnsOf(r, b)
  PROVE  WithFirst(d, x) = DnsOf(r, FALSE)
  BY FirstServers, ZenonT(60)

LEMMA DnsBound ==
  ASSUME NEW r, NEW alias, Physical(r, alias), NEW b,
         NEW config, config.dns = DnsOf(r, b), "dns" \in DOMAIN config
  PROVE  BindDns(config, alias).dns = DnsOf(r, TRUE)
<1>1. PICK x : x = ("bind_interface" :> alias) @@ config.dns.servers[1]
  OBVIOUS
<1>2. BindDns(config, alias).dns = WithFirst(config.dns, x)
  BY <1>1 DEF BindDns, WithFirst
<1>3. x = BootstrapDns(r, TRUE)
  <2>1. config.dns.servers[1] = BootstrapDns(r, b)
    BY FirstServerIs, Zenon
  <2>2. ("bind_interface" :> alias) @@ BootstrapDns(r, b) = BootstrapDns(r, TRUE)
    BY BoundBootstrap, Zenon DEF Physical
  <2> QED
    BY <1>1, <2>1, <2>2, Zenon
<1>4. WithFirst(config.dns, x) = DnsOf(r, TRUE)
  BY <1>3, FirstBound, Zenon
<1> QED
  BY <1>2, <1>4, Zenon

LEMMA DnsUndone ==
  ASSUME NEW r, NEW alias, Physical(r, alias), NEW bridged, bridged \in BOOLEAN
  PROVE  (IF ~bridged /\ DnsOf(r, TRUE).servers[1]["type"] = "local"
          THEN [DnsOf(r, TRUE) EXCEPT !.servers[1] = Without(@, "bind_interface")]
          ELSE DnsOf(r, TRUE)) = DnsOf(r, bridged)
<1>1. alias = r.upstream.alias /\ alias # ""
  BY DEF Physical
<1>2. DnsOf(r, TRUE).servers[1] = BootstrapDns(r, TRUE)
  BY FirstServerIs, Zenon
<1>3. /\ r.upstream.dns = "" => BootstrapDns(r, TRUE)["type"] = "local"
      /\ r.upstream.dns # "" => BootstrapDns(r, TRUE)["type"] = "tcp"
  BY <1>1, BootstrapType, Zenon
<1>4. CASE bridged
  <2>1. bridged = TRUE
    BY <1>4
  <2> QED
    BY <1>4, <2>1, Zenon
<1>5. CASE ~bridged /\ r.upstream.dns = ""
  <2>1. bridged = FALSE
    BY <1>5
  <2>2. DnsOf(r, TRUE).servers[1]["type"] = "local"
    BY <1>2, <1>3, <1>5, Zenon
  <2>3. PICK x : x = Without(BootstrapDns(r, TRUE), "bind_interface")
    OBVIOUS
  <2>4. x = BootstrapDns(r, FALSE)
    BY <1>1, <1>5, <2>3, BoundBootstrap, Zenon
  <2>6. PICK d : d = DnsOf(r, TRUE)
    OBVIOUS
  <2>5. WithFirst(d, x) = DnsOf(r, FALSE)
    BY <2>4, <2>6, FirstFree, Zenon
  <2>7. [d EXCEPT !.servers[1] = Without(@, "bind_interface")]
            = [d EXCEPT !.servers[1] = Without(d.servers[1], "bind_interface")]
    <3>1. d = [servers |-> d.servers, final |-> d.final]
      BY <2>6 DEF DnsOf
    <3> QED
      BY <3>1
  <2>8. [d EXCEPT !.servers[1] = Without(@, "bind_interface")] = DnsOf(r, FALSE)
    BY <1>2, <2>3, <2>5, <2>6, <2>7, Zenon DEF WithFirst
  <2> QED
    BY <1>5, <2>1, <2>2, <2>6, <2>8, Zenon
<1>6. CASE ~bridged /\ r.upstream.dns # ""
  <2>1. bridged = FALSE
    BY <1>6
  <2>2. "tcp" # "local"
    OBVIOUS
  <2>3. DnsOf(r, TRUE).servers[1]["type"] # "local"
    BY <1>2, <1>3, <1>6, <2>2, Zenon
  <2>4. BootstrapDns(r, FALSE) = BootstrapDns(r, TRUE)
    BY <1>1, <1>6, BoundBootstrap, Zenon
  <2>5. DnsOf(r, FALSE) = DnsOf(r, TRUE)
    BY <2>4, Zenon DEF DnsOf
  <2> QED
    BY <2>1, <2>3, <2>5, Zenon
<1> QED
  BY <1>4, <1>5, <1>6

\* The fields of a route, whoever put it together.
IsRoute(f, rules, final, bridged, alias) ==
    /\ f = [x \in DOMAIN f |-> f[x]]
    /\ \A x : x \in DOMAIN f <=>
        x = "rules" \/ x = "final" \/ x = "default_domain_resolver" \/ (~bridged /\ x = "default_interface")
    /\ f["rules"] = rules /\ f["final"] = final
    /\ f["default_domain_resolver"] = "bootstrap" /\ (~bridged => f["default_interface"] = alias)

LEMMA SameRoute ==
  ASSUME NEW f, NEW g, NEW rules, NEW final, NEW bridged, NEW alias,
         IsRoute(f, rules, final, bridged, alias), IsRoute(g, rules, final, bridged, alias)
  PROVE  f = g
<1>1. \A x : x \in DOMAIN f <=> x \in DOMAIN g
  BY Zenon DEF IsRoute
<1>2. \A x \in DOMAIN f : f[x] = g[x]
  BY Zenon DEF IsRoute
<1>3. f = [x \in DOMAIN f |-> f[x]] /\ g = [x \in DOMAIN g |-> g[x]]
  BY Zenon DEF IsRoute
<1> QED
  BY <1>1, <1>2, <1>3, SameFunction, Zenon

LEMMA RouteIs ==
  ASSUME NEW r, NEW alias, NEW bridged
  PROVE  IsRoute(RouteOf(r, alias, bridged), Rules(r, OwnPrefixes(r)), OutboundOf(r.policy.default),
                 bridged, alias)
<1>1. PICK a : a = "rules" :> Rules(r, OwnPrefixes(r))
  OBVIOUS
<1>2. PICK b : b = "final" :> OutboundOf(r.policy.default)
  OBVIOUS
<1>3. PICK c : c = "default_domain_resolver" :> "bootstrap"
  OBVIOUS
<1>4. PICK d : d = When(~bridged, "default_interface" :> alias)
  OBVIOUS
<1>5. PICK m : m = a @@ b
  OBVIOUS
<1>6. PICK n : n = m @@ c
  OBVIOUS
<1>7. PICK f : f = n @@ d
  OBVIOUS
<1>8. f = RouteOf(r, alias, bridged)
  BY <1>1, <1>2, <1>3, <1>4, <1>5, <1>6, <1>7, Zenon DEF RouteOf
<1>9. PICK rules : rules = Rules(r, OwnPrefixes(r))
  OBVIOUS
<1>10. PICK final : final = OutboundOf(r.policy.default)
  OBVIOUS
<1>11. /\ IsPart(a, TRUE, "rules", rules) /\ IsPart(b, TRUE, "final", final)
       /\ IsPart(c, TRUE, "default_domain_resolver", "bootstrap")
       /\ IsPart(d, ~bridged, "default_interface", alias)
  BY <1>1, <1>2, <1>3, <1>4, <1>9, <1>10, PartIs, WhenIs, Zenon
<1>12. IsMerge(m, a, b) /\ IsMerge(n, m, c) /\ IsMerge(f, n, d)
  BY <1>5, <1>6, <1>7, MergeIs, Zenon
<1>13. /\ \A x : x \in DOMAIN m <=> x = "rules" \/ x = "final"
       /\ m["rules"] = rules /\ m["final"] = final
  BY <1>11, <1>12 DEF IsMerge, IsPart
<1>14. /\ \A x : x \in DOMAIN n <=> x = "rules" \/ x = "final" \/ x = "default_domain_resolver"
       /\ n["rules"] = rules /\ n["final"] = final /\ n["default_domain_resolver"] = "bootstrap"
  BY <1>11, <1>12, <1>13 DEF IsMerge, IsPart
<1>15. \A x : x \in DOMAIN f <=>
        x = "rules" \/ x = "final" \/ x = "default_domain_resolver" \/ (~bridged /\ x = "default_interface")
  BY <1>11, <1>12, <1>14 DEF IsMerge, IsPart
<1>16. /\ f["rules"] = rules /\ f["final"] = final /\ f["default_domain_resolver"] = "bootstrap"
       /\ ~bridged => f["default_interface"] = alias
  BY <1>11, <1>12, <1>14 DEF IsMerge, IsPart
<1>17. f = [x \in DOMAIN f |-> f[x]]
  BY <1>12 DEF IsMerge
<1>18. IsRoute(f, rules, final, bridged, alias)
  BY <1>15, <1>16, <1>17, Zenon DEF IsRoute
<1> QED
  BY <1>8, <1>9, <1>10, <1>18, Zenon

\* The route of a session, and of one of its exits.
LEMMA RouteUndone ==
  ASSUME NEW base, NEW rules, NEW final, NEW b, NEW alias, IsRoute(base, rules, final, b, alias),
         NEW all, NEW f, f = ("rules" :> all) @@ Without(base, "default_interface"),
         NEW back, NEW b2, NEW g,
         g = ("rules" :> back) @@ f @@ When(~b2, "default_interface" :> alias)
  PROVE  IsRoute(f, all, final, TRUE, alias) /\ IsRoute(g, back, final, b2, alias)
<1>1. PICK p : p = "rules" :> all
  OBVIOUS
<1>2. PICK w : w = Without(base, "default_interface")
  OBVIOUS
<1>3. f = p @@ w
  BY <1>1, <1>2, Zenon
<1>4. IsPart(p, TRUE, "rules", all) /\ IsMerge(f, p, w) /\ IsLess(w, base, "default_interface")
  BY <1>1, <1>2, <1>3, PartIs, MergeIs, WithoutIs, Zenon
<1>5. /\ \A x : x \in DOMAIN w <=> x = "rules" \/ x = "final" \/ x = "default_domain_resolver"
      /\ w["final"] = final /\ w["default_domain_resolver"] = "bootstrap"
  BY <1>4 DEF IsLess, IsRoute
<1>6. \A x : x \in DOMAIN f <=> x = "rules" \/ x = "final" \/ x = "default_domain_resolver"
  BY <1>4, <1>5 DEF IsMerge, IsPart
<1>7. f["rules"] = all /\ f["final"] = final /\ f["default_domain_resolver"] = "bootstrap"
  BY <1>4, <1>5 DEF IsMerge, IsPart
<1>8. f = [x \in DOMAIN f |-> f[x]]
  BY <1>4 DEF IsMerge
<1>9. IsRoute(f, all, final, TRUE, alias)
  BY <1>6, <1>7, <1>8, Zenon DEF IsRoute
<1>10. PICK q : q = "rules" :> back
  OBVIOUS
<1>11. PICK d : d = When(~b2, "default_interface" :> alias)
  OBVIOUS
<1>12. PICK m : m = q @@ f
  OBVIOUS
<1>13. g = m @@ d
  BY <1>10, <1>11, <1>12, Zenon
<1>14. /\ IsPart(q, TRUE, "rules", back) /\ IsPart(d, ~b2, "default_interface", alias)
       /\ IsMerge(m, q, f) /\ IsMerge(g, m, d)
  BY <1>10, <1>11, <1>12, <1>13, PartIs, WhenIs, MergeIs, Zenon
<1>15. /\ \A x : x \in DOMAIN m <=> x = "rules" \/ x = "final" \/ x = "default_domain_resolver"
       /\ m["rules"] = back /\ m["final"] = final /\ m["default_domain_resolver"] = "bootstrap"
  BY <1>6, <1>7, <1>14 DEF IsMerge, IsPart
<1>16. \A x : x \in DOMAIN g <=>
        x = "rules" \/ x = "final" \/ x = "default_domain_resolver" \/ (~b2 /\ x = "default_interface")
  BY <1>14, <1>15 DEF IsMerge, IsPart
<1>17. /\ g["rules"] = back /\ g["final"] = final /\ g["default_domain_resolver"] = "bootstrap"
       /\ ~b2 => g["default_interface"] = alias
  BY <1>14, <1>15 DEF IsMerge, IsPart
<1>18. g = [x \in DOMAIN g |-> g[x]]
  BY <1>14 DEF IsMerge
<1>19. IsRoute(g, back, final, b2, alias)
  BY <1>16, <1>17, <1>18, Zenon DEF IsRoute
<1> QED
  BY <1>9, <1>19

\* A configuration of one server, with its exit o and, for a bridge, its way out bound.
IsExit(o, b) ==
    /\ b \in BOOLEAN
    /\ o = [x \in DOMAIN o |-> o[x]]
    /\ "type" \in DOMAIN o /\ "tag" \in DOMAIN o /\ o["tag"] = "selected"
    /\ "bind_interface" \notin DOMAIN o
    /\ o["type"] = "socks" <=> b
IsSingle(config, r, alias, o, b) ==
    config = [dns |-> DnsOf(r, b), inbounds |-> Inbounds(r),
              outbounds |-> <<o, DirectOf(alias, b)>>, route |-> RouteOf(r, alias, b)]

LEMMA SingleParts ==
  ASSUME NEW config, NEW r, NEW alias, NEW o, NEW b, IsSingle(config, r, alias, o, b)
  PROVE  /\ config.dns = DnsOf(r, b) /\ config.inbounds = Inbounds(r)
         /\ config.route = RouteOf(r, alias, b)
         /\ config.outbounds[1] = o /\ config.outbounds[2] = DirectOf(alias, b)
         /\ Len(config.outbounds) = 2
         /\ DOMAIN config = {"dns", "inbounds", "outbounds", "route"}
<1>1. PICK dns : dns = DnsOf(r, b)
  OBVIOUS
<1>2. PICK in : in = Inbounds(r)
  OBVIOUS
<1>3. PICK direct : direct = DirectOf(alias, b)
  OBVIOUS
<1>4. PICK route : route = RouteOf(r, alias, b)
  OBVIOUS
<1>5. config = [dns |-> dns, inbounds |-> in, outbounds |-> <<o, direct>>, route |-> route]
  BY <1>1, <1>2, <1>3, <1>4, Zenon DEF IsSingle
<1>6. /\ config.dns = dns /\ config.inbounds = in /\ config.route = route
      /\ config.outbounds[1] = o /\ config.outbounds[2] = direct /\ Len(config.outbounds) = 2
      /\ DOMAIN config = {"dns", "inbounds", "outbounds", "route"}
  BY <1>5
<1> QED
  BY <1>1, <1>2, <1>3, <1>4, <1>6, Zenon

LEMMA SingleExit ==
  ASSUME NEW config, NEW r, NEW alias, NEW o, NEW b, IsSingle(config, r, alias, o, b)
  PROVE  config.outbounds[1] = o
  BY SingleParts

LEMMA CombinedExit ==
  ASSUME NEW configs, NEW n \in Nat, DOMAIN configs = 1..n, Len(configs) = n,
         NEW control, NEW candidate, NEW alias, NEW k \in 1..n,
         NEW c, c = CombineConfigs(configs, control, candidate, alias)
  PROVE  Switches(c) /\ c.outbounds[k + 3] = BoundExit(configs[k], k, alias)
  BY CombinedExits

Freed(o) == Retag(Without(o, "bind_interface"), "selected")
LEMMA ExitBack ==
  ASSUME NEW config, NEW o, NEW b, config.outbounds[1] = o, IsExit(o, b), NEW k, NEW alias
  PROVE  Freed(BoundExit(config, k, alias)) = o
<1>1. /\ o = [x \in DOMAIN o |-> o[x]] /\ "tag" \in DOMAIN o /\ o["tag"] = "selected"
      /\ "bind_interface" \notin DOMAIN o
  BY Zenon DEF IsExit
<1> QED
  BY <1>1, Unbound DEF Freed

\* What a session takes from its first configuration.
SessionRoute(r, alias, b) ==
    ("rules" :> Inserted(Rules(r, OwnPrefixes(r)), CandidateRule))
    @@ Without(RouteOf(r, alias, b), "default_interface")

IsSession(c, r, alias, b, control, candidate) ==
    /\ c.dns = DnsOf(r, TRUE) /\ c.control = control
    /\ c.inbounds = Append(Inbounds(r), CandidateInbound(candidate))
    /\ c.route = SessionRoute(r, alias, b)
    /\ DOMAIN c = {"dns", "inbounds", "outbounds", "route", "control"}

LEMMA RulesOfRoute ==
  ASSUME NEW r, NEW alias, NEW b
  PROVE  RouteOf(r, alias, b)["rules"] = Rules(r, OwnPrefixes(r))
<1>1. PICK f : f = RouteOf(r, alias, b)
  OBVIOUS
<1>2. PICK rules : rules = Rules(r, OwnPrefixes(r))
  OBVIOUS
<1>3. IsRoute(f, rules, OutboundOf(r.policy.default), b, alias)
  BY <1>1, <1>2, RouteIs, Zenon
<1> QED
  BY <1>1, <1>2, <1>3, Zenon DEF IsRoute

LEMMA CombinedParts ==
  ASSUME NEW r, NEW alias, Physical(r, alias), NEW configs, NEW o, NEW b,
         IsSingle(configs[1], r, alias, o, b), NEW control, NEW candidate,
         NEW c, c = CombineConfigs(configs, control, candidate, alias)
  PROVE  IsSession(c, r, alias, b, control, candidate)
<1>1. PICK first : first = configs[1]
  OBVIOUS
<1>2. PICK base : base = BindDns(first, alias)
  OBVIOUS
<1>3. /\ first.dns = DnsOf(r, b) /\ first.inbounds = Inbounds(r) /\ first.route = RouteOf(r, alias, b)
      /\ DOMAIN first = {"dns", "inbounds", "outbounds", "route"}
  <2>1. IsSingle(first, r, alias, o, b)
    BY <1>1
  <2> QED
    BY <2>1, SingleParts
<1>4. base.inbounds = Inbounds(r) /\ base.route = RouteOf(r, alias, b)
  BY <1>2, <1>3 DEF BindDns
<1>5. base.dns = DnsOf(r, TRUE)
  <2>1. "dns" \in DOMAIN first
    BY <1>3
  <2> QED
    BY <1>2, <1>3, <2>1, DnsBound, Zenon
<1>6. /\ c.dns = base.dns /\ c.control = control
      /\ c.inbounds = Append(base.inbounds, CandidateInbound(candidate))
      /\ c.route = ("rules" :> Inserted(base.route["rules"], CandidateRule))
                    @@ Without(base.route, "default_interface")
      /\ DOMAIN c = {"dns", "inbounds", "outbounds", "route", "control"}
  BY <1>1, <1>2 DEF CombineConfigs
<1>7. RouteOf(r, alias, b)["rules"] = Rules(r, OwnPrefixes(r))
  BY RulesOfRoute, Zenon
<1>8. c.route = SessionRoute(r, alias, b)
  BY <1>4, <1>6, <1>7, Zenon DEF SessionRoute
<1> QED
  BY <1>4, <1>5, <1>6, <1>8, Zenon DEF IsSession

LEMMA RulesType ==
  ASSUME NEW r, RequestOK(r), NEW prefixes
  PROVE  /\ Rules(r, prefixes) \in Seq(RuleSetOf(r, prefixes)) /\ Rules(r, prefixes) # <<>>
         /\ CandidateRule \in RuleSetOf(r, prefixes)
         /\ LaterRules(r, prefixes) \in Seq(RuleSetOf(r, prefixes))
         /\ Len(Rules(r, prefixes)) = Len(LaterRules(r, prefixes)) + 1
         /\ Rules(r, prefixes)[1] = HealthRule
         /\ \A i \in 1..Len(LaterRules(r, prefixes)) : Rules(r, prefixes)[i + 1] = LaterRules(r, prefixes)[i]
<1>1. PICK later : later = LaterRules(r, prefixes)
  OBVIOUS
<1>2. PICK X : X = RuleSetOf(r, prefixes)
  OBVIOUS
<1>3. later \in Seq(X)
  BY <1>1, <1>2, LaterType, Zenon
<1>4. HealthRule \in X /\ CandidateRule \in X
  BY <1>2, Zenon DEF RuleSetOf, RuleSet
<1>5. PICK h : h = HealthRule
  OBVIOUS
<1>6. Rules(r, prefixes) = <<h>> \o later
  BY <1>1, <1>5, Zenon DEF Rules
<1>7. /\ <<h>> \o later \in Seq(X) /\ Len(<<h>> \o later) = Len(later) + 1
      /\ <<h>> \o later # <<>> /\ (<<h>> \o later)[1] = h
      /\ \A i \in 1..Len(later) : (<<h>> \o later)[i + 1] = later[i]
  BY <1>3, <1>4, <1>5
<1> QED
  BY <1>1, <1>2, <1>3, <1>4, <1>5, <1>6, <1>7, Zenon

\* The rules of a session, and those of one of its exits.
\* The route of one exit, from that of its session.
RouteBack(f, alias, bridged) ==
    ("rules" :> <<Head(f["rules"])>> \o Tail(Tail(f["rules"]))) @@ f
    @@ When(~bridged, "default_interface" :> alias)

LEMMA SessionRoutes ==
  ASSUME NEW r, RequestOK(r), NEW alias, NEW b, NEW f, f = SessionRoute(r, alias, b)
  PROVE  LET rules == Rules(r, OwnPrefixes(r))
         IN  /\ f["rules"] = Inserted(rules, CandidateRule)
             /\ Len(f["rules"]) = Len(rules) + 1 /\ f["rules"][2] = CandidateRule
             /\ "default_interface" \notin DOMAIN f
             /\ \A bridged : RouteBack(f, alias, bridged) = RouteOf(r, alias, bridged)
<1>1. PICK rules : rules = Rules(r, OwnPrefixes(r))
  OBVIOUS
<1>2. PICK all : all = Inserted(rules, CandidateRule)
  OBVIOUS
<1>3. PICK X : X = RuleSetOf(r, OwnPrefixes(r))
  OBVIOUS
<1>4. rules \in Seq(X) /\ rules # <<>> /\ CandidateRule \in X
  BY <1>1, <1>3, RulesType, Zenon
<1>5. Len(all) = Len(rules) + 1 /\ all[2] = CandidateRule /\ <<Head(all)>> \o Tail(Tail(all)) = rules
  BY <1>2, <1>4, InsertedFacts, Zenon
<1>6. PICK base : base = RouteOf(r, alias, b)
  OBVIOUS
<1>7. PICK final : final = OutboundOf(r.policy.default)
  OBVIOUS
<1>8. f = ("rules" :> all) @@ Without(base, "default_interface")
  BY <1>1, <1>2, <1>6, Zenon DEF SessionRoute
<1>9. IsRoute(base, rules, final, b, alias)
  BY <1>1, <1>6, <1>7, RouteIs, Zenon
<1>10. ASSUME NEW bridged
       PROVE  /\ IsRoute(f, all, final, TRUE, alias)
              /\ ("rules" :> rules) @@ f @@ When(~bridged, "default_interface" :> alias)
                    = RouteOf(r, alias, bridged)
  <2>1. PICK g : g = ("rules" :> rules) @@ f @@ When(~bridged, "default_interface" :> alias)
    OBVIOUS
  <2>2. IsRoute(f, all, final, TRUE, alias) /\ IsRoute(g, rules, final, bridged, alias)
    BY <1>8, <1>9, <2>1, RouteUndone, Zenon
  <2>3. PICK h : h = RouteOf(r, alias, bridged)
    OBVIOUS
  <2>4. IsRoute(h, rules, final, bridged, alias)
    BY <1>1, <1>7, <2>3, RouteIs, Zenon
  <2>5. g = h
    BY <2>2, <2>4, SameRoute, Zenon
  <2> QED
    BY <2>1, <2>2, <2>3, <2>5, Zenon
<1>11. f["rules"] = all /\ "default_interface" \notin DOMAIN f
  <2>1. IsRoute(f, all, final, TRUE, alias)
    BY <1>10
  <2>2. "default_interface" \notin {"rules", "final", "default_domain_resolver"}
    OBVIOUS
  <2> QED
    BY <2>1, <2>2, Zenon DEF IsRoute
<1>12. <<Head(f["rules"])>> \o Tail(Tail(f["rules"])) = rules
  BY <1>5, <1>11, Zenon
<1>13. ASSUME NEW bridged PROVE RouteBack(f, alias, bridged) = RouteOf(r, alias, bridged)
  BY <1>10, <1>12, Zenon DEF RouteBack
<1> QED
  BY <1>1, <1>2, <1>5, <1>11, <1>13, Zenon

LEMMA RouteComesBack ==
  ASSUME NEW r, RequestOK(r), NEW alias, NEW b, NEW f, f = SessionRoute(r, alias, b), NEW bridged
  PROVE  RouteBack(f, alias, bridged) = RouteOf(r, alias, bridged)
  BY SessionRoutes, Zenon

LEMMA SplitUndoesCombine ==
  ASSUME NEW r, RequestOK(r), r.mode.kind = "tun",
         NEW alias, Physical(r, alias), NEW c, NEW b1, NEW control, NEW candidate,
         IsSession(c, r, alias, b1, control, candidate),
         NEW config, NEW k, c.outbounds[k + 3] = BoundExit(config, k, alias),
         NEW o, NEW b, IsExit(o, b), IsSingle(config, r, alias, o, b)
  PROVE  SingleConfig(c, k, alias) = config
<1>1. /\ c.dns = DnsOf(r, TRUE) /\ c.inbounds = Append(Inbounds(r), CandidateInbound(candidate))
      /\ c.route = SessionRoute(r, alias, b1)
  BY Zenon DEF IsSession
<1>2. c.outbounds[k + 3] = BoundExit(config, k, alias)
  OBVIOUS
<1>3. PICK e : e = c.outbounds[k + 3]
  OBVIOUS
<1>4. config.outbounds[1] = o
  BY SingleExit, Zenon
<1>5. e["type"] = "socks" <=> b
  <2>1. PICK t : t = "tag" :> NodeTag(k)
    OBVIOUS
  <2>2. PICK f : f = When(o["type"] # "socks", "bind_interface" :> alias)
    OBVIOUS
  <2>3. PICK m : m = t @@ o
    OBVIOUS
  <2>4. e = m @@ f
    BY <1>2, <1>3, <1>4, <2>1, <2>2, <2>3, Zenon DEF BoundExit
  <2>5. IsPart(t, TRUE, "tag", NodeTag(k)) /\ IsMerge(m, t, o) /\ IsMerge(e, m, f)
    BY <2>1, <2>3, <2>4, PartIs, MergeIs, Zenon
  <2>6. "type" \in DOMAIN o /\ (o["type"] = "socks" <=> b)
    BY Zenon DEF IsExit
  <2>7. e["type"] = o["type"]
    BY <2>5, <2>6 DEF IsMerge, IsPart
  <2> QED
    BY <2>6, <2>7, Zenon
<1>6. Retag(Without(e, "bind_interface"), "selected") = o
  <2>1. Freed(BoundExit(config, k, alias)) = o
    BY <1>4, ExitBack
  <2> QED
    BY <1>2, <1>3, <2>1, Zenon DEF Freed
<1>7. PICK dns : dns = IF e["type"] # "socks" /\ c.dns.servers[1]["type"] = "local"
                       THEN [c.dns EXCEPT !.servers[1] = Without(@, "bind_interface")] ELSE c.dns
  OBVIOUS
<1>8. dns = DnsOf(r, b)
  <2>0. b \in BOOLEAN
    BY Zenon DEF IsExit
  <2>3. (IF ~b /\ DnsOf(r, TRUE).servers[1]["type"] = "local"
         THEN [DnsOf(r, TRUE) EXCEPT !.servers[1] = Without(@, "bind_interface")]
         ELSE DnsOf(r, TRUE)) = DnsOf(r, b)
    BY <2>0, DnsUndone, Zenon
  <2> QED
    BY <1>1, <1>5, <1>7, <2>3, Zenon
<1>9. SubSeq(c.inbounds, 1, 4) = Inbounds(r)
  BY <1>1, InboundsBack, Zenon
<1>10. RouteBack(c.route, alias, b) = RouteOf(r, alias, b)
  <2>1. PICK f : f = c.route
    OBVIOUS
  <2>2. RouteBack(f, alias, b) = RouteOf(r, alias, b)
    BY <1>1, <2>1, RouteComesBack
  <2> QED
    BY <2>1, <2>2
<1>11. PICK direct : direct = DirectOf(alias, b)
  OBVIOUS
<1>12. direct = ("type" :> "direct") @@ ("tag" :> "direct")
                    @@ When(e["type"] = "socks", "bind_interface" :> alias)
  BY <1>5, <1>11, Zenon DEF DirectOf, When
<1>13. ("rules" :> <<Head(c.route["rules"])>> \o Tail(Tail(c.route["rules"]))) @@ c.route
          @@ When(~(e["type"] = "socks"), "default_interface" :> alias) = RouteOf(r, alias, b)
  BY <1>5, <1>10, Zenon DEF RouteBack, When
<1>14. SingleConfig(c, k, alias) = SingleConfigWith(dns, c, k, alias)
  BY <1>3, <1>7, Zenon DEF SingleConfig
<1>15. SingleConfigWith(dns, c, k, alias) =
          [dns |-> DnsOf(r, b), inbounds |-> Inbounds(r), outbounds |-> <<o, DirectOf(alias, b)>>,
           route |-> RouteOf(r, alias, b)]
  BY <1>3, <1>6, <1>8, <1>9, <1>11, <1>12, <1>13, Zenon DEF SingleConfigWith
<1> QED
  BY <1>14, <1>15, Zenon DEF IsSingle

-----------------------------------------------------------------------------
(* The exit of a server is in the schema of the helper *)

\* What is right about an exit, before it is named and bound.
ExitFits(o) ==
    /\ o = [x \in DOMAIN o |-> o[x]] /\ OutboundInSchema(o)
    /\ "type" \in DOMAIN o /\ o["type"] # "direct"
    /\ "tag" \in DOMAIN o /\ o["tag"] = "selected"

TransportFields == {"transport.type", "transport.path", "transport.headers.Host", "transport.service_name"}
IsTransport(f, t) ==
    /\ \A x : x \in DOMAIN f => x \in TransportFields
    /\ "transport.type" \in DOMAIN f <=> t.type # "tcp"
    /\ t.type # "tcp" => f["transport.type"] = t.type
    /\ "transport.path" \in DOMAIN f <=> t.path # ""
    /\ "transport.headers.Host" \in DOMAIN f <=> t.host # ""
    /\ "transport.service_name" \in DOMAIN f <=> t.service # ""

LEMMA TransportIs ==
  ASSUME NEW t, NEW f, f = TransportValue(t)
  PROVE  IsTransport(f, t)
<1>1. PICK a : a = When(t.type # "tcp", "transport.type" :> t.type)
  OBVIOUS
<1>2. PICK b : b = Opt("transport.path", t.path)
  OBVIOUS
<1>3. PICK c : c = Opt("transport.headers.Host", t.host)
  OBVIOUS
<1>4. PICK d : d = Opt("transport.service_name", t.service)
  OBVIOUS
<1>5. PICK m : m = a @@ b
  OBVIOUS
<1>6. PICK n : n = m @@ c
  OBVIOUS
<1>7. f = n @@ d
  BY <1>1, <1>2, <1>3, <1>4, <1>5, <1>6, Zenon DEF TransportValue
<1>8. /\ IsPart(a, t.type # "tcp", "transport.type", t.type)
      /\ IsPart(b, t.path # "", "transport.path", t.path)
      /\ IsPart(c, t.host # "", "transport.headers.Host", t.host)
      /\ IsPart(d, t.service # "", "transport.service_name", t.service)
  BY <1>1, <1>2, <1>3, <1>4, WhenIs, OptIs, Zenon
<1>9. IsMerge(m, a, b) /\ IsMerge(n, m, c) /\ IsMerge(f, n, d)
  BY <1>5, <1>6, <1>7, MergeIs, Zenon
<1>10. /\ \A x : x \in DOMAIN m <=> (t.type # "tcp" /\ x = "transport.type") \/ (t.path # "" /\ x = "transport.path")
       /\ t.type # "tcp" => m["transport.type"] = t.type
  BY <1>8, <1>9 DEF IsMerge, IsPart
<1>11. \A x : x \in DOMAIN n <=> \/ (t.type # "tcp" /\ x = "transport.type") \/ (t.path # "" /\ x = "transport.path")
                                 \/ (t.host # "" /\ x = "transport.headers.Host")
  BY <1>8, <1>9, <1>10 DEF IsMerge, IsPart
<1>12. t.type # "tcp" => n["transport.type"] = t.type
  BY <1>9, <1>10 DEF IsMerge
<1>13. \A x : x \in DOMAIN f <=> \/ (t.type # "tcp" /\ x = "transport.type") \/ (t.path # "" /\ x = "transport.path")
                                 \/ (t.host # "" /\ x = "transport.headers.Host")
                                 \/ (t.service # "" /\ x = "transport.service_name")
  BY <1>8, <1>9, <1>11 DEF IsMerge, IsPart
<1>14. t.type # "tcp" => f["transport.type"] = t.type
  BY <1>9, <1>11, <1>12 DEF IsMerge
<1>15. \A x : x \in DOMAIN f => x \in TransportFields
  BY <1>13, Zenon DEF TransportFields
<1>a. /\ "transport.type" # "transport.path" /\ "transport.type" # "transport.headers.Host"
      /\ "transport.type" # "transport.service_name" /\ "transport.path" # "transport.headers.Host"
      /\ "transport.path" # "transport.service_name"
      /\ "transport.headers.Host" # "transport.service_name"
  OBVIOUS
<1>16. /\ "transport.type" \in DOMAIN f <=> t.type # "tcp"
       /\ "transport.path" \in DOMAIN f <=> t.path # ""
  BY <1>13, <1>a, Zenon
<1>17. /\ "transport.headers.Host" \in DOMAIN f <=> t.host # ""
       /\ "transport.service_name" \in DOMAIN f <=> t.service # ""
  BY <1>13, <1>a, Zenon
<1> QED
  BY <1>14, <1>15, <1>16, <1>17, Zenon DEF IsTransport

LEMMA TlsIs ==
  ASSUME NEW t, NEW b, NEW f, f = When(b, TlsValue(t))
  PROVE  \A x : x \in DOMAIN f => x \in TlsFields
<1>1. PICK v : v = TlsValue(t)
  OBVIOUS
<1>2. \A x : x \in DOMAIN v => TlsHas(t, x)
  BY <1>1, TlsValueFields, Zenon
<1>3. \A x : TlsHas(t, x) => x \in TlsFields
  BY Zenon DEF TlsHas, TlsFields
<1>4. \A x : x \in DOMAIN f => x \in DOMAIN v
  <2>1. f = When(b, v)
    BY <1>1
  <2> QED
    BY <2>1, WhenDomain, Zenon
<1> QED
  BY <1>2, <1>3, <1>4, Zenon

LEMMA VlessSchema ==
  ASSUME NEW n, NodeFits(n), n.kind = "vless", NEW o, o = VlessOutbound(n)
  PROVE  ExitFits(o)
<1>1. PICK a1 : a1 = "type" :> "vless"
  OBVIOUS
<1>2. PICK a2 : a2 = "tag" :> "selected"
  OBVIOUS
<1>3. PICK a3 : a3 = "server" :> n.server
  OBVIOUS
<1>4. PICK a4 : a4 = "server_port" :> n.port
  OBVIOUS
<1>5. PICK a5 : a5 = "uuid" :> n.user
  OBVIOUS
<1>6. PICK a6 : a6 = Opt("flow", n.flow)
  OBVIOUS
<1>7. PICK a7 : a7 = Opt("packet_encoding", n.packet)
  OBVIOUS
<1>8. PICK a8 : a8 = TransportValue(n.transport)
  OBVIOUS
<1>9. PICK a9 : a9 = When(n.tls.enabled, TlsValue(n.tls))
  OBVIOUS
<1>10. PICK m2 : m2 = a1 @@ a2
  OBVIOUS
<1>11. PICK m3 : m3 = m2 @@ a3
  OBVIOUS
<1>12. PICK m4 : m4 = m3 @@ a4
  OBVIOUS
<1>13. PICK m5 : m5 = m4 @@ a5
  OBVIOUS
<1>14. PICK m6 : m6 = m5 @@ a6
  OBVIOUS
<1>15. PICK m7 : m7 = m6 @@ a7
  OBVIOUS
<1>16. PICK m8 : m8 = m7 @@ a8
  OBVIOUS
<1>17. o = m8 @@ a9
  BY <1>1, <1>2, <1>3, <1>4, <1>5, <1>6, <1>7, <1>8, <1>9, <1>10, <1>11, <1>12, <1>13, <1>14,
     <1>15, <1>16, Zenon DEF VlessOutbound, Outbound
<1>18. /\ IsPart(a1, TRUE, "type", "vless") /\ IsPart(a2, TRUE, "tag", "selected")
       /\ IsPart(a3, TRUE, "server", n.server) /\ IsPart(a4, TRUE, "server_port", n.port)
       /\ IsPart(a5, TRUE, "uuid", n.user) /\ IsPart(a6, n.flow # "", "flow", n.flow)
       /\ IsPart(a7, n.packet # "", "packet_encoding", n.packet)
  BY <1>1, <1>2, <1>3, <1>4, <1>5, <1>6, <1>7, PartIs, OptIs, Zenon
<1>19. IsTransport(a8, n.transport) /\ \A x : x \in DOMAIN a9 => x \in TlsFields
  BY <1>8, <1>9, TransportIs, TlsIs, Zenon
<1>20. /\ IsMerge(m2, a1, a2) /\ IsMerge(m3, m2, a3) /\ IsMerge(m4, m3, a4) /\ IsMerge(m5, m4, a5)
       /\ IsMerge(m6, m5, a6) /\ IsMerge(m7, m6, a7) /\ IsMerge(m8, m7, a8) /\ IsMerge(o, m8, a9)
  BY <1>10, <1>11, <1>12, <1>13, <1>14, <1>15, <1>16, <1>17, MergeIs, Zenon
<1>21. \A x : x \in DOMAIN m3 <=> x = "type" \/ x = "tag" \/ x = "server"
  BY <1>18, <1>20 DEF IsMerge, IsPart
<1>22. m3["type"] = "vless" /\ m3["tag"] = "selected"
  <2>1. m2["type"] = "vless" /\ m2["tag"] = "selected" /\ "type" \in DOMAIN m2 /\ "tag" \in DOMAIN m2
    <3>1. IsMerge(m2, a1, a2) /\ IsPart(a1, TRUE, "type", "vless") /\ IsPart(a2, TRUE, "tag", "selected")
      BY <1>18, <1>20
    <3> QED
      BY <3>1 DEF IsMerge, IsPart
  <2>2. IsMerge(m3, m2, a3)
    BY <1>20
  <2> QED
    BY <2>1, <2>2, Zenon DEF IsMerge
<1>23. \A x : x \in DOMAIN m5 <=> x = "type" \/ x = "tag" \/ x = "server" \/ x = "server_port" \/ x = "uuid"
  BY <1>18, <1>20, <1>21 DEF IsMerge, IsPart
<1>24. m5["type"] = "vless" /\ m5["tag"] = "selected" /\ m5["server_port"] = n.port
  <2>1. m4["type"] = "vless" /\ m4["tag"] = "selected"
    BY <1>20, <1>21, <1>22 DEF IsMerge
  <2>2. /\ \A x : x \in DOMAIN m4 <=> x = "type" \/ x = "tag" \/ x = "server" \/ x = "server_port"
        /\ m4["server_port"] = n.port
    <3>1. IsMerge(m4, m3, a4) /\ IsPart(a4, TRUE, "server_port", n.port)
      BY <1>18, <1>20
    <3> QED
      BY <1>21, <3>1 DEF IsMerge, IsPart
  <2> QED
    BY <1>20, <2>1, <2>2 DEF IsMerge
<1>25. /\ \A x : x \in DOMAIN m7 =>
            \/ x = "type" \/ x = "tag" \/ x = "server" \/ x = "server_port" \/ x = "uuid"
            \/ x = "flow" \/ x = "packet_encoding"
       /\ \A x \in DOMAIN m5 : x \in DOMAIN m7 /\ m7[x] = m5[x]
  <2>1. /\ IsMerge(m6, m5, a6) /\ IsMerge(m7, m6, a7)
        /\ IsPart(a6, n.flow # "", "flow", n.flow)
        /\ IsPart(a7, n.packet # "", "packet_encoding", n.packet)
    BY <1>18, <1>20
  <2>2. \A x : x \in DOMAIN m7 => x \in DOMAIN m5 \/ x = "flow" \/ x = "packet_encoding"
    BY <2>1 DEF IsMerge, IsPart
  <2>3. \A x \in DOMAIN m5 : x \in DOMAIN m7 /\ m7[x] = m5[x]
    BY <2>1 DEF IsMerge
  <2> QED
    BY <1>23, <2>2, <2>3, Zenon
<1>26. \A x \in DOMAIN m7 : x \in DOMAIN o /\ o[x] = m7[x]
  BY <1>20 DEF IsMerge
<1>27. o["type"] = "vless" /\ o["tag"] = "selected" /\ o["server_port"] = n.port
  BY <1>23, <1>24, <1>25, <1>26
<1>28. \A x : x \in DOMAIN o <=> x \in DOMAIN m7 \/ x \in DOMAIN a8 \/ x \in DOMAIN a9
  BY <1>20 DEF IsMerge
<1>29. "type" \in DOMAIN o /\ "tag" \in DOMAIN o /\ "server_port" \in DOMAIN o
  BY <1>23, <1>25, <1>26
<1>30. DOMAIN o \subseteq OutboundFields("vless")
  <2>1. \A x : x \in DOMAIN m7 => x \in OutboundFields("vless")
    BY <1>25 DEF OutboundFields, CommonFields
  <2>2. \A x : x \in DOMAIN a8 => x \in OutboundFields("vless")
    BY <1>19 DEF IsTransport, TransportFields, OutboundFields
  <2>3. \A x : x \in DOMAIN a9 => x \in OutboundFields("vless")
    BY <1>19 DEF OutboundFields
  <2> QED
    BY <1>28, <2>1, <2>2, <2>3, Zenon
<1>31. \A x \in TransportFields : (x \in DOMAIN o <=> x \in DOMAIN a8) /\ (x \in DOMAIN a8 => o[x] = a8[x])
  <2>1. \A x \in TransportFields : x \notin DOMAIN m7
    BY <1>25 DEF TransportFields
  <2>2. \A x \in TransportFields : x \notin DOMAIN a9
    <3>1. \A x \in TransportFields : x \notin TlsFields
      BY DEF TransportFields, TlsFields
    <3> QED
      BY <1>19, <3>1, Zenon
  <2>3. \A x \in TransportFields : x \in DOMAIN o <=> x \in DOMAIN a8
    BY <1>28, <2>1, <2>2, Zenon
  <2>4. \A x \in TransportFields : x \in DOMAIN a8 => x \in DOMAIN m8 /\ m8[x] = a8[x]
    BY <1>20, <2>1 DEF IsMerge
  <2>5. \A x \in TransportFields : x \in DOMAIN a8 => o[x] = a8[x]
    BY <1>20, <2>4 DEF IsMerge
  <2> QED
    BY <2>3, <2>5, Zenon
<1>32. Field(o, "server_port", "ok") = "ok"
  BY <1>27 DEF NodeFits, Field
<1>33. /\ Field(o, "bridge_port", 1) > 0 /\ Field(o, "obfs.type", "salamander") = "salamander"
       /\ Field(o, "udp_over_tcp.enabled", "true") = "true" /\ Field(o, "udp_over_tcp.version", "2") = "2"
  <2>1. \A x \in {"bridge_port", "obfs.type", "udp_over_tcp.enabled", "udp_over_tcp.version"} :
            x \notin OutboundFields("vless")
    BY DEF OutboundFields, CommonFields, TlsFields
  <2>2. \A x \in {"bridge_port", "obfs.type", "udp_over_tcp.enabled", "udp_over_tcp.version"} : x \notin DOMAIN o
    BY <1>30, <2>1, Zenon
  <2> QED
    BY <2>2 DEF Field
<1>34. CASE n.transport.type = "tcp"
  <2>1. "transport.type" \notin DOMAIN o
    BY <1>19, <1>31, <1>34 DEF IsTransport, TransportFields
  <2>2. Field(o, "transport.type", "") = ""
    BY <2>1 DEF Field
  <2> QED
    BY <1>17, <1>20, <1>27, <1>29, <1>30, <1>32, <1>33, <2>2 DEF ExitFits, OutboundInSchema, IsMerge
<1>35. CASE n.transport.type = "ws"
  <2>1. "transport.type" \in DOMAIN o /\ o["transport.type"] = "ws" /\ "transport.service_name" \notin DOMAIN o
    BY <1>19, <1>31, <1>35 DEF IsTransport, TransportFields, NodeFits, TransportShape
  <2>2. Field(o, "transport.type", "") = "ws"
    BY <2>1 DEF Field
  <2> QED
    BY <1>17, <1>20, <1>27, <1>29, <1>30, <1>32, <1>33, <2>1, <2>2 DEF ExitFits, OutboundInSchema, IsMerge
<1>36. CASE n.transport.type = "grpc"
  <2>1. /\ "transport.type" \in DOMAIN o /\ o["transport.type"] = "grpc"
        /\ "transport.path" \notin DOMAIN o /\ "transport.headers.Host" \notin DOMAIN o
    BY <1>19, <1>31, <1>36 DEF IsTransport, TransportFields, NodeFits, TransportShape
  <2>2. Field(o, "transport.type", "") = "grpc"
    BY <2>1 DEF Field
  <2>3. DOMAIN o \cap {"transport.path", "transport.headers.Host"} = {}
    BY <2>1
  <2> QED
    BY <1>17, <1>20, <1>27, <1>29, <1>30, <1>32, <1>33, <2>2, <2>3 DEF ExitFits, OutboundInSchema, IsMerge
<1> QED
  BY <1>34, <1>35, <1>36 DEF NodeFits, TransportShape

IsTwo(f, b, k, v, l, w) ==
    /\ \A x : x \in DOMAIN f <=> b /\ (x = k \/ x = l)
    /\ b => f[k] = v /\ f[l] = w
LEMMA TwoIs ==
  ASSUME NEW f, NEW b, NEW k, NEW v, NEW l, NEW w, k # l, f = When(b, (k :> v) @@ (l :> w))
  PROVE  IsTwo(f, b, k, v, l, w)
<1>1. PICK p : p = k :> v
  OBVIOUS
<1>2. PICK q : q = l :> w
  OBVIOUS
<1>3. PICK m : m = p @@ q
  OBVIOUS
<1>4. IsPart(p, TRUE, k, v) /\ IsPart(q, TRUE, l, w) /\ IsMerge(m, p, q)
  BY <1>1, <1>2, <1>3, PartIs, MergeIs, Zenon
<1>5. (\A x : x \in DOMAIN m <=> x = k \/ x = l) /\ m[k] = v /\ m[l] = w
  BY <1>4 DEF IsPart, IsMerge
<1>6. CASE b
  <2>1. f = m
    BY <1>1, <1>2, <1>3, <1>6, Zenon DEF When
  <2> QED
    BY <1>5, <1>6, <2>1, Zenon DEF IsTwo
<1>7. CASE ~b
  <2>1. f = <<>>
    BY <1>7, Zenon DEF When
  <2> QED
    BY <1>7, <2>1, NoneDomain, Zenon DEF IsTwo
<1> QED
  BY <1>6, <1>7

LEMMA TlsPlain ==
  ASSUME NEW t, NEW f, f = TlsValue(t)
  PROVE  \A x : x \in DOMAIN f => x \in TlsFields
<1>1. \A x : x \in DOMAIN f => TlsHas(t, x)
  BY TlsValueFields, Zenon
<1>2. \A x : TlsHas(t, x) => x \in TlsFields
  BY Zenon DEF TlsHas, TlsFields
<1> QED
  BY <1>1, <1>2, Zenon

\* What every exit says first.
IsBase(f, type, k, v) ==
    /\ \A x : x \in DOMAIN f <=> x = "type" \/ x = "tag" \/ x = "server" \/ x = k
    /\ f["type"] = type /\ f["tag"] = "selected" /\ f[k] = v
LEMMA BaseIs ==
  ASSUME NEW type, NEW k, NEW v, k # "type", k # "tag", k # "server", NEW server,
         NEW f, f = Outbound(type) @@ ("server" :> server) @@ (k :> v)
  PROVE  IsBase(f, type, k, v)
<1>1. PICK a : a = "type" :> type
  OBVIOUS
<1>2. PICK b : b = "tag" :> "selected"
  OBVIOUS
<1>3. PICK c : c = "server" :> server
  OBVIOUS
<1>4. PICK d : d = k :> v
  OBVIOUS
<1>5. PICK m : m = a @@ b
  OBVIOUS
<1>6. PICK n : n = m @@ c
  OBVIOUS
<1>7. f = n @@ d
  BY <1>1, <1>2, <1>3, <1>4, <1>5, <1>6, Zenon DEF Outbound
<1>8. IsPart(a, TRUE, "type", type) /\ IsPart(b, TRUE, "tag", "selected")
  BY <1>1, <1>2, PartIs, Zenon
<1>9. IsPart(c, TRUE, "server", server) /\ IsPart(d, TRUE, k, v)
  BY <1>3, <1>4, PartIs, Zenon
<1>10. IsMerge(m, a, b) /\ IsMerge(n, m, c) /\ IsMerge(f, n, d)
  BY <1>5, <1>6, <1>7, MergeIs, Zenon
<1>11. (\A x : x \in DOMAIN m <=> x = "type" \/ x = "tag") /\ m["type"] = type /\ m["tag"] = "selected"
  <2>1. IsMerge(m, a, b)
    BY <1>10
  <2> QED
    BY <1>8, <2>1 DEF IsPart, IsMerge
<1>12. /\ \A x : x \in DOMAIN n <=> x = "type" \/ x = "tag" \/ x = "server"
       /\ n["type"] = type /\ n["tag"] = "selected"
  <2>1. IsMerge(n, m, c)
    BY <1>10
  <2> QED
    BY <1>9, <1>11, <2>1 DEF IsPart, IsMerge
<1>13. \A x : x \in DOMAIN f <=> x = "type" \/ x = "tag" \/ x = "server" \/ x = k
  BY <1>9, <1>10, <1>12 DEF IsPart, IsMerge
<1>14. f["type"] = type /\ f["tag"] = "selected"
  BY <1>10, <1>12 DEF IsMerge
<1>15. f[k] = v
  BY <1>9, <1>10, <1>12 DEF IsPart, IsMerge
<1> QED
  BY <1>13, <1>14, <1>15, Zenon DEF IsBase

LEMMA HysteriaSchema ==
  ASSUME NEW n, NodeFits(n), n.kind = "hysteria2", NEW o, o = HysteriaOutbound(n)
  PROVE  ExitFits(o)
<1>1. PICK b : b = Outbound("hysteria2") @@ ("server" :> n.server) @@ ("password" :> n.user)
  OBVIOUS
<1>2. PICK a1 : a1 = Opt("server_port", n.port)
  OBVIOUS
<1>3. PICK a2 : a2 = Opt("server_ports", n.ports)
  OBVIOUS
<1>4. PICK a3 : a3 = Opt("hop_interval", n.hop)
  OBVIOUS
<1>5. PICK a4 : a4 = When(n.obfs # "", ("obfs.type" :> "salamander") @@ ("obfs.password" :> n.obfs))
  OBVIOUS
<1>6. PICK a5 : a5 = TlsValue(n.tls)
  OBVIOUS
<1>7. PICK m1 : m1 = b @@ a1
  OBVIOUS
<1>8. PICK m2 : m2 = m1 @@ a2
  OBVIOUS
<1>9. PICK m3 : m3 = m2 @@ a3
  OBVIOUS
<1>10. PICK m4 : m4 = m3 @@ a4
  OBVIOUS
<1>11. o = m4 @@ a5
  BY <1>1, <1>2, <1>3, <1>4, <1>5, <1>6, <1>7, <1>8, <1>9, <1>10, Zenon DEF HysteriaOutbound
<1>12. IsBase(b, "hysteria2", "password", n.user)
  <2>1. "password" # "type" /\ "password" # "tag" /\ "password" # "server"
    OBVIOUS
  <2> QED
    BY <1>1, <2>1, BaseIs, Zenon
<1>13. /\ IsPart(a1, n.port # "", "server_port", n.port) /\ IsPart(a2, n.ports # "", "server_ports", n.ports)
       /\ IsPart(a3, n.hop # "", "hop_interval", n.hop)
  BY <1>2, <1>3, <1>4, OptIs, Zenon
<1>14. IsTwo(a4, n.obfs # "", "obfs.type", "salamander", "obfs.password", n.obfs)
  <2>1. "obfs.type" # "obfs.password"
    OBVIOUS
  <2> QED
    BY <1>5, <2>1, TwoIs, Zenon
<1>15. \A x : x \in DOMAIN a5 => x \in TlsFields
  BY <1>6, TlsPlain, Zenon
<1>16. IsMerge(m1, b, a1) /\ IsMerge(m2, m1, a2) /\ IsMerge(m3, m2, a3) /\ IsMerge(m4, m3, a4) /\ IsMerge(o, m4, a5)
  BY <1>7, <1>8, <1>9, <1>10, <1>11, MergeIs, Zenon
<1>17. \A x : x \in DOMAIN m1 <=> \/ x = "type" \/ x = "tag" \/ x = "server" \/ x = "password"
                                  \/ (n.port # "" /\ x = "server_port")
  <2>1. IsMerge(m1, b, a1)
    BY <1>16
  <2> QED
    BY <1>12, <1>13, <2>1 DEF IsMerge, IsBase, IsPart
<1>18. m1["type"] = "hysteria2" /\ m1["tag"] = "selected" /\ (n.port # "" => m1["server_port"] = n.port)
  <2>1. IsMerge(m1, b, a1)
    BY <1>16
  <2> QED
    BY <1>12, <1>13, <2>1, ZenonT(60) DEF IsMerge, IsBase, IsPart
<1>19. \A x : x \in DOMAIN m3 <=> \/ x \in DOMAIN m1 \/ (n.ports # "" /\ x = "server_ports")
                                  \/ (n.hop # "" /\ x = "hop_interval")
  <2>1. IsMerge(m2, m1, a2) /\ IsMerge(m3, m2, a3)
    BY <1>16
  <2> QED
    BY <1>13, <2>1 DEF IsMerge, IsPart
<1>20. \A x : x \in DOMAIN o <=> x \in DOMAIN m3 \/ x \in DOMAIN a4 \/ x \in DOMAIN a5
  BY <1>16 DEF IsMerge
<1>21. \A x \in DOMAIN m1 : x \in DOMAIN m3 /\ m3[x] = m1[x]
  <2>1. IsMerge(m2, m1, a2) /\ IsMerge(m3, m2, a3)
    BY <1>16
  <2> QED
    BY <2>1 DEF IsMerge
<1>a. /\ "obfs.type" # "type" /\ "obfs.type" # "tag" /\ "obfs.type" # "server" /\ "obfs.type" # "password"
      /\ "obfs.type" # "server_port" /\ "obfs.type" # "server_ports" /\ "obfs.type" # "hop_interval"
      /\ "obfs.password" # "type" /\ "obfs.password" # "tag" /\ "obfs.password" # "server" /\ "obfs.password" # "password"
      /\ "obfs.password" # "server_port" /\ "obfs.password" # "server_ports" /\ "obfs.password" # "hop_interval"
      /\ "server_port" # "type" /\ "server_port" # "tag" /\ "server_port" # "server" /\ "server_port" # "password"
      /\ "server_port" # "server_ports" /\ "server_port" # "hop_interval"
  OBVIOUS
<1>22. \A x \in DOMAIN m3 : x \in DOMAIN o /\ o[x] = m3[x]
  BY <1>16 DEF IsMerge
<1>23. \A x \in DOMAIN a4 : x \in DOMAIN o /\ o[x] = a4[x]
  <2>1. \A x \in DOMAIN a4 : x = "obfs.type" \/ x = "obfs.password"
    BY <1>14, Zenon DEF IsTwo
  <2>2. "obfs.type" \notin DOMAIN m3 /\ "obfs.password" \notin DOMAIN m3
    BY <1>a, <1>17, <1>19, Zenon
  <2>3. \A x \in DOMAIN a4 : x \in DOMAIN m4 /\ m4[x] = a4[x]
    BY <1>16, <2>1, <2>2 DEF IsMerge
  <2> QED
    BY <1>16, <2>3 DEF IsMerge
<1>24. /\ "type" \in DOMAIN o /\ o["type"] = "hysteria2"
       /\ "tag" \in DOMAIN o /\ o["tag"] = "selected"
  BY <1>17, <1>18, <1>21, <1>22
<1>25. DOMAIN o \subseteq OutboundFields("hysteria2")
  <2>1. \A x : x \in DOMAIN m3 => x \in OutboundFields("hysteria2")
    BY <1>17, <1>19 DEF OutboundFields, CommonFields
  <2>2. \A x : x \in DOMAIN a4 => x \in OutboundFields("hysteria2")
    BY <1>14 DEF IsTwo, OutboundFields
  <2>3. \A x : x \in DOMAIN a5 => x \in OutboundFields("hysteria2")
    BY <1>15 DEF OutboundFields
  <2> QED
    BY <1>20, <2>1, <2>2, <2>3, Zenon
<1>26. Field(o, "server_port", "ok") = "ok"
  <2>1. "server_port" \in DOMAIN o => n.port # ""
    <3>1. "server_port" \notin DOMAIN a5
      BY <1>15 DEF TlsFields
    <3>2. "server_port" \notin DOMAIN a4
      BY <1>a, <1>14, Zenon DEF IsTwo
    <3>3. "server_port" \in DOMAIN m3 => n.port # ""
      BY <1>a, <1>17, <1>19, Zenon
    <3> QED
      BY <1>20, <3>1, <3>2, <3>3, Zenon
  <2>2. n.port # "" => o["server_port"] = n.port
    BY <1>17, <1>18, <1>21, <1>22
  <2>3. n.port = "ok" \/ n.port = ""
    BY DEF NodeFits
  <2> QED
    BY <2>1, <2>2, <2>3, Zenon DEF Field
<1>27. Field(o, "obfs.type", "salamander") = "salamander"
  <2>1. "obfs.type" \in DOMAIN o => "obfs.type" \in DOMAIN a4
    <3>1. "obfs.type" \notin DOMAIN a5
      BY <1>15 DEF TlsFields
    <3>2. "obfs.type" \notin DOMAIN m3
      BY <1>a, <1>17, <1>19, Zenon
    <3> QED
      BY <1>20, <3>1, <3>2, Zenon
  <2>2. "obfs.type" \in DOMAIN a4 => a4["obfs.type"] = "salamander"
    BY <1>14, Zenon DEF IsTwo
  <2> QED
    BY <1>23, <2>1, <2>2, Zenon DEF Field
<1>28. /\ Field(o, "bridge_port", 1) > 0 /\ Field(o, "transport.type", "") = ""
       /\ Field(o, "udp_over_tcp.enabled", "true") = "true" /\ Field(o, "udp_over_tcp.version", "2") = "2"
  <2>1. \A x \in {"bridge_port", "transport.type", "udp_over_tcp.enabled", "udp_over_tcp.version"} :
            x \notin OutboundFields("hysteria2")
    BY DEF OutboundFields, CommonFields, TlsFields
  <2>2. \A x \in {"bridge_port", "transport.type", "udp_over_tcp.enabled", "udp_over_tcp.version"} : x \notin DOMAIN o
    BY <1>25, <2>1, Zenon
  <2> QED
    BY <2>2 DEF Field
<1> QED
  BY <1>16, <1>24, <1>25, <1>26, <1>27, <1>28 DEF ExitFits, OutboundInSchema, IsMerge

LEMMA NaiveSchema ==
  ASSUME NEW n, NodeFits(n), n.kind = "naive", NEW udp_over_tcp, NEW o, o = NaiveOutbound(n, udp_over_tcp)
  PROVE  ExitFits(o)
<1>1. PICK b : b = Outbound("naive") @@ ("server" :> n.server) @@ ("server_port" :> n.port)
  OBVIOUS
<1>2. PICK a1 : a1 = When(n.pass # "", ("username" :> n.user) @@ ("password" :> n.pass))
  OBVIOUS
<1>3. PICK a2 : a2 = Opt("extra_headers", n.headers)
  OBVIOUS
<1>4. PICK a3 : a3 = When(n.quic, "quic" :> "true")
  OBVIOUS
<1>5. PICK a4 : a4 = TlsValue(n.tls)
  OBVIOUS
<1>6. PICK a5 : a5 = When(udp_over_tcp, ("udp_over_tcp.enabled" :> "true") @@ ("udp_over_tcp.version" :> "2"))
  OBVIOUS
<1>7. PICK m1 : m1 = b @@ a1
  OBVIOUS
<1>8. PICK m2 : m2 = m1 @@ a2
  OBVIOUS
<1>9. PICK m3 : m3 = m2 @@ a3
  OBVIOUS
<1>10. PICK m4 : m4 = m3 @@ a4
  OBVIOUS
<1>11. o = m4 @@ a5
  BY <1>1, <1>2, <1>3, <1>4, <1>5, <1>6, <1>7, <1>8, <1>9, <1>10, Zenon DEF NaiveOutbound
<1>12. IsBase(b, "naive", "server_port", n.port)
  <2>1. "server_port" # "type" /\ "server_port" # "tag" /\ "server_port" # "server"
    OBVIOUS
  <2> QED
    BY <1>1, <2>1, BaseIs, Zenon
<1>13. IsTwo(a1, n.pass # "", "username", n.user, "password", n.pass)
  <2>1. "username" # "password"
    OBVIOUS
  <2> QED
    BY <1>2, <2>1, TwoIs, Zenon
<1>14. IsPart(a2, n.headers # "", "extra_headers", n.headers) /\ IsPart(a3, n.quic, "quic", "true")
  BY <1>3, <1>4, OptIs, WhenIs, Zenon
<1>15. \A x : x \in DOMAIN a4 => x \in TlsFields
  BY <1>5, TlsPlain, Zenon
<1>16. IsTwo(a5, udp_over_tcp, "udp_over_tcp.enabled", "true", "udp_over_tcp.version", "2")
  <2>1. "udp_over_tcp.enabled" # "udp_over_tcp.version"
    OBVIOUS
  <2> QED
    BY <1>6, <2>1, TwoIs, Zenon
<1>17. IsMerge(m1, b, a1) /\ IsMerge(m2, m1, a2) /\ IsMerge(m3, m2, a3) /\ IsMerge(m4, m3, a4) /\ IsMerge(o, m4, a5)
  BY <1>7, <1>8, <1>9, <1>10, <1>11, MergeIs, Zenon
<1>18. \A x : x \in DOMAIN m3 =>
            \/ x \in DOMAIN b \/ x = "username" \/ x = "password" \/ x = "extra_headers" \/ x = "quic"
  <2>1. IsMerge(m1, b, a1) /\ IsMerge(m2, m1, a2) /\ IsMerge(m3, m2, a3)
    BY <1>17
  <2>2. \A x : x \in DOMAIN m3 => x \in DOMAIN b \/ x \in DOMAIN a1 \/ x \in DOMAIN a2 \/ x \in DOMAIN a3
    BY <2>1 DEF IsMerge
  <2> QED
    BY <1>13, <1>14, <2>2, Zenon DEF IsTwo, IsPart
<1>19. \A x \in DOMAIN b : x \in DOMAIN m3 /\ m3[x] = b[x]
  <2>1. IsMerge(m1, b, a1) /\ IsMerge(m2, m1, a2) /\ IsMerge(m3, m2, a3)
    BY <1>17
  <2> QED
    BY <2>1 DEF IsMerge
<1>20. \A x : x \in DOMAIN o <=> x \in DOMAIN m3 \/ x \in DOMAIN a4 \/ x \in DOMAIN a5
  BY <1>17 DEF IsMerge
<1>21. \A x \in DOMAIN m3 : x \in DOMAIN o /\ o[x] = m3[x]
  BY <1>17 DEF IsMerge
<1>22. /\ "type" \in DOMAIN b /\ "tag" \in DOMAIN b /\ "server_port" \in DOMAIN b
       /\ b["type"] = "naive" /\ b["tag"] = "selected" /\ b["server_port"] = n.port
  BY <1>12, Zenon DEF IsBase
<1>23. /\ "type" \in DOMAIN o /\ o["type"] = "naive"
       /\ "tag" \in DOMAIN o /\ o["tag"] = "selected" /\ o["server_port"] = n.port
  BY <1>19, <1>21, <1>22, Zenon
<1>24. DOMAIN o \subseteq OutboundFields("naive")
  <2>1. \A x : x \in DOMAIN m3 => x \in OutboundFields("naive")
    BY <1>12, <1>18 DEF IsBase, OutboundFields, CommonFields
  <2>2. \A x : x \in DOMAIN a4 => x \in OutboundFields("naive")
    BY <1>15 DEF OutboundFields
  <2>3. \A x : x \in DOMAIN a5 => x \in OutboundFields("naive")
    BY <1>16 DEF IsTwo, OutboundFields
  <2> QED
    BY <1>20, <2>1, <2>2, <2>3, Zenon
<1>25. Field(o, "server_port", "ok") = "ok"
  <2>1. n.port = "ok"
    BY DEF NodeFits
  <2> QED
    BY <1>23, <2>1, Zenon DEF Field
<1>26. \A x \in DOMAIN a5 : o[x] = a5[x]
  <2>1. \A x \in DOMAIN a5 : x = "udp_over_tcp.enabled" \/ x = "udp_over_tcp.version"
    BY <1>16, Zenon DEF IsTwo
  <2>2. "udp_over_tcp.enabled" \notin DOMAIN m3 /\ "udp_over_tcp.version" \notin DOMAIN m3
    BY <1>12, <1>18 DEF IsBase
  <2>3. "udp_over_tcp.enabled" \notin DOMAIN a4 /\ "udp_over_tcp.version" \notin DOMAIN a4
    BY <1>15 DEF TlsFields
  <2>4. \A x \in DOMAIN a5 : x \notin DOMAIN m4
    BY <1>17, <2>1, <2>2, <2>3 DEF IsMerge
  <2> QED
    BY <1>17, <2>4 DEF IsMerge
<1>27. \A x : x \in {"udp_over_tcp.enabled", "udp_over_tcp.version"} /\ x \in DOMAIN o => x \in DOMAIN a5
  <2>1. \A x : x \in {"udp_over_tcp.enabled", "udp_over_tcp.version"} => x \notin TlsFields
    BY DEF TlsFields
  <2>2. \A x : x \in {"udp_over_tcp.enabled", "udp_over_tcp.version"} => x \notin DOMAIN m3
    BY <1>12, <1>18 DEF IsBase
  <2> QED
    BY <1>15, <1>20, <2>1, <2>2, Zenon
<1>28. Field(o, "udp_over_tcp.enabled", "true") = "true" /\ Field(o, "udp_over_tcp.version", "2") = "2"
  <2>1. "udp_over_tcp.enabled" \in DOMAIN o => o["udp_over_tcp.enabled"] = "true"
    BY <1>16, <1>26, <1>27, Zenon DEF IsTwo
  <2>2. "udp_over_tcp.version" \in DOMAIN o => o["udp_over_tcp.version"] = "2"
    BY <1>16, <1>26, <1>27, Zenon DEF IsTwo
  <2> QED
    BY <2>1, <2>2, Zenon DEF Field
<1>29. /\ Field(o, "bridge_port", 1) > 0 /\ Field(o, "transport.type", "") = ""
       /\ Field(o, "obfs.type", "salamander") = "salamander"
  <2>1. \A x \in {"bridge_port", "transport.type", "obfs.type"} : x \notin OutboundFields("naive")
    BY DEF OutboundFields, CommonFields, TlsFields
  <2>2. \A x \in {"bridge_port", "transport.type", "obfs.type"} : x \notin DOMAIN o
    BY <1>24, <2>1, Zenon
  <2> QED
    BY <2>2 DEF Field
<1> QED
  BY <1>17, <1>23, <1>24, <1>25, <1>28, <1>29 DEF ExitFits, OutboundInSchema, IsMerge

LEMMA BridgeSchema ==
  ASSUME NEW port \in Nat, port > 0, NEW o, o = SocksBridge(port)
  PROVE  /\ ExitFits(o) /\ o["type"] = "socks" /\ "bridge_port" \in DOMAIN o /\ o["bridge_port"] = port
         /\ "server" \in DOMAIN o /\ o["server"] = Loopback
<1>1. PICK b : b = Outbound("socks") @@ ("server" :> Loopback) @@ ("bridge_port" :> port)
  OBVIOUS
<1>2. PICK v : v = "version" :> "5"
  OBVIOUS
<1>3. o = b @@ v
  BY <1>1, <1>2, Zenon DEF SocksBridge
<1>4. IsBase(b, "socks", "bridge_port", port)
  <2>1. "bridge_port" # "type" /\ "bridge_port" # "tag" /\ "bridge_port" # "server"
    OBVIOUS
  <2> QED
    BY <1>1, <2>1, BaseIs, Zenon
<1>5. IsPart(v, TRUE, "version", "5") /\ IsMerge(o, b, v)
  BY <1>2, <1>3, PartIs, MergeIs, Zenon
<1>6. \A x : x \in DOMAIN o <=>
        x = "type" \/ x = "tag" \/ x = "server" \/ x = "bridge_port" \/ x = "version"
  BY <1>4, <1>5 DEF IsBase, IsPart, IsMerge
<1>7. o["type"] = "socks" /\ o["tag"] = "selected" /\ o["bridge_port"] = port
  BY <1>4, <1>5 DEF IsBase, IsMerge
<1>8. DOMAIN o \subseteq OutboundFields("socks")
  BY <1>6 DEF OutboundFields, CommonFields
<1>9. Field(o, "bridge_port", 1) > 0
  BY <1>7 DEF Field
<1>10. /\ Field(o, "server_port", "ok") = "ok" /\ Field(o, "transport.type", "") = ""
       /\ Field(o, "obfs.type", "salamander") = "salamander"
       /\ Field(o, "udp_over_tcp.enabled", "true") = "true" /\ Field(o, "udp_over_tcp.version", "2") = "2"
  <2>1. /\ "server_port" \notin DOMAIN o /\ "transport.type" \notin DOMAIN o /\ "obfs.type" \notin DOMAIN o
        /\ "udp_over_tcp.enabled" \notin DOMAIN o /\ "udp_over_tcp.version" \notin DOMAIN o
    BY <1>6
  <2> QED
    BY <2>1 DEF Field
<1>11. o["server"] = Loopback
  <2>1. PICK f : f = Outbound("socks")
    OBVIOUS
  <2>2. PICK s : s = "server" :> Loopback
    OBVIOUS
  <2>3. PICK p : p = "bridge_port" :> port
    OBVIOUS
  <2>4. PICK m : m = f @@ s
    OBVIOUS
  <2>5. b = m @@ p
    BY <1>1, <2>1, <2>2, <2>3, <2>4, Zenon
  <2>6. IsMerge(m, f, s) /\ IsMerge(b, m, p) /\ IsPart(s, TRUE, "server", Loopback)
    BY <2>2, <2>4, <2>5, MergeIs, PartIs, Zenon
  <2>7. "server" \notin DOMAIN f
    BY <2>1, MergedDomain, OneDomain DEF Outbound
  <2>8. "server" \in DOMAIN m /\ m["server"] = Loopback
    BY <2>6, <2>7 DEF IsMerge, IsPart
  <2>9. "server" \in DOMAIN b /\ b["server"] = Loopback
    BY <2>6, <2>8 DEF IsMerge
  <2> QED
    BY <1>5, <2>9 DEF IsMerge
<1>12. "type" \in DOMAIN o /\ "tag" \in DOMAIN o /\ "bridge_port" \in DOMAIN o /\ "server" \in DOMAIN o
  BY <1>6, Zenon
<1>13. o = [x \in DOMAIN o |-> o[x]]
  BY <1>5 DEF IsMerge
<1>14. ExitFits(o)
  BY <1>7, <1>8, <1>9, <1>10, <1>12, <1>13 DEF ExitFits, OutboundInSchema
<1> QED
  BY <1>7, <1>11, <1>12, <1>14, Zenon

-----------------------------------------------------------------------------
(* Rules, inbounds and DNS servers are in the schema *)

LEMMA HealthInSchema == RuleInSchema(HealthRule)
  BY One, Both DEF :>, @@, RuleInSchema, HealthRule, OnInbound, RouteTo
LEMMA CandidateInSchema == RuleInSchema(CandidateRule)
  BY One, Both DEF :>, @@, RuleInSchema, CandidateRule, OnInbound, RouteTo
LEMMA HijackInSchema == RuleInSchema(TunDnsHijackRule)
  BY One, Both DEF :>, @@, RuleInSchema, TunDnsHijackRule, OnInbound
LEMMA OwnInSchema == ASSUME NEW p PROVE RuleInSchema(OwnPrefixGuard(p))
  BY One, Both DEF :>, @@, RuleInSchema, OwnPrefixGuard, OnInbound, Reject, Field
LEMMA Ipv6InSchema == RuleInSchema(Ipv6Guard)
  BY One, Both DEF :>, @@, RuleInSchema, Ipv6Guard, Reject, Field
LEMMA LanInSchema == RuleInSchema(LanRule)
  BY One, Both DEF :>, @@, RuleInSchema, LanRule, RouteTo, Field
LEMMA BlockInSchema == ASSUME NEW t, t.action = "block" PROVE RuleInSchema(TrafficRule(t))
  BY One, Both DEF :>, @@, RuleInSchema, TrafficRule, OnInbound, RouteTo, Reject, Field
LEMMA RowInSchema == ASSUME NEW t, t.action # "block" PROVE RuleInSchema(TrafficRule(t))
  BY One, Both DEF :>, @@, RuleInSchema, TrafficRule, OnInbound, RouteTo, Reject, Field
LEMMA AppInSchema == ASSUME NEW a PROVE RuleInSchema(AppRule(a))
  BY One, Both DEF :>, @@, RuleInSchema, AppRule, OnInbound, RouteTo, Reject, Field

IsListener(f, type, tag, port, users) ==
    /\ \A x : x \in DOMAIN f <=>
        x = "type" \/ x = "tag" \/ x = "listen" \/ x = "listen_port" \/ (users /\ x = "users")
    /\ f["type"] = type /\ f["tag"] = tag /\ f["listen"] = Loopback /\ f["listen_port"] = port
LEMMA ListenerIs ==
  ASSUME NEW type, NEW tag, NEW port, NEW f, f = Listener(type, tag, port)
  PROVE  IsListener(f, type, tag, port, FALSE)
  BY One, Both DEF :>, @@, Listener, IsListener
LEMMA AuthenticatedIs ==
  ASSUME NEW type, NEW tag, NEW port, NEW f, f = Listener(type, tag, port) @@ Authenticated
  PROVE  IsListener(f, type, tag, port, TRUE)
<1>1. PICK l : l = Listener(type, tag, port)
  OBVIOUS
<1>2. PICK u : u = Authenticated
  OBVIOUS
<1>3. IsListener(l, type, tag, port, FALSE)
  BY <1>1, ListenerIs
<1>4. \A x : x \in DOMAIN u <=> x = "users"
  BY <1>2, OneDomain DEF Authenticated
<1>5. IsMerge(f, l, u)
  BY <1>1, <1>2, MergeIs, Zenon
<1> QED
  BY <1>3, <1>4, <1>5 DEF IsMerge, IsListener
IsTunInbound(f, r) ==
    /\ \A x : x \in DOMAIN f <=>
        \/ x = "type" \/ x = "tag" \/ x = "interface_name" \/ x = "address" \/ x = "auto_route"
        \/ x = "strict_route" \/ x = "stack"
    /\ f["type"] = "tun" /\ f["tag"] = "tun-in" /\ f["interface_name"] = "RouteDeck"
    /\ f["address"] = TunAddresses(r) /\ f["auto_route"] = "true" /\ f["strict_route"] = "true"
    /\ f["stack"] = r.mode.stack
LEMMA TunIs ==
  ASSUME NEW r, NEW f, f = TunInbound(r)
  PROVE  IsTunInbound(f, r)
<1>1. PICK addresses : addresses = TunAddresses(r)
  OBVIOUS
<1>2. PICK stack : stack = r.mode.stack
  OBVIOUS
<1>3. PICK a : a = ("type" :> "tun") @@ ("tag" :> "tun-in") @@ ("interface_name" :> "RouteDeck")
                    @@ ("address" :> addresses)
  OBVIOUS
<1>4. /\ \A x : x \in DOMAIN a <=> x = "type" \/ x = "tag" \/ x = "interface_name" \/ x = "address"
      /\ a["type"] = "tun" /\ a["tag"] = "tun-in" /\ a["interface_name"] = "RouteDeck"
      /\ a["address"] = addresses
  BY <1>3, One, Both DEF :>, @@
<1>5. PICK b : b = "auto_route" :> "true"
  OBVIOUS
<1>6. PICK c : c = "strict_route" :> "true"
  OBVIOUS
<1>7. PICK d : d = "stack" :> stack
  OBVIOUS
<1>8. PICK m : m = a @@ b
  OBVIOUS
<1>9. PICK n : n = m @@ c
  OBVIOUS
<1>10. f = n @@ d
  BY <1>1, <1>2, <1>3, <1>5, <1>6, <1>7, <1>8, <1>9, Zenon DEF TunInbound
<1>11. /\ IsPart(b, TRUE, "auto_route", "true") /\ IsPart(c, TRUE, "strict_route", "true")
       /\ IsPart(d, TRUE, "stack", stack)
  BY <1>5, <1>6, <1>7, PartIs, Zenon
<1>12. IsMerge(m, a, b) /\ IsMerge(n, m, c) /\ IsMerge(f, n, d)
  BY <1>8, <1>9, <1>10, MergeIs, Zenon
<1>13. \A x : x \in DOMAIN f <=>
        x \in DOMAIN a \/ x = "auto_route" \/ x = "strict_route" \/ x = "stack"
  BY <1>11, <1>12 DEF IsMerge, IsPart
<1>14. \A x \in DOMAIN a : f[x] = a[x]
  BY <1>12 DEF IsMerge
<1>15. \A x \in DOMAIN m : f[x] = m[x]
  BY <1>12 DEF IsMerge
<1>16. f["auto_route"] = "true"
  <2>1. "auto_route" \notin DOMAIN a
    BY <1>4
  <2>2. "auto_route" \in DOMAIN m /\ m["auto_route"] = "true"
    BY <1>11, <1>12, <2>1 DEF IsMerge, IsPart
  <2> QED
    BY <1>15, <2>2, Zenon
<1>17. f["strict_route"] = "true"
  <2>1. "strict_route" \notin DOMAIN m
    BY <1>4, <1>11, <1>12 DEF IsMerge, IsPart
  <2>2. "strict_route" \in DOMAIN n /\ n["strict_route"] = "true"
    BY <1>11, <1>12, <2>1 DEF IsMerge, IsPart
  <2> QED
    BY <1>12, <2>2 DEF IsMerge
<1>18. f["stack"] = stack
  <2>1. \A x : x \in DOMAIN n => x \in DOMAIN a \/ x = "auto_route" \/ x = "strict_route"
    BY <1>11, <1>12 DEF IsMerge, IsPart
  <2>2. "stack" \notin DOMAIN n
    BY <1>4, <2>1
  <2> QED
    BY <1>11, <1>12, <2>2 DEF IsMerge, IsPart
<1>19. \A x : x \in DOMAIN f <=>
        \/ x = "type" \/ x = "tag" \/ x = "interface_name" \/ x = "address" \/ x = "auto_route"
        \/ x = "strict_route" \/ x = "stack"
  BY <1>4, <1>13, Zenon
<1>20. /\ f["type"] = "tun" /\ f["tag"] = "tun-in" /\ f["interface_name"] = "RouteDeck"
       /\ f["address"] = addresses
  BY <1>4, <1>14, Zenon
<1> QED
  BY <1>1, <1>2, <1>16, <1>17, <1>18, <1>19, <1>20, Zenon DEF IsTunInbound

LEMMA ListenerInSchema ==
  ASSUME NEW f, NEW type, type \in {"http", "socks"}, NEW tag, NEW port, port > 0, NEW users,
         IsListener(f, type, tag, port, users)
  PROVE  InboundInSchema(f)
<1>1. DOMAIN f \subseteq {"type", "tag", "listen", "listen_port", "users"}
  BY DEF IsListener
<1>2. f["type"] = type /\ f["listen_port"] = port
  BY DEF IsListener
<1> QED
  BY <1>1, <1>2 DEF InboundInSchema
LEMMA TunInSchema ==
  ASSUME NEW f, NEW r, IsTunInbound(f, r)
  PROVE  InboundInSchema(f)
<1>1. DOMAIN f \subseteq {"type", "tag", "interface_name", "stack", "auto_route", "strict_route", "address"}
  BY DEF IsTunInbound
<1>2. f["type"] = "tun"
  BY DEF IsTunInbound
<1> QED
  BY <1>1, <1>2 DEF InboundInSchema

IsBootstrap(f, alias, dns, bridged) ==
    /\ \A x : x \in DOMAIN f => x \in {"type", "tag", "bind_interface", "server", "server_port"}
    /\ "tag" \in DOMAIN f /\ f["tag"] = "bootstrap"
    /\ dns = "" =>
        /\ f["type"] = "local" /\ ("bind_interface" \in DOMAIN f <=> bridged)
        /\ bridged => f["bind_interface"] = alias
    /\ dns # "" =>
        /\ f["type"] = "tcp" /\ "server" \in DOMAIN f /\ f["server"] = dns
        /\ "server_port" \in DOMAIN f /\ f["server_port"] = "53"
        /\ "bind_interface" \in DOMAIN f /\ f["bind_interface"] = alias
LEMMA BootstrapIs ==
  ASSUME NEW r, NEW alias, Physical(r, alias), NEW bridged, NEW f, f = BootstrapDns(r, bridged)
  PROVE  IsBootstrap(f, alias, r.upstream.dns, bridged)
<1>0. alias = r.upstream.alias /\ alias # ""
  BY DEF Physical
<1>1. PICK dns : dns = r.upstream.dns
  OBVIOUS
<1>2. PICK g : g = "tag" :> "bootstrap"
  OBVIOUS
<1>3. IsPart(g, TRUE, "tag", "bootstrap")
  BY <1>2, PartIs, Zenon
<1>4. CASE dns # ""
  <2>1. PICK s : s = ("type" :> "tcp") @@ ("server" :> dns) @@ ("server_port" :> "53")
            @@ ("bind_interface" :> alias)
    OBVIOUS
  <2>2. f = g @@ s
    BY <1>0, <1>1, <1>2, <1>4, <2>1, Zenon DEF BootstrapDns
  <2>3. /\ \A x : x \in DOMAIN s <=> x = "type" \/ x = "server" \/ x = "server_port" \/ x = "bind_interface"
        /\ s["type"] = "tcp" /\ s["server"] = dns /\ s["server_port"] = "53" /\ s["bind_interface"] = alias
    BY <2>1, One, Both DEF :>, @@
  <2>4. IsMerge(f, g, s)
    BY <2>2, MergeIs, Zenon
  <2>5. \A x \in DOMAIN s : x \in DOMAIN f /\ f[x] = s[x]
    <3>1. \A x \in DOMAIN s : x \notin DOMAIN g
      BY <1>3, <2>3 DEF IsPart
    <3> QED
      BY <2>4, <3>1 DEF IsMerge
  <2>6. /\ \A x : x \in DOMAIN f => x \in {"type", "tag", "bind_interface", "server", "server_port"}
        /\ "tag" \in DOMAIN f /\ f["tag"] = "bootstrap"
    BY <1>3, <2>3, <2>4 DEF IsMerge, IsPart
  <2>7. /\ f["type"] = "tcp" /\ "server" \in DOMAIN f /\ f["server"] = dns
        /\ "server_port" \in DOMAIN f /\ f["server_port"] = "53"
        /\ "bind_interface" \in DOMAIN f /\ f["bind_interface"] = alias
    BY <2>3, <2>5, Zenon
  <2> QED
    BY <1>1, <1>4, <2>6, <2>7, Zenon DEF IsBootstrap
<1>5. CASE dns = ""
  <2>1. PICK l : l = "type" :> "local"
    OBVIOUS
  <2>2. PICK b : b = When(bridged, "bind_interface" :> alias)
    OBVIOUS
  <2>3. PICK s : s = l @@ b
    OBVIOUS
  <2>4. f = g @@ s
    BY <1>0, <1>1, <1>2, <1>5, <2>1, <2>2, <2>3, Zenon DEF BootstrapDns, Opt
  <2>5. IsPart(l, TRUE, "type", "local") /\ IsPart(b, bridged, "bind_interface", alias)
    BY <2>1, <2>2, PartIs, WhenIs, Zenon
  <2>6. IsMerge(s, l, b) /\ IsMerge(f, g, s)
    BY <2>3, <2>4, MergeIs, Zenon
  <2>7. /\ \A x : x \in DOMAIN s <=> x = "type" \/ (bridged /\ x = "bind_interface")
        /\ s["type"] = "local"
    BY <2>5, <2>6 DEF IsMerge, IsPart
  <2>8. bridged => s["bind_interface"] = alias
    BY <2>5, <2>6 DEF IsMerge, IsPart
  <2>9. \A x : x \in DOMAIN f <=> x = "tag" \/ x = "type" \/ (bridged /\ x = "bind_interface")
    BY <1>3, <2>6, <2>7 DEF IsMerge, IsPart
  <2>10. f["tag"] = "bootstrap" /\ f["type"] = "local"
    BY <1>3, <2>6, <2>7 DEF IsMerge, IsPart
  <2>11. bridged => f["bind_interface"] = alias
    BY <1>3, <2>6, <2>7, <2>8 DEF IsMerge, IsPart
  <2>12. "bind_interface" # "tag" /\ "bind_interface" # "type"
    OBVIOUS
  <2>13. "bind_interface" \in DOMAIN f <=> bridged
    BY <2>9, <2>12, Zenon
  <2>14. \A x : x \in DOMAIN f => x \in {"type", "tag", "bind_interface", "server", "server_port"}
    BY <2>9, Zenon
  <2>15. "tag" \in DOMAIN f
    BY <2>9, Zenon
  <2> QED
    BY <1>1, <1>5, <2>10, <2>11, <2>13, <2>14, <2>15, Zenon DEF IsBootstrap
<1> QED
  BY <1>4, <1>5

LEMMA BootstrapInSchema ==
  ASSUME NEW f, NEW alias, NEW dns, NEW bridged, IsBootstrap(f, alias, dns, bridged)
  PROVE  DnsInSchema(f)
<1>1. DOMAIN f \subseteq {"type", "tag", "bind_interface", "server", "server_port"}
  BY Zenon DEF IsBootstrap
<1>2. Field(f, "tag", "") = "bootstrap"
  BY Zenon DEF IsBootstrap, Field
<1>3. f["type"] \in {"local", "tcp"}
  BY Zenon DEF IsBootstrap
<1> QED
  BY <1>1, <1>2, <1>3 DEF DnsInSchema

LEMMA RemoteInSchema ==
  ASSUME NEW r, NEW f, f = RemoteDns(r)
  PROVE  DnsInSchema(f) /\ Field(f, "tag", "") = "remote-dns"
<1>1. PICK a : a = ("type" :> "https") @@ ("tag" :> "remote-dns") @@ ("server" :> r.vpn_dns)
                    @@ ("server_port" :> "443")
  OBVIOUS
<1>2. /\ \A x : x \in DOMAIN a => x \in {"type", "tag", "server", "server_port"}
      /\ "type" \in DOMAIN a /\ a["type"] = "https" /\ "tag" \in DOMAIN a /\ a["tag"] = "remote-dns"
  BY <1>1, One, Both DEF :>, @@
<1>3. PICK b : b = "path" :> "ok"
  OBVIOUS
<1>4. PICK c : c = "tls.enabled" :> "true"
  OBVIOUS
<1>5. PICK d : d = "tls.server_name" :> "ok"
  OBVIOUS
<1>6. PICK e : e = "detour" :> "selected"
  OBVIOUS
<1>7. PICK m : m = a @@ b
  OBVIOUS
<1>8. PICK n : n = m @@ c
  OBVIOUS
<1>9. PICK o : o = n @@ d
  OBVIOUS
<1>10. f = o @@ e
  BY <1>1, <1>3, <1>4, <1>5, <1>6, <1>7, <1>8, <1>9, Zenon DEF RemoteDns
<1>11. /\ IsPart(b, TRUE, "path", "ok") /\ IsPart(c, TRUE, "tls.enabled", "true")
       /\ IsPart(d, TRUE, "tls.server_name", "ok") /\ IsPart(e, TRUE, "detour", "selected")
  BY <1>3, <1>4, <1>5, <1>6, PartIs, Zenon
<1>12. IsMerge(m, a, b) /\ IsMerge(n, m, c) /\ IsMerge(o, n, d) /\ IsMerge(f, o, e)
  BY <1>7, <1>8, <1>9, <1>10, MergeIs, Zenon
<1>13. \A x : x \in DOMAIN f =>
        x \in DOMAIN a \/ x = "path" \/ x = "tls.enabled" \/ x = "tls.server_name" \/ x = "detour"
  BY <1>11, <1>12 DEF IsMerge, IsPart
<1>14. \A x \in DOMAIN a : x \in DOMAIN f /\ f[x] = a[x]
  BY <1>12 DEF IsMerge
<1>15. DOMAIN f \subseteq {"type", "tag", "server", "path", "detour", "server_port"} \cup TlsFields
  BY <1>2, <1>13 DEF TlsFields
<1>16. f["type"] = "https" /\ Field(f, "tag", "") = "remote-dns"
  BY <1>2, <1>14, Zenon DEF Field
<1> QED
  BY <1>15, <1>16 DEF DnsInSchema

LEMMA ExitTypes ==
  ASSUME NEW o, ExitFits(o)
  PROVE  /\ o["type"] \in {"socks", "vless", "hysteria2", "naive"}
         /\ DOMAIN o \subseteq OutboundFields(o["type"])
         /\ "bind_interface" \notin DOMAIN o
<1>1. /\ o["type"] \in {"socks", "vless", "hysteria2", "naive"}
      /\ DOMAIN o \subseteq OutboundFields(o["type"])
  BY DEF ExitFits, OutboundInSchema
<1>2. ASSUME NEW t \in {"socks", "vless", "hysteria2", "naive"}
      PROVE  "bind_interface" \notin OutboundFields(t)
  BY <1>2 DEF OutboundFields, CommonFields, TlsFields
<1> QED
  BY <1>1, <1>2, Zenon

LEMMA ResolverFits ==
  ASSUME NEW e, ExitFits(e), NEW b, NEW o, o = e @@ When(b, "domain_resolver" :> "bootstrap")
  PROVE  ExitFits(o) /\ \A x \in DOMAIN e : x \in DOMAIN o /\ o[x] = e[x]
<1>1. PICK f : f = When(b, "domain_resolver" :> "bootstrap")
  OBVIOUS
<1>2. IsPart(f, b, "domain_resolver", "bootstrap") /\ IsMerge(o, e, f)
  BY <1>1, WhenIs, MergeIs, Zenon
<1>3. \A x \in DOMAIN e : x \in DOMAIN o /\ o[x] = e[x]
  BY <1>2, Zenon DEF IsMerge
<1>4. \A x : x # "domain_resolver" => (x \in DOMAIN o <=> x \in DOMAIN e)
  BY <1>2, Zenon DEF IsMerge, IsPart
<1>5. ASSUME NEW x, x # "domain_resolver", NEW d PROVE Field(o, x, d) = Field(e, x, d)
  BY <1>3, <1>4, <1>5, Zenon DEF Field
<1>6. /\ Field(o, "server_port", "ok") = Field(e, "server_port", "ok")
      /\ Field(o, "bridge_port", 1) = Field(e, "bridge_port", 1)
      /\ Field(o, "obfs.type", "salamander") = Field(e, "obfs.type", "salamander")
      /\ Field(o, "udp_over_tcp.enabled", "true") = Field(e, "udp_over_tcp.enabled", "true")
      /\ Field(o, "udp_over_tcp.version", "2") = Field(e, "udp_over_tcp.version", "2")
      /\ Field(o, "transport.type", "") = Field(e, "transport.type", "")
  BY <1>5
<1>7. /\ "transport.service_name" \in DOMAIN o <=> "transport.service_name" \in DOMAIN e
      /\ "transport.path" \in DOMAIN o <=> "transport.path" \in DOMAIN e
      /\ "transport.headers.Host" \in DOMAIN o <=> "transport.headers.Host" \in DOMAIN e
  BY <1>4
<1>8. o["type"] = e["type"] /\ o["tag"] = "selected" /\ "type" \in DOMAIN o /\ "tag" \in DOMAIN o
  BY <1>3, Zenon DEF ExitFits
<1>9. e["type"] \in {"socks", "vless", "hysteria2", "naive"} /\ DOMAIN e \subseteq OutboundFields(e["type"])
  BY ExitTypes
<1>10. \A t \in {"socks", "vless", "hysteria2", "naive"} : "domain_resolver" \in OutboundFields(t)
  BY DEF OutboundFields, CommonFields
<1>11. DOMAIN o \subseteq OutboundFields(o["type"])
  BY <1>4, <1>8, <1>9, <1>10, Zenon
<1>12. OutboundInSchema(e)
  BY Zenon DEF ExitFits
<1>13. DOMAIN o \cap {"transport.path", "transport.headers.Host"} = {}
         <=> DOMAIN e \cap {"transport.path", "transport.headers.Host"} = {}
  BY <1>7
<1>14. OutboundInSchema(o)
  <2>1. o["type"] \in {"direct", "socks", "vless", "hysteria2", "naive"}
    BY <1>8, <1>9
  <2>2. /\ Field(o, "server_port", "ok") = "ok" /\ Field(o, "bridge_port", 1) > 0
        /\ Field(o, "obfs.type", "salamander") = "salamander"
        /\ Field(o, "udp_over_tcp.enabled", "true") = "true"
        /\ Field(o, "udp_over_tcp.version", "2") = "2"
    BY <1>6, <1>12, Zenon DEF OutboundInSchema
  <2>3. (CASE Field(o, "transport.type", "") = "ws" -> "transport.service_name" \notin DOMAIN o
         [] Field(o, "transport.type", "") = "grpc" ->
                DOMAIN o \cap {"transport.path", "transport.headers.Host"} = {}
         [] OTHER -> Field(o, "transport.type", "") = "")
    BY <1>6, <1>7, <1>12, <1>13 DEF OutboundInSchema
  <2> QED
    BY <1>11, <2>1, <2>2, <2>3, Zenon DEF OutboundInSchema
<1>15. o = [x \in DOMAIN o |-> o[x]]
  BY <1>2, Zenon DEF IsMerge
<1>16. o["type"] # "direct"
  BY <1>8, <1>9
<1>17. ExitFits(o)
  BY <1>8, <1>14, <1>15, <1>16, Zenon DEF ExitFits
<1> QED
  BY <1>3, <1>17

LEMMA FitsIsExit ==
  ASSUME NEW o, ExitFits(o), NEW b \in BOOLEAN, o["type"] = "socks" <=> b
  PROVE  IsExit(o, b)
<1>1. "bind_interface" \notin DOMAIN o
  BY ExitTypes
<1> QED
  BY <1>1, Zenon DEF IsExit, ExitFits

IsDirect(f, alias, bridged) ==
    /\ \A x : x \in DOMAIN f <=> x = "type" \/ x = "tag" \/ (bridged /\ x = "bind_interface")
    /\ f["type"] = "direct" /\ f["tag"] = "direct" /\ (bridged => f["bind_interface"] = alias)
LEMMA DirectIs ==
  ASSUME NEW alias, NEW bridged, NEW f, f = DirectOf(alias, bridged)
  PROVE  IsDirect(f, alias, bridged)
<1>1. PICK a : a = "type" :> "direct"
  OBVIOUS
<1>2. PICK b : b = "tag" :> "direct"
  OBVIOUS
<1>3. PICK c : c = When(bridged, "bind_interface" :> alias)
  OBVIOUS
<1>4. PICK m : m = a @@ b
  OBVIOUS
<1>5. f = m @@ c
  BY <1>1, <1>2, <1>3, <1>4, Zenon DEF DirectOf
<1>6. /\ IsPart(a, TRUE, "type", "direct") /\ IsPart(b, TRUE, "tag", "direct")
      /\ IsPart(c, bridged, "bind_interface", alias) /\ IsMerge(m, a, b) /\ IsMerge(f, m, c)
  BY <1>1, <1>2, <1>3, <1>4, <1>5, PartIs, WhenIs, MergeIs, Zenon
<1>7. /\ \A x : x \in DOMAIN m <=> x = "type" \/ x = "tag"
      /\ m["type"] = "direct" /\ m["tag"] = "direct"
  BY <1>6 DEF IsPart, IsMerge
<1>8. \A x : x \in DOMAIN f <=> x = "type" \/ x = "tag" \/ (bridged /\ x = "bind_interface")
  BY <1>6, <1>7 DEF IsPart, IsMerge
<1>9. f["type"] = "direct" /\ f["tag"] = "direct" /\ (bridged => f["bind_interface"] = alias)
  BY <1>6, <1>7 DEF IsPart, IsMerge
<1> QED
  BY <1>8, <1>9, Zenon DEF IsDirect
LEMMA DirectInSchema ==
  ASSUME NEW f, NEW alias, NEW bridged, IsDirect(f, alias, bridged)
  PROVE  OutboundInSchema(f)
<1>1. f["type"] = "direct" /\ DOMAIN f \subseteq {"type", "tag", "bind_interface"}
  BY DEF IsDirect
<1>2. OutboundFields("direct") = {"type", "tag", "bind_interface"}
  BY DEF OutboundFields
<1>3. ASSUME NEW x, NEW d, x \notin {"type", "tag", "bind_interface"}
      PROVE  x \notin DOMAIN f /\ Field(f, x, d) = d
  BY <1>1, <1>3, Zenon DEF Field
<1>4. /\ Field(f, "server_port", "ok") = "ok" /\ Field(f, "bridge_port", 1) = 1
      /\ Field(f, "obfs.type", "salamander") = "salamander"
      /\ Field(f, "udp_over_tcp.enabled", "true") = "true"
      /\ Field(f, "udp_over_tcp.version", "2") = "2"
      /\ Field(f, "transport.type", "") = ""
  BY <1>3
<1>5. (CASE Field(f, "transport.type", "") = "ws" -> "transport.service_name" \notin DOMAIN f
         [] Field(f, "transport.type", "") = "grpc" ->
                DOMAIN f \cap {"transport.path", "transport.headers.Host"} = {}
         [] OTHER -> Field(f, "transport.type", "") = "")
  BY <1>4
<1>6. Field(f, "bridge_port", 1) > 0
  <2>1. 1 > 0
    OBVIOUS
  <2> QED
    BY <1>4, <2>1, Zenon
<1>7. DOMAIN f \subseteq OutboundFields(f["type"]) /\ f["type"] \in {"direct", "socks", "vless", "hysteria2", "naive"}
  BY <1>1, <1>2
<1> QED
  BY <1>4, <1>5, <1>6, <1>7, Zenon DEF OutboundInSchema

LEMMA RulesInSchema ==
  ASSUME NEW r, NEW prefixes, NEW rule \in RuleSetOf(r, prefixes)
  PROVE  RuleInSchema(rule)
<1>1. CASE rule \in {HealthRule, CandidateRule, TunDnsHijackRule, OwnPrefixGuard(prefixes), Ipv6Guard, LanRule}
  BY <1>1, HealthInSchema, CandidateInSchema, HijackInSchema, OwnInSchema, Ipv6InSchema, LanInSchema, Zenon
<1>2. CASE rule \in {TrafficRule(t) : t \in Range(r.mode.rules)}
  <2>1. PICK t \in Range(r.mode.rules) : rule = TrafficRule(t)
    BY <1>2
  <2> QED
    BY <2>1, BlockInSchema, RowInSchema, Zenon
<1>3. CASE rule \in {AppRule(a) : a \in Range(r.policy.apps)}
  BY <1>3, AppInSchema, Zenon
<1> QED
  BY <1>1, <1>2, <1>3, Zenon DEF RuleSetOf, RuleSet

\* The DNS servers of a configuration: the one of the physical network comes first.
LEMMA DnsServers ==
  ASSUME NEW r, NEW alias, Physical(r, alias), NEW b, NEW l, l = DnsOf(r, b).servers
  PROVE  /\ 1 \in DOMAIN l /\ IsBootstrap(l[1], alias, r.upstream.dns, b)
         /\ \A i \in DOMAIN l : DnsInSchema(l[i])
         /\ Tagged(l, "bootstrap") = {1}
<1>1. PICK x : x = BootstrapDns(r, b)
  OBVIOUS
<1>2. PICK y : y = RemoteDns(r)
  OBVIOUS
<1>3. IsBootstrap(x, alias, r.upstream.dns, b) /\ DnsInSchema(x) /\ Field(x, "tag", "") = "bootstrap"
  <2>1. IsBootstrap(x, alias, r.upstream.dns, b)
    BY <1>1, BootstrapIs
  <2>2. Field(x, "tag", "") = "bootstrap"
    BY <2>1, Zenon DEF IsBootstrap, Field
  <2> QED
    BY <2>1, <2>2, BootstrapInSchema, Zenon
<1>4. DnsInSchema(y) /\ Field(y, "tag", "") = "remote-dns"
  BY <1>2, RemoteInSchema
<1>5. "remote-dns" # "bootstrap"
  OBVIOUS
<1>6. \/ DOMAIN l = {1, 2} /\ l[1] = x /\ l[2] = y
      \/ DOMAIN l = {1} /\ l[1] = x
  <2>1. PICK final : final = IF ThroughVpn(r) THEN "remote-dns" ELSE "bootstrap"
    OBVIOUS
  <2>2. PICK rest : rest = IF ThroughVpn(r) THEN <<y>> ELSE <<>>
    OBVIOUS
  <2>3. DnsOf(r, b) = [servers |-> <<x>> \o rest, final |-> final]
    BY <1>1, <1>2, <2>1, <2>2, Zenon DEF DnsOf
  <2>4. l = <<x>> \o rest
    BY <2>3
  <2>5. CASE rest = <<y>>
    <3>1. l = <<x, y>>
      BY <2>4, <2>5, PairIs, Zenon
    <3> QED
      BY <3>1
  <2>6. CASE rest = <<>>
    BY <2>4, <2>6
  <2> QED
    BY <2>2, <2>5, <2>6, Zenon
<1>7. 1 \in DOMAIN l /\ l[1] = x
  BY <1>6
<1>8. \A i \in DOMAIN l : l[i] = x \/ l[i] = y
  BY <1>6, Zenon
<1>9. \A i \in DOMAIN l : Field(l[i], "tag", "") = "bootstrap" <=> i = 1
  BY <1>3, <1>4, <1>5, <1>6, Zenon
<1>10. Tagged(l, "bootstrap") = {1}
  BY <1>7, <1>9, Zenon DEF Tagged
<1> QED
  BY <1>3, <1>4, <1>7, <1>8, <1>10, Zenon

\* Every listener has a port of its own.
PortsFit(r) ==
    /\ r.http \in 1..3 /\ r.socks \in 1..3 /\ r.health \in 1..3
    /\ r.http # r.socks /\ r.http # r.health /\ r.socks # r.health

\* The inbounds of a configuration, whoever put them together.
AreInbounds(l, r) ==
    /\ DOMAIN l = 1..4 /\ Len(l) = 4
    /\ IsListener(l[1], "http", "http-in", r.http, FALSE)
    /\ IsListener(l[2], "socks", "socks-in", r.socks, FALSE)
    /\ IsListener(l[3], "http", "health-in", r.health, TRUE)
    /\ IsTunInbound(l[4], r)
LEMMA InboundsAre ==
  ASSUME NEW r, r.mode.kind = "tun", NEW l, l = Inbounds(r)
  PROVE  AreInbounds(l, r)
<1>1. PICK a : a = Listener("http", "http-in", r.http)
  OBVIOUS
<1>2. PICK b : b = Listener("socks", "socks-in", r.socks)
  OBVIOUS
<1>3. PICK h : h = Listener("http", "health-in", r.health) @@ Authenticated
  OBVIOUS
<1>4. PICK t : t = TunInbound(r)
  OBVIOUS
<1>5. l = <<a, b, h, t>>
  BY <1>1, <1>2, <1>3, <1>4, InboundsUndone, Zenon
<1>6. /\ IsListener(a, "http", "http-in", r.http, FALSE)
      /\ IsListener(b, "socks", "socks-in", r.socks, FALSE)
      /\ IsListener(h, "http", "health-in", r.health, TRUE)
      /\ IsTunInbound(t, r)
  BY <1>1, <1>2, <1>3, <1>4, ListenerIs, AuthenticatedIs, TunIs, Zenon
<1>7. DOMAIN l = 1..4 /\ Len(l) = 4 /\ l[1] = a /\ l[2] = b /\ l[3] = h /\ l[4] = t
  BY <1>5
<1> QED
  BY <1>6, <1>7, Zenon DEF AreInbounds

LEMMA InboundsInSchema ==
  ASSUME NEW r, PortsFit(r), NEW l, AreInbounds(l, r)
  PROVE  \A i \in DOMAIN l : InboundInSchema(l[i])
<1>1. r.http > 0 /\ r.socks > 0 /\ r.health > 0
  BY DEF PortsFit
<1>2. "http" \in {"http", "socks"} /\ "socks" \in {"http", "socks"}
  OBVIOUS
<1>3. InboundInSchema(l[1]) /\ InboundInSchema(l[2]) /\ InboundInSchema(l[3]) /\ InboundInSchema(l[4])
  BY <1>1, <1>2, ListenerInSchema, TunInSchema, Zenon DEF AreInbounds
<1>4. \A i \in DOMAIN l : i = 1 \/ i = 2 \/ i = 3 \/ i = 4
  BY DEF AreInbounds
<1> QED
  BY <1>3, <1>4, Zenon

\* A configuration of one server as the generator makes them.
SingleFits(c, r, alias, o, b) ==
    /\ IsSingle(c, r, alias, o, b) /\ Physical(r, alias) /\ RequestOK(r) /\ r.mode.kind = "tun"
    /\ PortsFit(r) /\ ExitFits(o) /\ b \in BOOLEAN /\ (o["type"] = "socks" <=> b)

LEMMA SingleInSchema ==
  ASSUME NEW c, NEW r, NEW alias, NEW o, NEW b, SingleFits(c, r, alias, o, b)
  PROVE  FieldsInSchema(c)
<1>1. /\ IsSingle(c, r, alias, o, b) /\ Physical(r, alias) /\ RequestOK(r) /\ r.mode.kind = "tun"
      /\ PortsFit(r) /\ ExitFits(o)
  BY Zenon DEF SingleFits
<1>2. /\ c.dns = DnsOf(r, b) /\ c.inbounds = Inbounds(r) /\ c.route = RouteOf(r, alias, b)
      /\ c.outbounds[1] = o /\ c.outbounds[2] = DirectOf(alias, b)
      /\ DOMAIN c.outbounds = {1, 2}
      /\ DOMAIN c = {"dns", "inbounds", "outbounds", "route"}
  <2>1. DOMAIN c.outbounds = {1, 2}
    <3>1. PICK d : d = DirectOf(alias, b)
      OBVIOUS
    <3>2. PICK l : l = <<o, d>>
      OBVIOUS
    <3>3. c.outbounds = l
      BY <1>1, <3>1, <3>2 DEF IsSingle
    <3>4. DOMAIN l = {1, 2}
      BY <3>2
    <3> QED
      BY <3>3, <3>4, Zenon
  <2> QED
    BY <1>1, <2>1, SingleParts
<1>3. \A i \in DOMAIN c.dns.servers : DnsInSchema(c.dns.servers[i])
  <2>1. PICK l : l = c.dns.servers
    OBVIOUS
  <2>2. l = DnsOf(r, b).servers
    BY <1>2, <2>1, Zenon
  <2>3. \A i \in DOMAIN l : DnsInSchema(l[i])
    BY <1>1, <2>2, DnsServers
  <2> QED
    BY <2>1, <2>3, Zenon
<1>4. \A i \in DOMAIN c.inbounds : InboundInSchema(c.inbounds[i])
  <2>1. PICK l : l = c.inbounds
    OBVIOUS
  <2>2. AreInbounds(l, r)
    BY <1>1, <1>2, <2>1, InboundsAre
  <2>3. \A i \in DOMAIN l : InboundInSchema(l[i])
    BY <1>1, <2>2, InboundsInSchema
  <2> QED
    BY <2>1, <2>3, Zenon
<1>5. \A i \in DOMAIN c.outbounds : OutboundInSchema(c.outbounds[i])
  <2>1. OutboundInSchema(o)
    BY <1>1, Zenon DEF ExitFits
  <2>2. PICK d : d = DirectOf(alias, b)
    OBVIOUS
  <2>3. OutboundInSchema(d)
    BY <2>2, DirectIs, DirectInSchema
  <2> QED
    BY <1>2, <2>1, <2>2, <2>3, Zenon
<1>6. PICK rules : rules = Rules(r, OwnPrefixes(r))
  OBVIOUS
<1>7. IsRoute(c.route, rules, OutboundOf(r.policy.default), b, alias)
  BY <1>2, <1>6, RouteIs, Zenon
<1>8. DOMAIN c.route \subseteq {"final", "default_domain_resolver", "default_interface", "rules"}
  BY <1>7, Zenon DEF IsRoute
<1>9. \A i \in DOMAIN c.route["rules"] : RuleInSchema(c.route["rules"][i])
  <2>1. PICK X : X = RuleSetOf(r, OwnPrefixes(r))
    OBVIOUS
  <2>2. rules \in Seq(X)
    BY <1>1, <1>6, <2>1, RulesType, Zenon
  <2>3. \A i \in DOMAIN rules : rules[i] \in X
    BY <2>2
  <2>4. \A x \in X : RuleInSchema(x)
    BY <2>1, RulesInSchema, Zenon
  <2>5. c.route["rules"] = rules
    BY <1>7, Zenon DEF IsRoute
  <2> QED
    BY <2>3, <2>4, <2>5, Zenon
<1> QED
  BY <1>2, <1>3, <1>4, <1>5, <1>8, <1>9, Zenon DEF FieldsInSchema

\* The addresses of the tunnel are of the families they are said to be.
FamiliesFit(r) ==
    /\ r.mode.ipv4.family = 4
    /\ r.policy.ipv6 => r.mode.ipv6.family = 6

LEMMA AddressesAre ==
  ASSUME NEW r, FamiliesFit(r), NEW l, l = TunAddresses(r)
  PROVE  Len(l) \in 1..2 /\ (6 \in {a.family : a \in Range(l)} <=> r.policy.ipv6)
<1>1. PICK x : x = r.mode.ipv4
  OBVIOUS
<1>2. PICK y : y = r.mode.ipv6
  OBVIOUS
<1>3. x.family = 4 /\ (r.policy.ipv6 => y.family = 6)
  BY <1>1, <1>2, Zenon DEF FamiliesFit
<1>4. CASE r.policy.ipv6
  <2>1. l = <<x>> \o <<y>>
    BY <1>1, <1>2, <1>4, Zenon DEF TunAddresses
  <2>2. l = <<x, y>>
    BY <2>1, PairIs, Zenon
  <2>3. Len(l) = 2 /\ DOMAIN l = {1, 2} /\ l[1] = x /\ l[2] = y
    BY <2>2
  <2>4. y \in Range(l)
    BY <2>3, Zenon DEF Range
  <2>5. y.family = 6
    BY <1>3, <1>4, Zenon
  <2>6. \E a \in Range(l) : a.family = 6
    BY <2>4, <2>5, Zenon
  <2>7. 6 \in {a.family : a \in Range(l)}
    BY <2>6, Zenon
  <2> QED
    BY <1>4, <2>3, <2>7
<1>5. CASE ~r.policy.ipv6
  <2>1. l = <<x>> \o <<>>
    BY <1>1, <1>5, Zenon DEF TunAddresses
  <2>3. Len(l) = 1 /\ DOMAIN l = {1} /\ l[1] = x
    BY <2>1
  <2>4. \A a \in Range(l) : a = x
    BY <2>3, Zenon DEF Range
  <2>5. x.family # 6
    BY <1>3
  <2>6. 6 \notin {a.family : a \in Range(l)}
    BY <2>4, <2>5, Zenon
  <2> QED
    BY <1>5, <2>3, <2>6
<1> QED
  BY <1>4, <1>5

LEMMA TunOf ==
  ASSUME NEW c, NEW r, AreInbounds(c.inbounds, r)
  PROVE  TunInbounds(c) = {4} /\ TheTun(c) = c.inbounds[4]
<1>1. PICK l : l = c.inbounds
  OBVIOUS
<1>2. /\ l[1]["type"] = "http" /\ l[2]["type"] = "socks" /\ l[3]["type"] = "http"
      /\ l[4]["type"] = "tun"
  BY <1>1, Zenon DEF AreInbounds, IsListener, IsTunInbound
<1>3. "http" # "tun" /\ "socks" # "tun"
  OBVIOUS
<1>4. \A i \in DOMAIN l : i = 1 \/ i = 2 \/ i = 3 \/ i = 4
  BY <1>1 DEF AreInbounds
<1>5. 4 \in DOMAIN l
  BY <1>1 DEF AreInbounds
<1>6. \A i : i \in DOMAIN l /\ l[i]["type"] = "tun" <=> i = 4
  BY <1>2, <1>3, <1>4, <1>5, Zenon
<1>7. TunInbounds(c) = {4}
  BY <1>1, <1>6, Zenon DEF TunInbounds
<1>8. (CHOOSE i \in {4} : TRUE) = 4
  OBVIOUS
<1> QED
  BY <1>7, <1>8, Zenon DEF TheTun

LEMMA InboundsPass ==
  ASSUME NEW c, NEW r, AreInbounds(c.inbounds, r), FamiliesFit(r), r.mode.stack \in {"system", "gvisor"}
  PROVE  /\ InboundsAccepted(c) /\ (6 \in Families(c) <=> r.policy.ipv6)
         /\ ExpectedPrefixes(c) = OwnPrefixes(r)
<1>1. TunInbounds(c) = {4} /\ TheTun(c) = c.inbounds[4]
  BY TunOf
<1>2. PICK l : l = c.inbounds
  OBVIOUS
<1>3. PICK tun : tun = l[4]
  OBVIOUS
<1>4. IsTunInbound(tun, r)
  BY <1>2, <1>3, Zenon DEF AreInbounds
<1>5. PICK addresses : addresses = TunAddresses(r)
  OBVIOUS
<1>6. Len(addresses) \in 1..2 /\ (6 \in {a.family : a \in Range(addresses)} <=> r.policy.ipv6)
  BY <1>5, AddressesAre
<1>7. TheTun(c) = tun /\ tun["address"] = addresses
  BY <1>1, <1>2, <1>3, <1>4, <1>5, Zenon DEF IsTunInbound
<1>8. 6 \in Families(c) <=> r.policy.ipv6
  BY <1>6, <1>7, Zenon DEF Families
<1>9. ExpectedPrefixes(c) = OwnPrefixes(r)
  BY <1>5, <1>7, Zenon DEF ExpectedPrefixes, OwnPrefixes
<1>10. Cardinality(TunInbounds(c)) = 1
  BY <1>1, FS_Singleton, Zenon
<1>11. l # <<>> /\ Len(l) <= 8
  <2>1. Len(l) = 4
    BY <1>2, Zenon DEF AreInbounds
  <2>2. Len(<<>>) # 4 /\ 4 <= 8
    OBVIOUS
  <2> QED
    BY <2>1, <2>2, Zenon
<1>12. \A i \in DOMAIN l : l[i]["type"] # "tun" => l[i]["listen"] = Loopback
  <2>1. l[1]["listen"] = Loopback /\ l[2]["listen"] = Loopback /\ l[3]["listen"] = Loopback
    BY <1>2, Zenon DEF AreInbounds, IsListener
  <2>2. l[4]["type"] = "tun"
    BY <1>3, <1>4, Zenon DEF IsTunInbound
  <2>3. \A i \in DOMAIN l : i = 1 \/ i = 2 \/ i = 3 \/ i = 4
    BY <1>2 DEF AreInbounds
  <2> QED
    BY <2>1, <2>2, <2>3, Zenon
<1>13. /\ tun["tag"] = "tun-in" /\ tun["interface_name"] = "RouteDeck"
       /\ {tun["auto_route"], tun["strict_route"]} = {"true"} /\ tun["stack"] \in {"system", "gvisor"}
       /\ Len(tun["address"]) \in 1..2
  <2>1. /\ tun["tag"] = "tun-in" /\ tun["interface_name"] = "RouteDeck"
        /\ tun["auto_route"] = "true" /\ tun["strict_route"] = "true" /\ tun["stack"] = r.mode.stack
    BY <1>4, Zenon DEF IsTunInbound
  <2>2. {tun["auto_route"], tun["strict_route"]} = {"true"}
    BY <2>1
  <2>3. tun["stack"] \in {"system", "gvisor"}
    BY <2>1, Zenon
  <2>4. Len(tun["address"]) \in 1..2
    BY <1>6, <1>7, Zenon
  <2> QED
    BY <2>1, <2>2, <2>3, <2>4, Zenon
<1>14. InboundsAccepted(c)
  BY <1>2, <1>7, <1>10, <1>11, <1>12, <1>13, Zenon DEF InboundsAccepted
<1> QED
  BY <1>8, <1>9, <1>14

LEMMA UpstreamPass ==
  ASSUME NEW c, NEW r, NEW alias, NEW o, NEW b, SingleFits(c, r, alias, o, b),
         b => o["server"] = Loopback
  PROVE  UpstreamAccepted(c, alias, r.upstream.dns)
<1>1. /\ IsSingle(c, r, alias, o, b) /\ Physical(r, alias) /\ ExitFits(o)
      /\ b \in BOOLEAN /\ (o["type"] = "socks" <=> b)
  BY Zenon DEF SingleFits
<1>0. c.dns = DnsOf(r, b) /\ c.route = RouteOf(r, alias, b)
  <2>1. IsSingle(c, r, alias, o, b)
    BY <1>1
  <2> QED
    BY <2>1, SingleParts
<1>2. PICK d : d = DirectOf(alias, b)
  OBVIOUS
<1>3. PICK l : l = c.outbounds
  OBVIOUS
<1>4. l = <<o, d>>
  BY <1>1, <1>2, <1>3 DEF IsSingle
<1>5. Len(l) = 2 /\ DOMAIN l = {1, 2} /\ l[1] = o /\ l[2] = d
  BY <1>4
<1>6. IsDirect(d, alias, b)
  BY <1>2, DirectIs
<1>7. Field(o, "tag", "") = "selected" /\ Field(d, "tag", "") = "direct"
  <2>1. "tag" \in DOMAIN o /\ o["tag"] = "selected"
    BY <1>1, Zenon DEF ExitFits
  <2>2. "tag" \in DOMAIN d /\ d["tag"] = "direct"
    BY <1>6, Zenon DEF IsDirect
  <2> QED
    BY <2>1, <2>2, Zenon DEF Field
<1>8. "selected" # "direct" /\ 1 # 2
  OBVIOUS
<1>9. \A i \in DOMAIN l : (Field(l[i], "tag", "") = "selected" <=> i = 1)
                          /\ (Field(l[i], "tag", "") = "direct" <=> i = 2)
  BY <1>5, <1>7, <1>8, Zenon
<1>10. Tagged(l, "selected") = {1} /\ Tagged(l, "direct") = {2}
  <2>1. 1 \in DOMAIN l /\ 2 \in DOMAIN l
    BY <1>5
  <2> QED
    BY <1>9, <2>1, Zenon DEF Tagged
<1>11. PICK s : s = c.dns.servers
  OBVIOUS
<1>12. s = DnsOf(r, b).servers
  BY <1>0, <1>11, Zenon
<1>13. IsBootstrap(s[1], alias, r.upstream.dns, b) /\ Tagged(s, "bootstrap") = {1}
  BY <1>1, <1>12, DnsServers
<1>14. Min({1}) = 1 /\ Min({2}) = 2
  <2>1. \A k \in Nat : Min({k}) = k
    <3>1. SUFFICES ASSUME NEW k \in Nat PROVE Min({k}) = k
      OBVIOUS
    <3>2. {k} \in SUBSET Nat /\ {k} # {}
      OBVIOUS
    <3>3. Min({k}) \in {k}
      BY <3>2, Least, Zenon
    <3> QED
      BY <3>3
  <2> QED
    BY <2>1
<1>15. First(l, "selected") = o /\ First(l, "direct") = d /\ First(s, "bootstrap") = s[1]
  BY <1>5, <1>10, <1>13, <1>14, Zenon DEF First
<1>16. Has(l, "selected") /\ Has(l, "direct") /\ Has(s, "bootstrap")
  BY <1>10, <1>13, Zenon DEF Has
<1>17. Field(o, "bind_interface", "") = ""
  BY <1>1, ExitTypes, Zenon DEF Field
<1>18. Field(d, "bind_interface", "") = IF b THEN alias ELSE ""
  <2>1. "bind_interface" # "type" /\ "bind_interface" # "tag"
    OBVIOUS
  <2> QED
    BY <1>6, <2>1, Zenon DEF IsDirect, Field
<1>19. BootstrapAccepted(s[1], alias, r.upstream.dns)
  BY <1>13, Zenon DEF IsBootstrap, BootstrapAccepted, Field
<1>20. r.upstream.dns = "" => Field(s[1], "bind_interface", "") = IF b THEN alias ELSE ""
  BY <1>13, Zenon DEF IsBootstrap, Field
<1>21. /\ b => "default_interface" \notin DOMAIN c.route
       /\ ~b => Field(c.route, "default_interface", "") = alias
  <2>1. c.route = RouteOf(r, alias, b)
    BY <1>0
  <2>2. PICK rules : rules = Rules(r, OwnPrefixes(r))
    OBVIOUS
  <2>3. IsRoute(c.route, rules, OutboundOf(r.policy.default), b, alias)
    BY <2>1, <2>2, RouteIs, Zenon
  <2>4. "default_interface" \notin {"rules", "final", "default_domain_resolver"}
    OBVIOUS
  <2> QED
    BY <2>3, <2>4, Zenon DEF IsRoute, Field
<1>22. d["type"] = "direct"
  BY <1>6, Zenon DEF IsDirect
<1>23. CASE b
  BY <1>1, <1>3, <1>5, <1>11, <1>15, <1>16, <1>17, <1>18, <1>19, <1>20, <1>21, <1>22, <1>23, Zenon DEF UpstreamAccepted
<1>24. CASE ~b
  BY <1>1, <1>3, <1>5, <1>11, <1>15, <1>16, <1>17, <1>18, <1>19, <1>20, <1>21, <1>22, <1>24, Zenon DEF UpstreamAccepted
<1> QED
  BY <1>23, <1>24

-----------------------------------------------------------------------------
(* The rules of a request pass *)

\* l is s, then t.
IsBoth(l, s, t) ==
    /\ Len(l) = Len(s) + Len(t)
    /\ \A i \in 1..Len(s) : l[i] = s[i]
    /\ \A i \in 1..Len(t) : l[Len(s) + i] = t[i]
LEMMA OneAfterOther ==
  ASSUME NEW X, NEW s \in Seq(X), NEW t \in Seq(X), NEW l, l = s \o t
  PROVE  l \in Seq(X) /\ IsBoth(l, s, t)
  BY DEF IsBoth

\* Where each part of a list of rules ends up.
ArePlaced(rules, S, W, A, L) ==
    /\ Len(rules) = 3 + Len(S) + Len(W) + Len(A) + Len(L)
    /\ \A i \in 1..Len(S) : rules[3 + i] = S[i]
    /\ \A i \in 1..Len(W) : rules[3 + Len(S) + i] = W[i]
    /\ \A i \in 1..Len(A) : rules[3 + Len(S) + Len(W) + i] = A[i]
    /\ \A i \in 1..Len(L) : rules[3 + Len(S) + Len(W) + Len(A) + i] = L[i]
LEMMA Positions ==
  ASSUME NEW X, NEW h \in X, NEW T \in Seq(X), Len(T) = 2, NEW S \in Seq(X), NEW W \in Seq(X),
         NEW A \in Seq(X), NEW L \in Seq(X),
         NEW rules, rules = <<h>> \o (T \o S \o W \o A \o L)
  PROVE  ArePlaced(rules, S, W, A, L)
<1>0. PICK h1 : h1 = <<h>>
  OBVIOUS
<1>1. h1 \in Seq(X) /\ Len(h1) = 1
  BY <1>0
<1>2. PICK q1 : q1 = T \o S
  OBVIOUS
<1>3. PICK q2 : q2 = q1 \o W
  OBVIOUS
<1>4. PICK q3 : q3 = q2 \o A
  OBVIOUS
<1>5. PICK q4 : q4 = q3 \o L
  OBVIOUS
<1>6. rules = h1 \o q4
  BY <1>0, <1>2, <1>3, <1>4, <1>5, Zenon
<1>6a. /\ q1 \in Seq(X) /\ q2 \in Seq(X) /\ q3 \in Seq(X) /\ q4 \in Seq(X)
       /\ IsBoth(q1, T, S) /\ IsBoth(q2, q1, W) /\ IsBoth(q3, q2, A) /\ IsBoth(q4, q3, L)
       /\ IsBoth(rules, h1, q4)
  <2>1. q1 \in Seq(X) /\ IsBoth(q1, T, S)
    BY <1>2, OneAfterOther
  <2>2. q2 \in Seq(X) /\ IsBoth(q2, q1, W)
    BY <1>3, <2>1, OneAfterOther
  <2>3. q3 \in Seq(X) /\ IsBoth(q3, q2, A)
    BY <1>4, <2>2, OneAfterOther
  <2>4. q4 \in Seq(X) /\ IsBoth(q4, q3, L)
    BY <1>5, <2>3, OneAfterOther
  <2>5. IsBoth(rules, h1, q4)
    BY <1>1, <1>6, <2>4, OneAfterOther
  <2> QED
    BY <2>1, <2>2, <2>3, <2>4, <2>5
<1>7. /\ Len(q1) = Len(T) + Len(S)
      /\ \A i \in 1..Len(S) : q1[2 + i] = S[i]
  BY <1>6a, ZenonT(60) DEF IsBoth
<1>8. /\ Len(q2) = Len(q1) + Len(W)
      /\ \A i \in 1..Len(q1) : q2[i] = q1[i]
      /\ \A i \in 1..Len(W) : q2[Len(q1) + i] = W[i]
  BY <1>6a, Zenon DEF IsBoth
<1>9. /\ Len(q3) = Len(q2) + Len(A)
      /\ \A i \in 1..Len(q2) : q3[i] = q2[i]
      /\ \A i \in 1..Len(A) : q3[Len(q2) + i] = A[i]
  BY <1>6a, Zenon DEF IsBoth
<1>10. /\ Len(q4) = Len(q3) + Len(L)
       /\ \A i \in 1..Len(q3) : q4[i] = q3[i]
       /\ \A i \in 1..Len(L) : q4[Len(q3) + i] = L[i]
  BY <1>6a, Zenon DEF IsBoth
<1>11. /\ Len(rules) = 1 + Len(q4)
       /\ \A i \in 1..Len(q4) : rules[1 + i] = q4[i]
  BY <1>1, <1>6a, Zenon DEF IsBoth
<1>12. Len(S) \in Nat /\ Len(W) \in Nat /\ Len(A) \in Nat /\ Len(L) \in Nat
  OBVIOUS
<1>13. /\ Len(q1) = 2 + Len(S) /\ Len(q2) = 2 + Len(S) + Len(W)
       /\ Len(q3) = 2 + Len(S) + Len(W) + Len(A)
       /\ Len(q4) = 2 + Len(S) + Len(W) + Len(A) + Len(L)
  BY <1>7, <1>8, <1>9, <1>10, <1>12
<1>14. Len(rules) = 3 + Len(S) + Len(W) + Len(A) + Len(L)
  BY <1>11, <1>12, <1>13
<1>15. /\ \A i \in 1..Len(q3) : rules[1 + i] = q3[i]
       /\ \A i \in 1..Len(q2) : rules[1 + i] = q2[i]
       /\ \A i \in 1..Len(q1) : rules[1 + i] = q1[i]
  <2>1. \A i \in 1..Len(q3) : i \in 1..Len(q4)
    BY <1>12, <1>13
  <2>2. \A i \in 1..Len(q2) : i \in 1..Len(q3)
    BY <1>12, <1>13
  <2>3. \A i \in 1..Len(q1) : i \in 1..Len(q2)
    BY <1>12, <1>13
  <2>4. \A i \in 1..Len(q3) : rules[1 + i] = q3[i]
    BY <1>10, <1>11, <2>1, Zenon
  <2>5. \A i \in 1..Len(q2) : rules[1 + i] = q2[i]
    BY <1>9, <2>2, <2>4, Zenon
  <2>6. \A i \in 1..Len(q1) : rules[1 + i] = q1[i]
    BY <1>8, <2>3, <2>5, Zenon
  <2> QED
    BY <2>4, <2>5, <2>6
<1>16. \A i \in 1..Len(S) : rules[3 + i] = S[i]
  <2> TAKE i \in 1..Len(S)
  <2>1. 2 + i \in 1..Len(q1) /\ 1 + (2 + i) = 3 + i
    BY <1>12, <1>13
  <2>2. q1[2 + i] = S[i]
    BY <1>7
  <2> QED
    BY <1>15, <2>1, <2>2, Zenon
<1>17. \A i \in 1..Len(W) : rules[3 + Len(S) + i] = W[i]
  <2> TAKE i \in 1..Len(W)
  <2>1. Len(q1) + i \in 1..Len(q2) /\ 1 + (Len(q1) + i) = 3 + Len(S) + i
    BY <1>12, <1>13
  <2> QED
    BY <1>8, <1>15, <2>1, Zenon
<1>18. \A i \in 1..Len(A) : rules[3 + Len(S) + Len(W) + i] = A[i]
  <2> TAKE i \in 1..Len(A)
  <2>1. Len(q2) + i \in 1..Len(q3) /\ 1 + (Len(q2) + i) = 3 + Len(S) + Len(W) + i
    BY <1>12, <1>13
  <2> QED
    BY <1>9, <1>15, <2>1, Zenon
<1>19. \A i \in 1..Len(L) : rules[3 + Len(S) + Len(W) + Len(A) + i] = L[i]
  <2> TAKE i \in 1..Len(L)
  <2>1. Len(q3) + i \in 1..Len(q4) /\ 1 + (Len(q3) + i) = 3 + Len(S) + Len(W) + Len(A) + i
    BY <1>12, <1>13
  <2> QED
    BY <1>10, <1>11, <2>1, Zenon
<1> QED
  BY <1>14, <1>16, <1>17, <1>18, <1>19, Zenon DEF ArePlaced

\* The rule of a row is one the helper knows.
RowFits(t) == t.network \in {"tcp", "udp"} /\ t.action \in {"block", "direct", "vpn"} /\ t.port \notin {0, 53}

LEMMA RowFields ==
  ASSUME NEW t, NEW rule, rule = TrafficRule(t)
  PROVE  /\ "network" \in DOMAIN rule /\ rule["network"] = <<t.network>>
         /\ "port" \in DOMAIN rule /\ rule["port"] = t.port
         /\ "ip_version" \notin DOMAIN rule
<1>1. CASE t.action = "block"
  BY <1>1, One, Both DEF :>, @@, TrafficRule, OnInbound, RouteTo, Reject
<1>2. CASE t.action # "block"
  BY <1>2, One, Both DEF :>, @@, TrafficRule, OnInbound, RouteTo, Reject
<1> QED
  BY <1>1, <1>2

LEMMA RowPasses ==
  ASSUME NEW t, RowFits(t), NEW rule, rule = TrafficRule(t)
  PROVE  Candidate(rule) /\ IsTrafficRule(rule)
<1>1. /\ "network" \in DOMAIN rule /\ rule["network"] = <<t.network>>
      /\ "port" \in DOMAIN rule /\ rule["port"] = t.port
  BY RowFields
<1>2. Candidate(rule)
  BY <1>1 DEF Candidate
<1>3. PICK w : w = t.network
  OBVIOUS
<1>4. w \in {"tcp", "udp"} /\ t.action \in {"block", "direct", "vpn"} /\ t.port \notin {0, 53}
  BY <1>3, Zenon DEF RowFits
<1>5. Len(<<w>>) = 1 /\ <<w>>[1] = w
  OBVIOUS
<1>6. Field(rule, "network", <<>>) = <<w>> /\ rule["network"] = <<w>> /\ Field(rule, "port", 0) = t.port
  BY <1>1, <1>3, Zenon DEF Field
<1>7. PICK u : u = [network |-> rule["network"][1], port |-> rule["port"], action |-> t.action]
  OBVIOUS
<1>8. u.network = t.network /\ u.port = t.port /\ u.action = t.action
  <2>1. u.network = rule["network"][1] /\ u.port = rule["port"] /\ u.action = t.action
    BY <1>7
  <2> QED
    BY <1>1, <1>3, <1>5, <2>1, Zenon
<1>9. rule = TrafficRule(u)
  BY <1>8, Zenon DEF TrafficRule
<1>10. \E action \in {"block", "direct", "vpn"} :
          rule = TrafficRule([network |-> rule["network"][1], port |-> rule["port"], action |-> action])
  BY <1>4, <1>7, <1>9, Zenon
<1>11. IsTrafficRule(rule)
  BY <1>4, <1>5, <1>6, <1>10, Zenon DEF IsTrafficRule
<1> QED
  BY <1>2, <1>11

\* And so is that of an application.
AppFits(a) == a.by \in {"path", "name"} /\ (a.by = "path" => a.path # "bad") /\ (a.by = "name" => a.name # "bad")

LEMMA AppFields ==
  ASSUME NEW a, AppFits(a), NEW rule, rule = AppRule(a)
  PROVE  \E k, v : /\ k \in {"process_path", "process_path_regex"} /\ v # "bad"
                   /\ \A x : x \in DOMAIN rule <=> x = "action" \/ x = "outbound" \/ x = k
                   /\ rule["action"] = "route" /\ rule["outbound"] = OutboundOf(a.action)
                   /\ rule[k] = <<v>>
<1>1. PICK p : p = RouteTo(OutboundOf(a.action))
  OBVIOUS
<1>2. /\ \A x : x \in DOMAIN p <=> x = "action" \/ x = "outbound"
      /\ p["action"] = "route" /\ p["outbound"] = OutboundOf(a.action)
  <2>1. PICK out : out = OutboundOf(a.action)
    OBVIOUS
  <2>2. p = RouteTo(out)
    BY <1>1, <2>1, Zenon
  <2>3. /\ \A x : x \in DOMAIN p <=> x = "action" \/ x = "outbound"
        /\ p["action"] = "route" /\ p["outbound"] = out
    BY <2>2, One, Both DEF :>, @@, RouteTo
  <2> QED
    BY <2>1, <2>3, Zenon
<1>3. ASSUME NEW k \in {"process_path", "process_path_regex"}, NEW v, v # "bad",
             rule = p @@ (k :> <<v>>)
      PROVE  /\ \A x : x \in DOMAIN rule <=> x = "action" \/ x = "outbound" \/ x = k
             /\ rule["action"] = "route" /\ rule["outbound"] = OutboundOf(a.action)
             /\ rule[k] = <<v>>
  <2>1. PICK w : w = <<v>>
    OBVIOUS
  <2>2. PICK s : s = k :> w
    OBVIOUS
  <2>3. IsPart(s, TRUE, k, w) /\ IsMerge(rule, p, s)
    BY <1>3, <2>1, <2>2, PartIs, MergeIs, Zenon
  <2>4. k # "action" /\ k # "outbound"
    OBVIOUS
  <2>5. \A x : x \in DOMAIN rule <=> x = "action" \/ x = "outbound" \/ x = k
    BY <1>2, <2>3, Zenon DEF IsPart, IsMerge
  <2>6. rule["action"] = "route" /\ rule["outbound"] = OutboundOf(a.action)
    BY <1>2, <2>3, Zenon DEF IsMerge
  <2>7. rule[k] = w
    BY <1>2, <2>3, <2>4, Zenon DEF IsPart, IsMerge
  <2> QED
    BY <2>1, <2>5, <2>6, <2>7
<1>4. CASE a.by = "path"
  <2>1. rule = p @@ ("process_path" :> <<a.path>>) /\ a.path # "bad"
    BY <1>1, <1>4, Zenon DEF AppRule, AppFits
  <2>2. "process_path" \in {"process_path", "process_path_regex"}
    OBVIOUS
  <2> QED
    BY <1>3, <2>1, <2>2, Zenon
<1>5. CASE a.by # "path"
  <2>1. rule = p @@ ("process_path_regex" :> <<a.name>>) /\ a.name # "bad"
    BY <1>1, <1>5, Zenon DEF AppRule, AppFits
  <2>2. "process_path_regex" \in {"process_path", "process_path_regex"}
    OBVIOUS
  <2> QED
    BY <1>3, <2>1, <2>2, Zenon
<1> QED
  BY <1>4, <1>5

LEMMA AppPasses ==
  ASSUME NEW a, AppFits(a), NEW rule, rule = AppRule(a)
  PROVE  ~Candidate(rule) /\ NamesProcess(rule) /\ IsAppRule(rule) /\ "ip_version" \notin DOMAIN rule
<1>1. PICK k, v : /\ k \in {"process_path", "process_path_regex"} /\ v # "bad"
                  /\ \A x : x \in DOMAIN rule <=> x = "action" \/ x = "outbound" \/ x = k
                  /\ rule["action"] = "route" /\ rule["outbound"] = OutboundOf(a.action)
                  /\ rule[k] = <<v>>
  BY AppFields
<1>2. DOMAIN rule = {"action", "outbound", k}
  BY <1>1
<1>3. ~Candidate(rule) /\ NamesProcess(rule) /\ "ip_version" \notin DOMAIN rule
  BY <1>1, <1>2 DEF Candidate, NamesProcess
<1>4. Cardinality(DOMAIN rule) = 3
  <2>1. k # "action" /\ k # "outbound" /\ "action" # "outbound"
    BY <1>1
  <2>2. IsFiniteSet({"action"}) /\ Cardinality({"action"}) = 1
    BY FS_Singleton, Zenon
  <2>3. IsFiniteSet({"action"} \cup {"outbound"}) /\ Cardinality({"action"} \cup {"outbound"}) = 2
    <3>1. "outbound" \notin {"action"}
      BY <2>1
    <3>2. /\ IsFiniteSet({"action"} \cup {"outbound"})
          /\ Cardinality({"action"} \cup {"outbound"}) = Cardinality({"action"}) + 1
      BY <2>2, <3>1, FS_AddElement
    <3> QED
      BY <2>2, <3>2
  <2>4. Cardinality({"action"} \cup {"outbound"} \cup {k}) = 3
    <3>1. k \notin {"action"} \cup {"outbound"}
      BY <2>1
    <3>2. Cardinality({"action"} \cup {"outbound"} \cup {k}) = Cardinality({"action"} \cup {"outbound"}) + 1
      BY <2>3, <3>1, FS_AddElement
    <3> QED
      BY <2>3, <3>2
  <2>5. DOMAIN rule = {"action"} \cup {"outbound"} \cup {k}
    BY <1>2
  <2> QED
    BY <2>4, <2>5
<1>5. Field(rule, "outbound", "") \in {"direct", "selected"}
  <2>1. Field(rule, "outbound", "") = OutboundOf(a.action)
    BY <1>1, Zenon DEF Field
  <2>2. OutboundOf(a.action) \in {"direct", "selected"}
    BY DEF OutboundOf
  <2> QED
    BY <2>1, <2>2, Zenon
<1>6. Field(rule, "process_path_regex", Field(rule, "process_path", <<>>)) = <<v>>
  <2>1. /\ "process_path_regex" # "action" /\ "process_path_regex" # "outbound"
        /\ "process_path_regex" # "process_path"
    OBVIOUS
  <2> QED
    BY <1>1, <2>1, Zenon DEF Field
<1>7. Len(<<v>>) = 1 /\ <<v>>[1] = v
  OBVIOUS
<1>8. IsAppRule(rule)
  BY <1>1, <1>4, <1>5, <1>6, <1>7, Zenon DEF IsAppRule
<1> QED
  BY <1>3, <1>8

LEMMA GuardAlone ==
  /\ "ip_version" \in DOMAIN Ipv6Guard /\ "ip_version" \notin DOMAIN LanRule
  BY One, Both DEF :>, @@, Ipv6Guard, Reject, LanRule, RouteTo

\* What is right about the rules a user may ask for.
RowsFit(r) == Len(r.mode.rules) <= MaxTrafficRules /\ \A t \in Range(r.mode.rules) : RowFits(t)
AppsFit(r) == Len(r.policy.apps) <= MaxAppRules /\ \A a \in Range(r.policy.apps) : AppFits(a)

\* The rules of the applications that are named in one way.
IsAppList(l, apps, by) ==
    /\ Len(l) = Cardinality({i \in DOMAIN apps : apps[i].by = by})
    /\ \A i \in 1..Len(l) : \E a \in Range(apps) : l[i] = AppRule(a)
LEMMA AppsOfFacts ==
  ASSUME NEW r, RequestOK(r), NEW by, NEW l, l = AppsOf(r, by)
  PROVE  IsAppList(l, r.policy.apps, by)
<1>1. PICK apps : apps = r.policy.apps
  OBVIOUS
<1>2. PICK X : X = Range(apps)
  OBVIOUS
<1>3. apps \in Seq(X)
  BY <1>1, <1>2, Zenon DEF RequestOK
<1>4. PICK places : places = {i \in DOMAIN apps : apps[i].by = by}
  OBVIOUS
<1>5. places \in SUBSET (DOMAIN apps)
  BY <1>4
<1>6. PICK some : some = Picked(apps, places)
  OBVIOUS
<1>7. some \in Seq(X) /\ Len(some) = Cardinality(places)
  BY <1>3, <1>5, <1>6, PickedFacts, Zenon
<1>8. l = RulesOfApps(some)
  BY <1>1, <1>4, <1>6, Zenon DEF AppsOf, AppsBy
<1>9. DOMAIN l = 1..Len(some) /\ Len(l) = Len(some) /\ \A i \in 1..Len(some) : l[i] = AppRule(some[i])
  <2>1. DOMAIN some = 1..Len(some) /\ Len(some) \in Nat
    BY <1>7
  <2>2. l = [i \in 1..Len(some) |-> AppRule(some[i])]
    BY <1>8, <2>1, Zenon DEF RulesOfApps
  <2> QED
    BY <2>1, <2>2
<1>10. \A i \in 1..Len(l) : some[i] \in X
  BY <1>7, <1>9
<1>11. \A i \in 1..Len(l) : \E a \in X : l[i] = AppRule(a)
  BY <1>9, <1>10, Zenon
<1>12. Len(l) = Cardinality(places)
  BY <1>7, <1>9, Zenon
<1> QED
  BY <1>1, <1>2, <1>4, <1>11, <1>12, Zenon DEF IsAppList

LEMMA AppsListed ==
  ASSUME NEW r, RequestOK(r), AppsFit(r), NEW l, l = AppsOf(r, "path") \o AppsOf(r, "name")
  PROVE  /\ Len(l) <= MaxAppRules
         /\ \A i \in 1..Len(l) : \E a : AppFits(a) /\ l[i] = AppRule(a)
<1>1. PICK p : p = AppsOf(r, "path")
  OBVIOUS
<1>2. PICK q : q = AppsOf(r, "name")
  OBVIOUS
<1>3. PICK apps : apps = r.policy.apps
  OBVIOUS
<1>4. PICK P : P = {i \in DOMAIN apps : apps[i].by = "path"}
  OBVIOUS
<1>5. PICK Q : Q = {i \in DOMAIN apps : apps[i].by = "name"}
  OBVIOUS
<1>6. /\ Len(p) = Cardinality(P) /\ \A i \in 1..Len(p) : \E a \in Range(apps) : p[i] = AppRule(a)
      /\ Len(q) = Cardinality(Q) /\ \A i \in 1..Len(q) : \E a \in Range(apps) : q[i] = AppRule(a)
  <2>1. IsAppList(p, apps, "path") /\ IsAppList(q, apps, "name")
    BY <1>1, <1>2, <1>3, AppsOfFacts, Zenon
  <2> QED
    BY <1>4, <1>5, <2>1, Zenon DEF IsAppList
<1>7. apps \in Seq(Range(apps)) /\ Len(apps) <= MaxAppRules /\ \A a \in Range(apps) : AppFits(a)
  BY <1>3, Zenon DEF RequestOK, AppsFit
<1>8. Cardinality(P) + Cardinality(Q) <= Len(apps)
  <2>1. DOMAIN apps = 1..Len(apps) /\ Len(apps) \in Nat
    BY <1>7
  <2>2. IsFiniteSet(DOMAIN apps) /\ Cardinality(DOMAIN apps) = Len(apps)
    <3>1. IsFiniteSet(1..Len(apps)) /\ Cardinality(1..Len(apps)) = Len(apps)
      <4>1. PICK n \in Nat : n = Len(apps)
        BY <2>1
      <4>2. IsFiniteSet(1..n) /\ Cardinality(1..n) = n
        <5>1. /\ IsFiniteSet(1..n)
              /\ Cardinality(1..n) = IF 1 > n THEN 0 ELSE n - 1 + 1
          BY FS_Interval
        <5> QED
          BY <5>1
      <4> QED
        BY <4>1, <4>2
    <3> QED
      BY <2>1, <3>1, Zenon
  <2>3. P \subseteq DOMAIN apps /\ Q \subseteq DOMAIN apps /\ P \cap Q = {}
    <3>1. "path" # "name"
      OBVIOUS
    <3> QED
      BY <1>4, <1>5, <3>1, Zenon
  <2>4. IsFiniteSet(P) /\ IsFiniteSet(Q)
    BY <2>2, <2>3, FS_Subset, Zenon
  <2>5. Cardinality(P \cup Q) = Cardinality(P) + Cardinality(Q)
    <3>1. Cardinality(P \cup Q) = Cardinality(P) + Cardinality(Q) - Cardinality(P \cap Q)
      BY <2>4, FS_Union, Zenon
    <3>2. Cardinality(P \cap Q) = 0
      BY <2>3, FS_EmptySet, Zenon
    <3>3. Cardinality(P) \in Nat /\ Cardinality(Q) \in Nat
      BY <2>4, FS_CardinalityType, Zenon
    <3> QED
      BY <3>1, <3>2, <3>3
  <2>6. P \cup Q \subseteq DOMAIN apps
    BY <2>3, Zenon
  <2>7. Cardinality(P \cup Q) <= Cardinality(DOMAIN apps)
    BY <2>2, <2>6, FS_Subset, Zenon
  <2> QED
    BY <2>2, <2>5, <2>7, Zenon
<1>9. PICK X : X = RuleSetOf(r, <<>>)
  OBVIOUS
<1>10. p \in Seq(X) /\ q \in Seq(X)
  BY <1>1, <1>2, <1>9, PartsType, Zenon
<1>11. IsBoth(l, p, q)
  <2>1. l = p \o q
    BY <1>1, <1>2
  <2> QED
    BY <1>10, <2>1, OneAfterOther
<1>12. Len(l) = Len(p) + Len(q)
  BY <1>11, Zenon DEF IsBoth
<1>13. Len(l) <= MaxAppRules
  <2>1. Len(p) + Len(q) <= Len(apps)
    BY <1>6, <1>8, Zenon
  <2>2. Len(apps) \in Nat /\ MaxAppRules \in Nat /\ Len(p) \in Nat /\ Len(q) \in Nat
    BY <1>7, <1>10, LimitsAssumption
  <2> QED
    BY <1>7, <1>12, <2>1, <2>2
<1>14. \A i \in 1..Len(l) : i \in 1..Len(p) \/ (i - Len(p) \in 1..Len(q) /\ i = Len(p) + (i - Len(p)))
  BY <1>10, <1>12
<1>15. \A i \in 1..Len(l) : \E a \in Range(apps) : l[i] = AppRule(a)
  <2> TAKE i \in 1..Len(l)
  <2>1. CASE i \in 1..Len(p)
    <3>1. l[i] = p[i]
      BY <1>11, <2>1, Zenon DEF IsBoth
    <3> QED
      BY <1>6, <2>1, <3>1, Zenon
  <2>2. CASE i - Len(p) \in 1..Len(q) /\ i = Len(p) + (i - Len(p))
    <3>1. l[i] = q[i - Len(p)]
      BY <1>11, <2>2, Zenon DEF IsBoth
    <3> QED
      BY <1>6, <2>2, <3>1, Zenon
  <2> QED
    BY <1>14, <2>1, <2>2, Zenon
<1> QED
  BY <1>7, <1>13, <1>15, Zenon

\* What the helper has to find among the rules that come after the fixed three.
IsRuleList(rules, ipv6, s, n, m, k) ==
    /\ Len(rules) = 3 + s + n + m + k /\ s = (IF ipv6 THEN 0 ELSE 1) /\ k \in {0, 1}
    /\ n \in Nat /\ m \in Nat /\ n <= MaxTrafficRules /\ m <= MaxAppRules
    /\ s = 1 => rules[4] = Ipv6Guard
    /\ \A i \in 1..n : \E t : RowFits(t) /\ rules[3 + s + i] = TrafficRule(t)
    /\ \A i \in 1..m : \E a : AppFits(a) /\ rules[3 + s + n + i] = AppRule(a)
    /\ k = 1 => rules[3 + s + n + m + 1] = LanRule

LEMMA RuleListIs ==
  ASSUME NEW r, RequestOK(r), r.mode.kind = "tun", RowsFit(r), AppsFit(r), NEW prefixes,
         NEW rules, rules = Rules(r, prefixes)
  PROVE  \E s, n, m, k : IsRuleList(rules, r.policy.ipv6, s, n, m, k)
<1>1. PICK X : X = RuleSetOf(r, prefixes)
  OBVIOUS
<1>2. PICK h : h = HealthRule
  OBVIOUS
<1>3. PICK T : T = TunRules(r, prefixes)
  OBVIOUS
<1>4. PICK S : S = SixRules(r)
  OBVIOUS
<1>5. PICK W : W = RowRules(r)
  OBVIOUS
<1>6. PICK A : A = AppsOf(r, "path") \o AppsOf(r, "name")
  OBVIOUS
<1>7. PICK L : L = LanRules(r)
  OBVIOUS
<1>8. rules = <<h>> \o (T \o S \o W \o A \o L)
  BY <1>2, <1>3, <1>4, <1>5, <1>6, <1>7, LaterAre, Zenon DEF Rules
<1>9. h \in X /\ T \in Seq(X) /\ S \in Seq(X) /\ W \in Seq(X) /\ A \in Seq(X) /\ L \in Seq(X)
  <2>1. h \in X
    BY <1>1, <1>2, Zenon DEF RuleSetOf, RuleSet
  <2>2. T \in Seq(X) /\ S \in Seq(X) /\ W \in Seq(X) /\ L \in Seq(X)
    BY <1>1, <1>3, <1>4, <1>5, <1>7, PartsType, Zenon
  <2>3. A \in Seq(X)
    <3>1. AppsOf(r, "path") \in Seq(X) /\ AppsOf(r, "name") \in Seq(X)
      BY <1>1, PartsType, Zenon
    <3>2. \A p, q : p \in Seq(X) /\ q \in Seq(X) => p \o q \in Seq(X)
      OBVIOUS
    <3> QED
      BY <1>6, <3>1, <3>2, Zenon
  <2> QED
    BY <2>1, <2>2, <2>3
<1>10. Len(T) = 2
  <2>1. PICK x : x = TunDnsHijackRule
    OBVIOUS
  <2>2. PICK y : y = OwnPrefixGuard(prefixes)
    OBVIOUS
  <2>3. T = <<x, y>>
    BY <1>3, <2>1, <2>2, Zenon DEF TunRules
  <2> QED
    BY <2>3
<1>11. /\ Len(rules) = 3 + Len(S) + Len(W) + Len(A) + Len(L)
       /\ \A i \in 1..Len(S) : rules[3 + i] = S[i]
       /\ \A i \in 1..Len(W) : rules[3 + Len(S) + i] = W[i]
       /\ \A i \in 1..Len(A) : rules[3 + Len(S) + Len(W) + i] = A[i]
       /\ \A i \in 1..Len(L) : rules[3 + Len(S) + Len(W) + Len(A) + i] = L[i]
  <2>1. ArePlaced(rules, S, W, A, L)
    BY <1>8, <1>9, <1>10, Positions
  <2> QED
    BY <2>1, Zenon DEF ArePlaced
<1>12. Len(S) = (IF r.policy.ipv6 THEN 0 ELSE 1) /\ (Len(S) = 1 => S[1] = Ipv6Guard)
  <2>1. PICK g : g = Ipv6Guard
    OBVIOUS
  <2>2. S = IF r.policy.ipv6 THEN <<>> ELSE <<g>>
    BY <1>4, <2>1, Zenon DEF SixRules
  <2>3. Len(<<>>) = 0 /\ Len(<<g>>) = 1 /\ <<g>>[1] = g
    OBVIOUS
  <2> QED
    BY <2>1, <2>2, <2>3
<1>13. Len(L) \in {0, 1} /\ (Len(L) = 1 => L[1] = LanRule)
  <2>1. PICK g : g = LanRule
    OBVIOUS
  <2>2. L = <<>> \/ L = <<g>>
    BY <1>7, <2>1, Zenon DEF LanRules
  <2>3. Len(<<>>) = 0 /\ Len(<<g>>) = 1 /\ <<g>>[1] = g
    OBVIOUS
  <2> QED
    BY <2>1, <2>2, <2>3
<1>14. Len(W) <= MaxTrafficRules /\ \A i \in 1..Len(W) : \E t : RowFits(t) /\ W[i] = TrafficRule(t)
  <2>1. PICK rows : rows = r.mode.rules
    OBVIOUS
  <2>2. rows \in Seq(Range(rows)) /\ Len(rows) <= MaxTrafficRules /\ \A t \in Range(rows) : RowFits(t)
    BY <2>1, Zenon DEF RequestOK, RowsFit
  <2>3. W = [i \in DOMAIN rows |-> TrafficRule(rows[i])]
    BY <1>5, <2>1, Zenon DEF RowRules, TrafficRules
  <2>4. DOMAIN rows = 1..Len(rows) /\ Len(rows) \in Nat /\ \A i \in 1..Len(rows) : rows[i] \in Range(rows)
    BY <2>2
  <2>5. DOMAIN W = 1..Len(rows) /\ \A i \in 1..Len(rows) : W[i] = TrafficRule(rows[i])
    BY <2>3, <2>4
  <2>6. Len(W) = Len(rows)
    BY <1>9, <2>4, <2>5
  <2> QED
    BY <2>2, <2>4, <2>5, <2>6, Zenon
<1>15. Len(A) <= MaxAppRules /\ \A i \in 1..Len(A) : \E a : AppFits(a) /\ A[i] = AppRule(a)
  BY <1>6, AppsListed
<1>16. Len(W) \in Nat /\ Len(A) \in Nat
  BY <1>9
<1>17. Len(S) = 1 => rules[4] = Ipv6Guard
  <2> SUFFICES ASSUME Len(S) = 1 PROVE rules[4] = Ipv6Guard
    OBVIOUS
  <2>1. 1 \in 1..Len(S) /\ 3 + 1 = 4
    OBVIOUS
  <2> QED
    BY <1>11, <1>12, <2>1, Zenon
<1>18. Len(L) = 1 => rules[3 + Len(S) + Len(W) + Len(A) + 1] = LanRule
  <2> SUFFICES ASSUME Len(L) = 1 PROVE rules[3 + Len(S) + Len(W) + Len(A) + 1] = LanRule
    OBVIOUS
  <2>1. 1 \in 1..Len(L)
    OBVIOUS
  <2> QED
    BY <1>11, <1>13, <2>1, Zenon
<1>19. IsRuleList(rules, r.policy.ipv6, Len(S), Len(W), Len(A), Len(L))
  BY <1>11, <1>12, <1>13, <1>14, <1>15, <1>16, <1>17, <1>18, Zenon DEF IsRuleList
<1> QED
  BY <1>19, Zenon

RuleListOK(rules, ipv6) ==
    LET from == IF ipv6 THEN 4 ELSE 5
    IN  /\ Len(rules) >= 3
        /\ ~ipv6 <=> (Len(rules) >= 4 /\ rules[4] = Ipv6Guard)
        /\ \E t \in from..Len(rules) + 1, a \in from..Len(rules) + 1 :
            /\ t <= a /\ t - from <= MaxTrafficRules /\ a - t <= MaxAppRules
            /\ \A i \in from..t - 1 : Candidate(rules[i]) /\ IsTrafficRule(rules[i])
            /\ \A i \in t..a - 1 :
                ~Candidate(rules[i]) /\ NamesProcess(rules[i]) /\ IsAppRule(rules[i])
            /\ \/ a = Len(rules) + 1
               \/ a = Len(rules) /\ rules[a] = LanRule
LEMMA RuleListPasses ==
  ASSUME NEW rules, NEW ipv6, NEW s, NEW n, NEW m, NEW k, IsRuleList(rules, ipv6, s, n, m, k)
  PROVE  RuleListOK(rules, ipv6)
<1>1. PICK from : from = IF ipv6 THEN 4 ELSE 5
  OBVIOUS
<1>2. /\ Len(rules) = 3 + s + n + m + k /\ s = (IF ipv6 THEN 0 ELSE 1) /\ k \in {0, 1}
      /\ n \in Nat /\ m \in Nat /\ n <= MaxTrafficRules /\ m <= MaxAppRules
      /\ s = 1 => rules[4] = Ipv6Guard
      /\ \A i \in 1..n : \E t : RowFits(t) /\ rules[3 + s + i] = TrafficRule(t)
      /\ \A i \in 1..m : \E a : AppFits(a) /\ rules[3 + s + n + i] = AppRule(a)
      /\ k = 1 => rules[3 + s + n + m + 1] = LanRule
  BY Zenon DEF IsRuleList
<1>3. from = 4 + s /\ s \in {0, 1}
  BY <1>1, <1>2
<1>4. PICK t : t = from + n
  OBVIOUS
<1>5. PICK a : a = t + m
  OBVIOUS
<1>6. /\ t \in from..Len(rules) + 1 /\ a \in from..Len(rules) + 1 /\ t <= a
      /\ t - from = n /\ a - t = m /\ a = 4 + s + n + m /\ Len(rules) >= 3
  BY <1>2, <1>3, <1>4, <1>5
<1>7. \A i \in from..t - 1 : Candidate(rules[i]) /\ IsTrafficRule(rules[i]) /\ "ip_version" \notin DOMAIN rules[i]
  <2> TAKE i \in from..t - 1
  <2>1. i - (3 + s) \in 1..n /\ 3 + s + (i - (3 + s)) = i
    BY <1>2, <1>3, <1>4
  <2>2. PICK row : RowFits(row) /\ rules[i] = TrafficRule(row)
    BY <1>2, <2>1, Zenon
  <2> QED
    BY <2>2, RowPasses, RowFields, Zenon
<1>8. \A i \in t..a - 1 : /\ ~Candidate(rules[i]) /\ NamesProcess(rules[i]) /\ IsAppRule(rules[i])
                          /\ "ip_version" \notin DOMAIN rules[i]
  <2> TAKE i \in t..a - 1
  <2>1. i - (3 + s + n) \in 1..m /\ 3 + s + n + (i - (3 + s + n)) = i
    BY <1>2, <1>3, <1>4, <1>5
  <2>2. PICK app : AppFits(app) /\ rules[i] = AppRule(app)
    BY <1>2, <2>1, Zenon
  <2> QED
    BY <2>2, AppPasses, Zenon
<1>9. \/ a = Len(rules) + 1
      \/ a = Len(rules) /\ rules[a] = LanRule
  <2>1. CASE k = 0
    BY <1>2, <1>3, <1>6, <2>1
  <2>2. CASE k = 1
    <3>1. a = Len(rules) /\ 3 + s + n + m + 1 = a
      BY <1>2, <1>3, <1>6, <2>2
    <3> QED
      BY <1>2, <2>2, <3>1, Zenon
  <2> QED
    BY <1>2, <2>1, <2>2
<1>10. ~ipv6 => Len(rules) >= 4 /\ rules[4] = Ipv6Guard
  BY <1>2, <1>3
<1>11. ASSUME ipv6, Len(rules) >= 4, rules[4] = Ipv6Guard PROVE FALSE
  <2>1. s = 0 /\ from = 4
    BY <1>1, <1>2, <1>11
  <2>2. "ip_version" \in DOMAIN rules[4]
    BY <1>11, GuardAlone, Zenon
  <2>3. 4 \in from..t - 1 \/ 4 \in t..a - 1 \/ a = 4
    BY <1>2, <1>4, <1>5, <2>1
  <2>4. a = 4 => rules[4] = LanRule
    BY <1>9, <1>11
  <2>5. "ip_version" \notin DOMAIN LanRule
    BY GuardAlone
  <2> QED
    BY <1>7, <1>8, <2>2, <2>3, <2>4, <2>5, Zenon
<1>12. ~ipv6 <=> (Len(rules) >= 4 /\ rules[4] = Ipv6Guard)
  BY <1>10, <1>11, Zenon
<1>13. t - from <= MaxTrafficRules /\ a - t <= MaxAppRules
  BY <1>2, <1>6, Zenon
<1>14. /\ \A i \in from..t - 1 : Candidate(rules[i]) /\ IsTrafficRule(rules[i])
       /\ \A i \in t..a - 1 : ~Candidate(rules[i]) /\ NamesProcess(rules[i]) /\ IsAppRule(rules[i])
  BY <1>7, <1>8, Zenon
<1> QED
  BY <1>1, <1>6, <1>9, <1>12, <1>13, <1>14, Zenon DEF RuleListOK

LEMMA RulesPass ==
  ASSUME NEW c, NEW r, NEW alias, NEW b, c.route = RouteOf(r, alias, b),
         RequestOK(r), r.mode.kind = "tun", RowsFit(r), AppsFit(r),
         6 \in Families(c) <=> r.policy.ipv6
  PROVE  RulesAccepted(c)
<1>1. PICK rules : rules = Rules(r, OwnPrefixes(r))
  OBVIOUS
<1>2. PICK final : final = OutboundOf(r.policy.default)
  OBVIOUS
<1>3. IsRoute(c.route, rules, final, b, alias)
  BY <1>1, <1>2, RouteIs, Zenon
<1>4. /\ c.route["rules"] = rules /\ Field(c.route, "final", "") = final
      /\ Field(c.route, "default_domain_resolver", "") = "bootstrap"
  BY <1>3, Zenon DEF IsRoute, Field
<1>5. final \in {"direct", "selected"}
  BY <1>2 DEF OutboundOf
<1>6. PICK s, n, m, k : IsRuleList(rules, r.policy.ipv6, s, n, m, k)
  <2>1. PICK prefixes : prefixes = OwnPrefixes(r)
    OBVIOUS
  <2>2. \E s, n, m, k : IsRuleList(rules, r.policy.ipv6, s, n, m, k)
    BY <1>1, <2>1, RuleListIs
  <2> QED
    BY <2>2
<1>7. IsRuleList(rules, 6 \in Families(c), s, n, m, k)
  BY <1>6, Zenon DEF IsRuleList
<1>8. RuleListOK(rules, 6 \in Families(c))
  BY <1>7, RuleListPasses, Zenon
<1> QED
  BY <1>4, <1>5, <1>8, Zenon DEF RulesAccepted, RuleListOK

-----------------------------------------------------------------------------
(* Each exit of a session is a configuration the helper accepts *)

\* What is known of a request before it is validated.
RequestSound(r) ==
    /\ RequestFields \subseteq DOMAIN r /\ "node" \in DOMAIN r /\ RequestOK(r)
    /\ \A a \in Range(r.policy.apps) : a.by \in {"path", "name"}
    /\ \A t \in Range(r.mode.rules) : t.network \in {"tcp", "udp"} /\ t.action \in {"block", "direct", "vpn"}
    /\ r.mode.stack \in {"system", "gvisor"}
    /\ r.http \in 0..3 /\ r.socks \in 0..3 /\ r.health \in 0..3

LEMMA RequestIsSound ==
  ASSUME ImportInv, NEW i, NEW approval, NEW r, r = RequestFor(i, approval)
  PROVE  RequestSound(r)
<1>1. PICK s \in Scenarios : text = s.text /\ request = s.request
  BY Zenon DEF ImportInv
<1>2. /\ RequestFields \subseteq DOMAIN request
      /\ request.policy.apps \in Seq(Range(request.policy.apps))
      /\ request.mode.rules \in Seq(Range(request.mode.rules))
      /\ \A a \in Range(request.policy.apps) : a.by \in {"path", "name"}
      /\ \A t \in Range(request.mode.rules) :
            t.network \in {"tcp", "udp"} /\ t.action \in {"block", "direct", "vpn"}
      /\ request.mode.stack \in {"system", "gvisor"}
      /\ {request.http, request.socks, request.health} \subseteq 0..3
  BY <1>1, RequestsAssumption, Zenon DEF RequestFields
<1>3. ASSUME NEW k \in RequestFields PROVE r[k] = request[k] /\ k \in DOMAIN r
  <2>1. k \in DOMAIN request /\ k \notin {"node", "approval"}
    BY <1>2 DEF RequestFields
  <2> QED
    BY <2>1, FieldOfRequest
<1>4. /\ r.policy = request.policy /\ r.mode = request.mode
      /\ r.http = request.http /\ r.socks = request.socks /\ r.health = request.health
  BY <1>3 DEF RequestFields
<1>5. "node" \in DOMAIN r
  BY RequestHasNode, Zenon
<1>6. RequestFields \subseteq DOMAIN r
  BY <1>3
<1>7. r.http \in 0..3 /\ r.socks \in 0..3 /\ r.health \in 0..3
  BY <1>2, <1>4
<1> QED
  BY <1>2, <1>4, <1>5, <1>6, <1>7, Zenon DEF RequestSound, RequestOK

\* What the generator has made sure of.
RequestValid(r, alias) ==
    /\ Physical(r, alias) /\ RequestOK(r) /\ PortsFit(r) /\ FamiliesFit(r) /\ RowsFit(r) /\ AppsFit(r)
    /\ r.mode.stack \in {"system", "gvisor"}

LEMMA RequestIsValid ==
  ASSUME NEW r, RequestSound(r), r.mode.kind = "tun", NEW n, RequestFits([r EXCEPT !.node = n])
  PROVE  RequestValid(r, r.upstream.alias)
<1>1. PICK q : q = [r EXCEPT !.node = n]
  OBVIOUS
<1>2. q.policy = r.policy /\ q.mode = r.mode /\ q.upstream = r.upstream
  BY <1>1 DEF RequestSound, RequestFields
<1>3. /\ PolicyFits(r.policy) /\ UpstreamFits(r.upstream) /\ Private(r.mode.ipv4, 4)
      /\ TrafficRulesFit(r.mode.rules) /\ (r.policy.ipv6 => Private(r.mode.ipv6, 6))
  BY <1>1, <1>2, Zenon DEF RequestFits
<1>4. Physical(r, r.upstream.alias)
  BY <1>3 DEF Physical, UpstreamFits
<1>5. PortsFit(r)
  <2>1. r.http \in 0..3 /\ r.socks \in 0..3 /\ r.health \in 0..3
    BY Zenon DEF RequestSound
  <2>2. q.http = r.http /\ q.socks = r.socks /\ q.health = r.health
    BY <1>1 DEF RequestSound, RequestFields
  <2>3. IsInjective(<<r.http, r.socks, r.health>>) /\ 0 \notin Range(<<r.http, r.socks, r.health>>)
    BY <1>1, <2>2, Zenon DEF RequestFits, Ports
  <2>4. PICK l : l = <<r.http, r.socks, r.health>>
    OBVIOUS
  <2>8. DOMAIN l = {1, 2, 3}
    BY <2>4
  <2>5. \A i, k \in {1, 2, 3} : l[i] = l[k] => i = k
    BY <2>3, <2>4, <2>8, Zenon DEF IsInjective
  <2>6. l[1] = r.http /\ l[2] = r.socks /\ l[3] = r.health
    BY <2>4
  <2>7. r.http # r.socks /\ r.http # r.health /\ r.socks # r.health
    BY <2>5, <2>6
  <2>9. r.http # 0 /\ r.socks # 0 /\ r.health # 0
    <3>1. \A i \in {1, 2, 3} : l[i] \in Range(l)
      BY <2>8 DEF Range
    <3> QED
      BY <2>3, <2>4, <2>6, <3>1
  <2>10. r.http \in 1..3 /\ r.socks \in 1..3 /\ r.health \in 1..3
    BY <2>1, <2>9
  <2> QED
    BY <2>7, <2>10, Zenon DEF PortsFit
<1>6. FamiliesFit(r)
  BY <1>3, Zenon DEF FamiliesFit, Private
<1>7. RowsFit(r)
  <2>1. PICK rows : rows = r.mode.rules
    OBVIOUS
  <2>2. Len(rows) <= MaxTrafficRules /\ \A i \in DOMAIN rows : rows[i].port \notin {0, 53}
    BY <1>3, <2>1, Zenon DEF TrafficRulesFit
  <2>3. \A t \in Range(rows) : t.network \in {"tcp", "udp"} /\ t.action \in {"block", "direct", "vpn"}
    BY <2>1, Zenon DEF RequestSound
  <2>4. \A t \in Range(rows) : t.port \notin {0, 53}
    BY <2>2, Zenon DEF Range
  <2> QED
    BY <2>1, <2>2, <2>3, <2>4, Zenon DEF RowsFit, RowFits
<1>8. AppsFit(r)
  <2>1. PICK apps : apps = r.policy.apps
    OBVIOUS
  <2>2. /\ Len(apps) <= MaxAppRules
        /\ \A i \in DOMAIN apps : apps[i].path # "bad" /\ (apps[i].by = "name" => apps[i].name # "bad")
    BY <1>3, <2>1, Zenon DEF PolicyFits
  <2>3. \A a \in Range(apps) : a.by \in {"path", "name"}
    BY <2>1, Zenon DEF RequestSound
  <2>4. \A a \in Range(apps) : a.path # "bad" /\ (a.by = "name" => a.name # "bad")
    BY <2>2, Zenon DEF Range
  <2> QED
    BY <2>1, <2>2, <2>3, <2>4, Zenon DEF AppsFit, AppFits
<1> QED
  BY <1>4, <1>5, <1>6, <1>7, <1>8, Zenon DEF RequestValid, RequestSound

LEMMA SelectedFits ==
  ASSUME NEW n, NodeFits(n), n.kind \in {"vless", "hysteria2", "naive"}, NEW udp_over_tcp
  PROVE  ExitFits(SelectedOutbound(n, udp_over_tcp))
<1>1. CASE n.kind = "vless"
  <2>1. SelectedOutbound(n, udp_over_tcp) = VlessOutbound(n)
    BY <1>1 DEF SelectedOutbound
  <2> QED
    BY <1>1, <2>1, VlessSchema, Zenon
<1>2. CASE n.kind = "hysteria2"
  <2>1. SelectedOutbound(n, udp_over_tcp) = HysteriaOutbound(n)
    BY <1>2 DEF SelectedOutbound
  <2> QED
    BY <1>2, <2>1, HysteriaSchema, Zenon
<1>3. CASE n.kind = "naive"
  <2>1. SelectedOutbound(n, udp_over_tcp) = NaiveOutbound(n, udp_over_tcp)
    BY <1>3 DEF SelectedOutbound
  <2> QED
    BY <1>3, <2>1, NaiveSchema, Zenon
<1> QED
  BY <1>1, <1>2, <1>3

\* The exit a configuration is made for.
Fronts(o, n, port) ==
    /\ ExitFits(o) /\ (o["type"] = "socks" <=> IsReality(n))
    /\ IsReality(n) => /\ "bridge_port" \in DOMAIN o /\ o["bridge_port"] = port
                       /\ "server" \in DOMAIN o /\ o["server"] = Loopback

LEMMA FrontsAfter ==
  ASSUME NEW e, NEW n, NEW port, Fronts(e, n, port), NEW r, NEW o, o = ExitOf(r, e)
  PROVE  Fronts(o, n, port)
<1>1. PICK b : b = ThroughVpn(r)
  OBVIOUS
<1>2. o = e @@ When(b, "domain_resolver" :> "bootstrap") /\ ExitFits(e)
  BY <1>1, Zenon DEF ExitOf, Fronts
<1>3. ExitFits(o) /\ \A x \in DOMAIN e : x \in DOMAIN o /\ o[x] = e[x]
  BY <1>2, ResolverFits, Zenon
<1>4. "type" \in DOMAIN e
  BY <1>2, Zenon DEF ExitFits
<1> QED
  BY <1>3, <1>4, Zenon DEF Fronts

\* An exit of a session, on its own.
ExitOK(c, r, n, port) ==
    /\ NoDirectHealth(c) /\ OwnPrefixesGuarded(c, OwnPrefixes(r))
    /\ RequestValid(r, r.upstream.alias)
    /\ \E o, b : Fronts(o, n, port) /\ SingleFits(c, r, r.upstream.alias, o, b)

LEMMA GeneratedOK ==
  ASSUME NEW r, RequestSound(r), r.mode.kind = "tun", NEW n, NEW port, NEW e, Fronts(e, n, port),
         NEW b, b \in BOOLEAN, b <=> IsReality(n),
         NEW c, c = Generated([r EXCEPT !.node = n], e, b), c # NoConfig
  PROVE  ExitOK(c, r, n, port)
<1>1. PICK q : q = [r EXCEPT !.node = n]
  OBVIOUS
<1>2. q.policy = r.policy /\ q.mode = r.mode
  BY <1>1 DEF RequestSound, RequestFields
<1>3. /\ c = Root(q, e, b) /\ RequestFits(q) /\ NoDirectHealth(c)
      /\ OwnPrefixesGuarded(c, OwnPrefixes(q))
  BY <1>1, <1>2, Zenon DEF Generated
<1>4. OwnPrefixes(q) = OwnPrefixes(r)
  BY <1>2, Zenon DEF OwnPrefixes, TunAddresses
<1>5. PICK alias : alias = r.upstream.alias
  OBVIOUS
<1>6. RequestValid(r, alias)
  BY <1>1, <1>3, <1>5, RequestIsValid, Zenon
<1>7. Root(q, e, b) = Root(r, e, b)
  <2>1. RequestFields \subseteq DOMAIN r
    BY Zenon DEF RequestSound
  <2>2. \A bridged : Root([r EXCEPT !.node = n], e, bridged) = Root(r, e, bridged)
    BY <2>1, RootSame
  <2> QED
    BY <1>1, <2>2, Zenon
<1>8. PICK o : o = ExitOf(r, e)
  OBVIOUS
<1>9. Fronts(o, n, port)
  BY <1>8, FrontsAfter
<1>10. IsSingle(c, r, alias, o, b)
  <2>1. Physical(r, alias)
    BY <1>6, Zenon DEF RequestValid
  <2>2. \A bridged : Root(r, e, bridged) =
            [dns |-> DnsOf(r, bridged), inbounds |-> Inbounds(r),
             outbounds |-> <<ExitOf(r, e), DirectOf(alias, bridged)>>,
             route |-> RouteOf(r, alias, bridged)]
    BY <2>1, RootIs, Zenon
  <2> QED
    BY <1>3, <1>7, <1>8, <2>2, Zenon DEF IsSingle
<1>11. SingleFits(c, r, alias, o, b)
  BY <1>6, <1>9, <1>10, Zenon DEF SingleFits, RequestValid, Fronts
<1> QED
  BY <1>3, <1>4, <1>5, <1>6, <1>9, <1>11, Zenon DEF ExitOK

LEMMA ExitIsOK ==
  ASSUME NEW r, RequestSound(r), r.mode.kind = "tun", NEW n, NodeFits(n),
         NodeShape(n), ProtocolValid(n), NEW port \in Nat, port > 0,
         NEW c, c = ExitConfig(r, n, port), c # NoConfig
  PROVE  ExitOK(c, r, n, port)
<1>1. PICK q : q = [r EXCEPT !.node = n]
  OBVIOUS
<1>2. q.node = n
  BY <1>1 DEF RequestSound
<1>3. CASE ~IsReality(n)
  <2>1. PICK e : e = SelectedOutbound(n, q.udp_over_tcp)
    OBVIOUS
  <2>2. c = Generated(q, e, FALSE)
    BY <1>1, <1>2, <1>3, <2>1, Zenon DEF ExitConfig, Generate
  <2>3. ExitFits(e)
    <3>1. n.kind \in {"vless", "hysteria2", "naive"}
      BY Zenon DEF NodeShape
    <3> QED
      BY <2>1, <3>1, SelectedFits, Zenon
  <2>4. e["type"] # "socks"
    BY <2>1, SelectedSays, Zenon DEF Says
  <2>5. Fronts(e, n, port)
    BY <1>3, <2>3, <2>4, Zenon DEF Fronts
  <2>6. PICK b : b = FALSE
    OBVIOUS
  <2>7. b \in BOOLEAN /\ (b <=> IsReality(n)) /\ c = Generated(q, e, b)
    BY <1>3, <2>2, <2>6
  <2> QED
    BY <1>1, <2>5, <2>7, GeneratedOK
<1>4. CASE IsReality(n)
  <2>1. PICK e : e = SocksBridge(port)
    OBVIOUS
  <2>2. c = Generated(q, e, TRUE)
    BY <1>1, <1>2, <1>4, <2>1, Zenon DEF ExitConfig, GenerateBridge
  <2>3. Fronts(e, n, port)
    BY <1>4, <2>1, BridgeSchema DEF Fronts
  <2>6. PICK b : b = TRUE
    OBVIOUS
  <2>7. b \in BOOLEAN /\ (b <=> IsReality(n)) /\ c = Generated(q, e, b)
    BY <1>4, <2>2, <2>6
  <2> QED
    BY <1>1, <2>3, <2>7, GeneratedOK
<1> QED
  BY <1>3, <1>4

LEMMA ExitPasses ==
  ASSUME NEW c, NEW r, NEW n, NEW port, ExitOK(c, r, n, port)
  PROVE  NoDirectHealth(c) /\ SingleAccepted(c, r.upstream.alias, r.upstream.dns)
<1>1. PICK alias : alias = r.upstream.alias
  OBVIOUS
<1>2. PICK o, b : Fronts(o, n, port) /\ SingleFits(c, r, alias, o, b)
  BY <1>1, Zenon DEF ExitOK
<1>3. /\ NoDirectHealth(c) /\ OwnPrefixesGuarded(c, OwnPrefixes(r)) /\ RequestValid(r, alias)
  BY <1>1, Zenon DEF ExitOK
<1>4. /\ RequestOK(r) /\ FamiliesFit(r) /\ RowsFit(r) /\ AppsFit(r)
      /\ r.mode.stack \in {"system", "gvisor"}
  BY <1>3, Zenon DEF RequestValid
<1>5. IsSingle(c, r, alias, o, b) /\ r.mode.kind = "tun"
  BY <1>2, Zenon DEF SingleFits
<1>6. c.inbounds = Inbounds(r) /\ c.route = RouteOf(r, alias, b)
  <2>1. IsSingle(c, r, alias, o, b)
    BY <1>5
  <2> QED
    BY <2>1, SingleParts
<1>7. AreInbounds(c.inbounds, r)
  BY <1>5, <1>6, InboundsAre, Zenon
<1>8. /\ InboundsAccepted(c) /\ (6 \in Families(c) <=> r.policy.ipv6)
      /\ ExpectedPrefixes(c) = OwnPrefixes(r)
  BY <1>4, <1>7, InboundsPass, Zenon
<1>9. FieldsInSchema(c)
  BY <1>2, SingleInSchema
<1>10. UpstreamAccepted(c, alias, r.upstream.dns)
  <2>1. b => o["server"] = Loopback
    BY <1>2, Zenon DEF Fronts, SingleFits
  <2> QED
    BY <1>2, <2>1, UpstreamPass, Zenon
<1>11. RulesAccepted(c)
  BY <1>4, <1>5, <1>6, <1>8, RulesPass, Zenon
<1>12. DnsHijacked(c) /\ OwnPrefixesGuarded(c, ExpectedPrefixes(c))
  BY <1>3, <1>8, Zenon DEF OwnPrefixesGuarded
<1> QED
  BY <1>1, <1>3, <1>8, <1>9, <1>10, <1>11, <1>12, Zenon DEF SingleAccepted

\* What the combined configuration says of an exit.
IsBound(e, o, i, alias) ==
    /\ e["tag"] = NodeTag(i) /\ e["type"] = o["type"]
    /\ "bridge_port" \in DOMAIN o => e["bridge_port"] = o["bridge_port"]
    /\ IF o["type"] = "socks" THEN "bind_interface" \notin DOMAIN e
       ELSE Field(e, "bind_interface", "") = alias
LEMMA BoundExitIs ==
  ASSUME NEW config, NEW o, config.outbounds[1] = o, ExitFits(o), NEW i, NEW alias,
         NEW e, e = BoundExit(config, i, alias)
  PROVE  IsBound(e, o, i, alias)
<1>1. PICK t : t = "tag" :> NodeTag(i)
  OBVIOUS
<1>2. PICK f : f = When(o["type"] # "socks", "bind_interface" :> alias)
  OBVIOUS
<1>3. PICK m : m = t @@ o
  OBVIOUS
<1>4. e = m @@ f
  BY <1>1, <1>2, <1>3, Zenon DEF BoundExit
<1>5. /\ IsPart(t, TRUE, "tag", NodeTag(i)) /\ IsPart(f, o["type"] # "socks", "bind_interface", alias)
      /\ IsMerge(m, t, o) /\ IsMerge(e, m, f)
  BY <1>1, <1>2, <1>3, <1>4, PartIs, WhenIs, MergeIs, Zenon
<1>6. "type" \in DOMAIN o /\ "bind_interface" \notin DOMAIN o
  BY ExitTypes, Zenon DEF ExitFits
<1>7. "type" # "tag" /\ "bridge_port" # "tag" /\ "bind_interface" # "tag"
  OBVIOUS
<1>8. "tag" \in DOMAIN m /\ m["tag"] = NodeTag(i)
  BY <1>5, Zenon DEF IsPart, IsMerge
<1>9. \A x \in DOMAIN o : x # "tag" => x \in DOMAIN m /\ m[x] = o[x]
  BY <1>5, Zenon DEF IsPart, IsMerge
<1>10. \A x \in DOMAIN m : x \in DOMAIN e /\ e[x] = m[x]
  BY <1>5, Zenon DEF IsMerge
<1>11. "bind_interface" \notin DOMAIN m
  BY <1>5, <1>6, <1>7, Zenon DEF IsPart, IsMerge
<1>12. CASE o["type"] = "socks"
  <2>1. "bind_interface" \notin DOMAIN e
    BY <1>5, <1>11, <1>12, Zenon DEF IsPart, IsMerge
  <2> QED
    BY <1>6, <1>7, <1>8, <1>9, <1>10, <1>12, <2>1, Zenon DEF IsBound
<1>13. CASE o["type"] # "socks"
  <2>1. "bind_interface" \in DOMAIN e /\ e["bind_interface"] = alias
    BY <1>5, <1>11, <1>13, Zenon DEF IsPart, IsMerge
  <2> QED
    BY <1>6, <1>7, <1>8, <1>9, <1>10, <1>13, <2>1, Zenon DEF Field, IsBound
<1> QED
  BY <1>12, <1>13

\* The outbounds of a session.
LEMMA OutboundsAre ==
  ASSUME NEW configs, NEW n \in Nat, Len(configs) = n, NEW control, NEW candidate, NEW alias,
         NEW c, c = CombineConfigs(configs, control, candidate, alias)
  PROVE  /\ Len(c.outbounds) = n + 3 /\ DOMAIN c.outbounds = 1..(n + 3)
         /\ c.outbounds[1] = Selector("selected", n) /\ c.outbounds[2] = Selector("candidate", n)
         /\ c.outbounds[3] = BoundDirect(alias)
<1>1. PICK a : a = Selector("selected", n)
  OBVIOUS
<1>2. PICK b : b = Selector("candidate", n)
  OBVIOUS
<1>3. PICK d : d = BoundDirect(alias)
  OBVIOUS
<1>4. PICK l : l = [i \in 1..n |-> BoundExit(configs[i], i, alias)]
  OBVIOUS
<1>5. PICK X : X = {a, b, d} \cup Range(l)
  OBVIOUS
<1>6. DOMAIN l = 1..n /\ l = [i \in 1..n |-> l[i]]
  BY <1>4
<1>7. l \in Seq(Range(l)) /\ Len(l) = n
  BY <1>6, ListIsSeq
<1>8. l \in Seq(X) /\ <<a, b, d>> \in Seq(X)
  BY <1>5, <1>7
<1>9. PICK h : h = <<a, b, d>>
  OBVIOUS
<1>10. c.outbounds = h \o l
  BY <1>1, <1>2, <1>3, <1>4, <1>9 DEF CombineConfigs
<1>11. h \in Seq(X) /\ Len(h) = 3 /\ h[1] = a /\ h[2] = b /\ h[3] = d
  BY <1>8, <1>9
<1>12. PICK q : q = h \o l
  OBVIOUS
<1>13. q \in Seq(X) /\ IsBoth(q, h, l)
  BY <1>8, <1>11, <1>12, OneAfterOther
<1>14. Len(q) = n + 3 /\ q[1] = a /\ q[2] = b /\ q[3] = d
  BY <1>7, <1>11, <1>13 DEF IsBoth
<1>15. DOMAIN q = 1..(n + 3)
  BY <1>13, <1>14
<1> QED
  BY <1>1, <1>2, <1>3, <1>10, <1>12, <1>14, <1>15, Zenon

-----------------------------------------------------------------------------
(* A session is a configuration the helper accepts *)

\* Exits the generator made, put together: r is the request, the k-th is for nodes[k].
Session(c, configs, n, r, alias, nodes, ports) ==
    /\ n \in Nat /\ n >= 1 /\ n <= MaxSwitchNodes /\ DOMAIN configs = 1..n /\ Len(configs) = n
    /\ alias = r.upstream.alias
    /\ \A k \in 1..n : /\ ExitOK(configs[k], r, nodes[k], ports[k])
                       /\ ports[k] \in Nat /\ ports[k] > 10
    /\ \A k, m \in 1..n : ports[k] = ports[m] => k = m
    /\ c = CombineConfigs(configs, [port |-> 4, secret |-> "ok"], 5, alias)

\* One of them, as it was made.
LEMMA SessionConfigs ==
  ASSUME NEW c, NEW configs, NEW n, NEW r, NEW alias, NEW nodes, NEW ports,
         Session(c, configs, n, r, alias, nodes, ports), NEW k \in 1..n
  PROVE  /\ ExitOK(configs[k], r, nodes[k], ports[k]) /\ RequestValid(r, alias)
         /\ \E o, b : Fronts(o, nodes[k], ports[k]) /\ SingleFits(configs[k], r, alias, o, b)
<1>1. ExitOK(configs[k], r, nodes[k], ports[k]) /\ alias = r.upstream.alias
  BY Zenon DEF Session
<1> QED
  BY <1>1, Zenon DEF ExitOK

LEMMA SessionHas ==
  ASSUME NEW c, NEW configs, NEW n, NEW r, NEW alias, NEW nodes, NEW ports,
         Session(c, configs, n, r, alias, nodes, ports), NEW k \in 1..n,
         NEW e, e = c.outbounds[k + 3]
  PROVE  /\ Switches(c) /\ ExitAccepted(e, k, alias)
         /\ e["type"] = "socks" => e["bridge_port"] = ports[k]
<1>1. PICK o, b : Fronts(o, nodes[k], ports[k]) /\ SingleFits(configs[k], r, alias, o, b)
  BY SessionConfigs, Zenon
<1>2. PICK config : config = configs[k]
  OBVIOUS
<1>3. config.outbounds[1] = o /\ ExitFits(o)
  <2>1. IsSingle(config, r, alias, o, b) /\ ExitFits(o)
    BY <1>1, <1>2, Zenon DEF SingleFits
  <2> QED
    BY <2>1, SingleExit, Zenon
<1>4. PICK control : control = [port |-> 4, secret |-> "ok"]
  OBVIOUS
<1>5. Switches(c) /\ e = BoundExit(config, k, alias)
  <2>1. /\ n \in Nat /\ DOMAIN configs = 1..n /\ Len(configs) = n
        /\ c = CombineConfigs(configs, control, 5, alias)
    BY <1>4, Zenon DEF Session
  <2> QED
    BY <1>2, <2>1, CombinedExit
<1>6. /\ e["tag"] = NodeTag(k) /\ e["type"] = o["type"]
      /\ "bridge_port" \in DOMAIN o => e["bridge_port"] = o["bridge_port"]
      /\ IF o["type"] = "socks" THEN "bind_interface" \notin DOMAIN e
         ELSE Field(e, "bind_interface", "") = alias
  <2>1. IsBound(e, o, k, alias)
    BY <1>3, <1>5, BoundExitIs
  <2> QED
    BY <2>1, Zenon DEF IsBound
<1>7. o["type"] \in {"socks", "vless", "hysteria2", "naive"}
  BY <1>3, ExitTypes
<1>8. e["type"] \in {"vless", "hysteria2", "naive", "socks"}
  BY <1>6, <1>7
<1>9. e["type"] = "socks" => e["bridge_port"] = ports[k]
  BY <1>1, <1>6, Zenon DEF Fronts
<1> QED
  BY <1>5, <1>6, <1>8, <1>9, Zenon DEF ExitAccepted

\* What a session shares.
LEMMA SessionShares ==
  ASSUME NEW c, NEW configs, NEW n, NEW r, NEW alias, NEW nodes, NEW ports,
         Session(c, configs, n, r, alias, nodes, ports)
  PROVE  /\ Physical(r, alias) /\ RequestOK(r) /\ PortsFit(r) /\ r.mode.kind = "tun"
         /\ \E b : IsSession(c, r, alias, b, [port |-> 4, secret |-> "ok"], 5)
<1>1. n \in Nat /\ n >= 1
  BY Zenon DEF Session
<1>2. 1 \in 1..n
  BY <1>1
<1>3. PICK k \in 1..n : k = 1
  BY <1>2
<1>4. PICK o, b : Fronts(o, nodes[k], ports[k]) /\ SingleFits(configs[k], r, alias, o, b)
  BY SessionConfigs, Zenon
<1>5. /\ IsSingle(configs[1], r, alias, o, b) /\ Physical(r, alias) /\ RequestOK(r)
      /\ PortsFit(r) /\ r.mode.kind = "tun"
  BY <1>3, <1>4, Zenon DEF SingleFits
<1>6. PICK control : control = [port |-> 4, secret |-> "ok"]
  OBVIOUS
<1>7. c = CombineConfigs(configs, control, 5, alias)
  BY <1>6, Zenon DEF Session
<1>8. IsSession(c, r, alias, b, control, 5)
  BY <1>5, <1>7, CombinedParts
<1> QED
  BY <1>5, <1>6, <1>8, Zenon

\* The listeners of a session, and their ports.
LEMMA SessionInbounds ==
  ASSUME NEW c, NEW configs, NEW n, NEW r, NEW alias, NEW nodes, NEW ports,
         Session(c, configs, n, r, alias, nodes, ports)
  PROVE  /\ Len(c.inbounds) = 5 /\ DOMAIN c.inbounds = 1..5 /\ Has(c.inbounds, "health-in")
         /\ c.inbounds[5] = CandidateInbound(5)
         /\ Listeners(c) = {1, 2, 3, 5}
         /\ c.inbounds[1]["listen_port"] = r.http /\ c.inbounds[2]["listen_port"] = r.socks
         /\ c.inbounds[3]["listen_port"] = r.health /\ c.inbounds[5]["listen_port"] = 5
<1>1. r.mode.kind = "tun" /\ \E b : IsSession(c, r, alias, b, [port |-> 4, secret |-> "ok"], 5)
  BY SessionShares, Zenon
<1>2. PICK x : x = CandidateInbound(5)
  OBVIOUS
<1>3. PICK l : l = c.inbounds
  OBVIOUS
<1>4. PICK s : s = Inbounds(r)
  OBVIOUS
<1>5. l = Append(s, x)
  BY <1>1, <1>2, <1>3, <1>4, Zenon DEF IsSession
<1>6. AreInbounds(s, r)
  BY <1>1, <1>4, InboundsAre
<1>7. Len(l) = 5 /\ l[5] = x /\ \A i \in 1..4 : l[i] = s[i]
  BY <1>1, <1>4, <1>5, InboundsUndone, Zenon
<1>8. IsListener(x, "http", "candidate-in", 5, TRUE)
  <2>1. PICK port : port = 5
    OBVIOUS
  <2>2. IsListener(x, "http", "candidate-in", port, TRUE)
    BY <1>2, <2>1, AuthenticatedIs, Zenon DEF CandidateInbound
  <2> QED
    BY <2>1, <2>2
<1>9. DOMAIN l = 1..5
  <2>1. s \in Seq(Range(s) \cup {x})
    <3>1. DOMAIN s = 1..4 /\ s = [i \in 1..4 |-> s[i]]
      <4>1. PICK a : a = Listener("http", "http-in", r.http)
        OBVIOUS
      <4>2. PICK b : b = Listener("socks", "socks-in", r.socks)
        OBVIOUS
      <4>3. PICK h : h = Listener("http", "health-in", r.health) @@ Authenticated
        OBVIOUS
      <4>4. PICK t : t = TunInbound(r)
        OBVIOUS
      <4>5. s = <<a, b, h, t>>
        BY <1>1, <1>4, <4>1, <4>2, <4>3, <4>4, InboundsUndone, Zenon
      <4> QED
        BY <4>5
    <3>2. s \in Seq(Range(s))
      BY <3>1, ListIsSeq
    <3> QED
      BY <3>2
  <2> QED
    BY <1>5, <1>7, <2>1
<1>10. l[1] = s[1] /\ l[2] = s[2] /\ l[3] = s[3] /\ l[4] = s[4]
  BY <1>7
<1>11. /\ l[1]["type"] = "http" /\ l[2]["type"] = "socks" /\ l[3]["type"] = "http"
       /\ l[4]["type"] = "tun" /\ l[5]["type"] = "http"
       /\ l[1]["listen_port"] = r.http /\ l[2]["listen_port"] = r.socks
       /\ l[3]["listen_port"] = r.health /\ l[5]["listen_port"] = 5
       /\ "tag" \in DOMAIN l[3] /\ l[3]["tag"] = "health-in"
  BY <1>6, <1>7, <1>8, <1>10, ZenonT(60) DEF AreInbounds, IsListener, IsTunInbound
<1>12. Listeners(c) = {1, 2, 3, 5}
  <2>1. \A i : i \in 1..5 <=> i \in {1, 2, 3, 4, 5}
    OBVIOUS
  <2>2. "http" # "tun" /\ "socks" # "tun"
    OBVIOUS
  <2>3. \A i \in 1..5 : l[i]["type"] # "tun" <=> i \in {1, 2, 3, 5}
    BY <1>11, <2>1, <2>2
  <2>4. {1, 2, 3, 5} \subseteq 1..5
    OBVIOUS
  <2>5. Listeners(c) = {i \in 1..5 : l[i]["type"] # "tun"}
    BY <1>3, <1>9, Zenon DEF Listeners
  <2> QED
    BY <2>3, <2>4, <2>5
<1>13. Has(l, "health-in")
  <2>1. 3 \in DOMAIN l
    BY <1>9
  <2>2. 3 \in Tagged(l, "health-in")
    BY <1>11, <2>1, Zenon DEF Tagged, Field
  <2> QED
    BY <2>2, Zenon DEF Has
<1> QED
  BY <1>2, <1>3, <1>7, <1>9, <1>11, <1>12, <1>13, Zenon

LEMMA SessionPorts ==
  ASSUME NEW c, NEW configs, NEW n, NEW r, NEW alias, NEW nodes, NEW ports,
         Session(c, configs, n, r, alias, nodes, ports), Len(c.outbounds) = n + 3,
         c.control.port = 4
  PROVE  PortsApart(c)
<1>1. /\ Listeners(c) = {1, 2, 3, 5}
      /\ c.inbounds[1]["listen_port"] = r.http /\ c.inbounds[2]["listen_port"] = r.socks
      /\ c.inbounds[3]["listen_port"] = r.health /\ c.inbounds[5]["listen_port"] = 5
  BY SessionInbounds, Zenon
<1>2. /\ r.http \in 1..3 /\ r.socks \in 1..3 /\ r.health \in 1..3
      /\ r.http # r.socks /\ r.http # r.health /\ r.socks # r.health
  BY SessionShares, Zenon DEF PortsFit
<1>3. n \in Nat /\ \A k \in 1..n : ports[k] \in Nat /\ ports[k] > 10
  BY Zenon DEF Session
<1>4. \A k, m \in 1..n : ports[k] = ports[m] => k = m
  BY Zenon DEF Session
<1>5. ASSUME NEW i \in Bridges(c)
      PROVE  /\ i - 3 \in 1..n /\ i \in Nat
             /\ c.outbounds[i]["bridge_port"] = ports[i - 3]
  <2>1. i \in 4..(n + 3) /\ c.outbounds[i]["type"] = "socks"
    BY DEF Bridges
  <2>2. PICK k \in 1..n : i = k + 3
    <3>1. i - 3 \in 1..n /\ i = (i - 3) + 3
      BY <1>3, <2>1
    <3> QED
      BY <3>1
  <2>3. PICK e : e = c.outbounds[k + 3]
    OBVIOUS
  <2>4. e["type"] = "socks" => e["bridge_port"] = ports[k]
    BY <2>3, SessionHas
  <2>5. c.outbounds[i]["bridge_port"] = ports[k]
    BY <2>1, <2>2, <2>3, <2>4, Zenon
  <2>6. i - 3 = k /\ i \in Nat
    BY <1>3, <2>2
  <2> QED
    BY <2>5, <2>6
<1> DEFINE listen(i) == c.inbounds[i]["listen_port"]
           bridge(i) == c.outbounds[i]["bridge_port"]
<1>6. \A i \in Listeners(c) : listen(i) \in 1..5 /\ listen(i) # 4
  BY <1>1, <1>2
<1>7. \A i, k \in Listeners(c) : listen(i) = listen(k) => i = k
  BY <1>1, <1>2
<1>8. \A i \in Bridges(c) : bridge(i) \in Nat /\ bridge(i) > 10
  <2> SUFFICES ASSUME NEW i \in Bridges(c) PROVE bridge(i) \in Nat /\ bridge(i) > 10
    OBVIOUS
  <2>1. i - 3 \in 1..n /\ bridge(i) = ports[i - 3]
    BY <1>5
  <2> QED
    BY <1>3, <2>1
<1>9. \A i, k \in Bridges(c) : bridge(i) = bridge(k) => i = k
  <2> SUFFICES ASSUME NEW i \in Bridges(c), NEW k \in Bridges(c), bridge(i) = bridge(k) PROVE i = k
    OBVIOUS
  <2>1. /\ i - 3 \in 1..n /\ k - 3 \in 1..n /\ i \in Nat /\ k \in Nat
        /\ ports[i - 3] = ports[k - 3]
    BY <1>5
  <2>2. i - 3 = k - 3
    BY <1>4, <2>1
  <2> QED
    BY <2>1, <2>2
<1> HIDE DEF listen, bridge
<1>10. \A i \in Bridges(c) : bridge(i) # 4 /\ \A k \in Listeners(c) : listen(k) # bridge(i)
  BY <1>6, <1>8
<1>11. \A i \in Listeners(c) : listen(i) # c.control.port
  BY <1>6
<1>12. \A i \in Bridges(c) : bridge(i) # c.control.port
  BY <1>10
<1> QED
  BY <1>7, <1>9, <1>10, <1>11, <1>12, Zenon DEF PortsApart, listen, bridge

LEMMA SplitPasses ==
  ASSUME NEW c, NEW configs, NEW n, NEW r, NEW alias, NEW nodes, NEW ports,
         Session(c, configs, n, r, alias, nodes, ports)
  PROVE  SplitAccepted(c, alias) /\ ExitCount(c) = n /\ Switches(c)
<1>1. /\ n \in Nat /\ n >= 1 /\ n <= MaxSwitchNodes /\ Len(configs) = n
  BY Zenon DEF Session
<1>2. PICK control : control = [port |-> 4, secret |-> "ok"]
  OBVIOUS
<1>3. c = CombineConfigs(configs, control, 5, alias)
  BY <1>2, Zenon DEF Session
<1>4. /\ Len(c.outbounds) = n + 3
      /\ c.outbounds[1] = Selector("selected", n) /\ c.outbounds[2] = Selector("candidate", n)
      /\ c.outbounds[3] = BoundDirect(alias)
  BY <1>1, <1>3, OutboundsAre
<1>5. ExitCount(c) = n
  BY <1>1, <1>4 DEF ExitCount
<1>6. n \in 1..MaxSwitchNodes
  BY <1>1, TagsAssumption
<1>7. /\ Physical(r, alias) /\ RequestOK(r)
      /\ \E b : IsSession(c, r, alias, b, [port |-> 4, secret |-> "ok"], 5)
  BY SessionShares, Zenon
<1>8. PICK b : IsSession(c, r, alias, b, control, 5)
  BY <1>2, <1>7
<1>9. c.control.port = 4 /\ c.control.secret = "ok"
  <2>1. c.control = control
    BY <1>8, Zenon DEF IsSession
  <2> QED
    BY <1>2, <2>1
<1>10. /\ "default_interface" \notin DOMAIN c.route
       /\ Len(c.route["rules"]) >= 2 /\ c.route["rules"][2] = CandidateRule
  <2>1. PICK f : f = c.route
    OBVIOUS
  <2>2. f = SessionRoute(r, alias, b)
    BY <1>8, <2>1, Zenon DEF IsSession
  <2>3. PICK rules : rules = Rules(r, OwnPrefixes(r))
    OBVIOUS
  <2>4. /\ Len(f["rules"]) = Len(rules) + 1 /\ f["rules"][2] = CandidateRule
        /\ "default_interface" \notin DOMAIN f
    BY <1>7, <2>2, <2>3, SessionRoutes, Zenon
  <2>5. Len(rules) \in Nat /\ Len(rules) >= 1
    <3>1. PICK X : X = RuleSetOf(r, OwnPrefixes(r))
      OBVIOUS
    <3>2. rules \in Seq(X) /\ rules # <<>>
      BY <1>7, <2>3, <3>1, RulesType, Zenon
    <3> QED
      BY <3>2
  <2>6. Len(f["rules"]) >= 2
    BY <2>4, <2>5
  <2> QED
    BY <2>1, <2>4, <2>6, Zenon
<1>11. Field(c.dns.servers[1], "bind_interface", "") = alias
  <2>1. PICK t : t = TRUE
    OBVIOUS
  <2>2. PICK x : x = BootstrapDns(r, t)
    OBVIOUS
  <2>3. IsBootstrap(x, alias, r.upstream.dns, t)
    BY <1>7, <2>2, BootstrapIs
  <2>4. c.dns = DnsOf(r, t)
    BY <1>8, <2>1, Zenon DEF IsSession
  <2>5. c.dns.servers[1] = x
    BY <2>2, <2>4, FirstServerIs, Zenon
  <2>6. "bind_interface" \in DOMAIN x /\ x["bind_interface"] = alias
    BY <2>1, <2>3, Zenon DEF IsBootstrap
  <2> QED
    BY <2>5, <2>6, Zenon DEF Field
<1>12. /\ Len(c.inbounds) = 5 /\ Has(c.inbounds, "health-in")
       /\ c.inbounds[5] = CandidateInbound(5) /\ c.inbounds[5]["listen_port"] = 5
  BY SessionInbounds, Zenon
<1>13. c.inbounds[5]["listen_port"] > 0
  BY <1>12
<1>14. PortsApart(c)
  BY <1>4, <1>9, SessionPorts, Zenon
<1>15. ASSUME NEW i \in 1..n PROVE ExitAccepted(c.outbounds[i + 3], i, alias)
  <2>1. PICK e : e = c.outbounds[i + 3]
    OBVIOUS
  <2>2. ExitAccepted(e, i, alias)
    BY <2>1, SessionHas, Zenon
  <2> QED
    BY <2>1, <2>2, Zenon
<1>16. c.control.port # 0
  BY <1>9
<1>17. Switches(c)
  BY <1>8, Zenon DEF IsSession, Switches
<1> QED
  BY <1>4, <1>5, <1>6, <1>9, <1>10, <1>11, <1>12, <1>13, <1>14, <1>15, <1>16, <1>17, Zenon
     DEF SplitAccepted

LEMMA SessionPasses ==
  ASSUME NEW c, NEW configs, NEW n, NEW r, NEW alias, NEW nodes, NEW ports,
         Session(c, configs, n, r, alias, nodes, ports)
  PROVE  Accepted(c, alias, r.upstream.dns)
<1>1. SplitAccepted(c, alias) /\ ExitCount(c) = n /\ Switches(c)
  BY SplitPasses, Zenon
<1>2. /\ n \in Nat /\ n >= 1 /\ DOMAIN configs = 1..n /\ Len(configs) = n
      /\ alias = r.upstream.alias
  BY Zenon DEF Session
<1>3. PICK control : control = [port |-> 4, secret |-> "ok"]
  OBVIOUS
<1>8. PICK candidate : candidate = 5
  OBVIOUS
<1>4. c = CombineConfigs(configs, control, candidate, alias)
  BY <1>3, <1>8, Zenon DEF Session
<1>5. Physical(r, alias) /\ RequestOK(r) /\ r.mode.kind = "tun"
  BY SessionShares, Zenon
<1>6. PICK b1 : IsSession(c, r, alias, b1, control, candidate)
  BY <1>3, <1>8, SessionShares, Zenon
<1>7. ASSUME NEW k \in 1..n
      PROVE  /\ NoDirectHealth(SingleConfig(c, k, alias))
             /\ SingleAccepted(SingleConfig(c, k, alias), alias, r.upstream.dns)
  <2>1. PICK o, b : SingleFits(configs[k], r, alias, o, b)
    BY SessionConfigs, Zenon
  <2>2. IsSingle(configs[k], r, alias, o, b) /\ IsExit(o, b)
    <3>1. /\ IsSingle(configs[k], r, alias, o, b) /\ ExitFits(o) /\ b \in BOOLEAN
          /\ o["type"] = "socks" <=> b
      BY <2>1, Zenon DEF SingleFits
    <3> QED
      BY <3>1, FitsIsExit, Zenon
  <2>4. PICK config : config = configs[k]
    OBVIOUS
  <2>3. SingleConfig(c, k, alias) = config
    <3>1. n \in Nat /\ DOMAIN configs = 1..n /\ Len(configs) = n
      BY <1>2
    <3>2. c.outbounds[k + 3] = BoundExit(configs[k], k, alias)
      BY <1>4, <3>1, CombinedExit
    <3>3. c.outbounds[k + 3] = BoundExit(config, k, alias) /\ IsSingle(config, r, alias, o, b) /\ IsExit(o, b)
      BY <2>2, <2>4, <3>2, Zenon
    <3> QED
      BY <1>5, <1>6, <3>3, SplitUndoesCombine
  <2>5. PICK node : node = nodes[k]
    OBVIOUS
  <2>6. PICK port : port = ports[k]
    OBVIOUS
  <2>7. ExitOK(config, r, node, port)
    BY <2>4, <2>5, <2>6, SessionConfigs, Zenon
  <2>8. NoDirectHealth(config) /\ SingleAccepted(config, r.upstream.alias, r.upstream.dns)
    BY <2>7, ExitPasses, Zenon
  <2> QED
    BY <1>2, <2>3, <2>8, Zenon
<1> QED
  BY <1>1, <1>7, Zenon DEF Accepted

-----------------------------------------------------------------------------
(* What the application seals is a session *)

\* An exit the application found usable is one the helper accepts alone.
LEMMA UsableIsOK ==
  ASSUME ImportInv, stage = "generated", request.mode.kind = "tun", NEW i, NEW approval,
         NEW r, r = RequestFor(i, approval), NEW s \in DOMAIN library, NEW j \in DOMAIN library,
         NEW e, e = Exit(r, library, s, BridgePort(j)), e.config # NoConfig
  PROVE  ExitOK(e.config, r, e.node, e.port) /\ e.port \in Nat /\ e.port > 10
<1>1. PICK n : n = library[s]
  OBVIOUS
<1>2. PICK port : port = BridgePort(j)
  OBVIOUS
<1>3. PICK config : config = ExitConfig(r, n, port)
  OBVIOUS
<1>4. e = [server |-> s, node |-> n, port |-> port, config |-> config]
  BY <1>1, <1>2, <1>3, Zenon DEF Exit
<1>5. e.node = n /\ e.port = port /\ e.config = config
  BY <1>4
<1>6. port \in Nat /\ port > 10
  <2>1. library \in Seq(Range(library))
    BY LibraryFacts
  <2>2. j \in Nat /\ j >= 1
    BY <2>1
  <2> QED
    BY <1>2, <2>2 DEF BridgePort
<1>7. NodeFits(n) /\ NodeShape(n) /\ ProtocolValid(n)
  <2>1. stage # "source"
    OBVIOUS
  <2> QED
    BY <1>1, <2>1, ServerFacts, ServerFits, Zenon
<1>8. RequestSound(r) /\ r.mode.kind = "tun"
  <2>1. RequestSound(r)
    BY RequestIsSound, Zenon
  <2>2. "mode" \in DOMAIN request /\ "mode" \notin {"node", "approval"}
    BY RequestFacts
  <2>3. r.mode = request.mode
    BY <2>2, FieldOfRequest
  <2> QED
    BY <2>1, <2>3
<1>9. ExitOK(config, r, n, port)
  <2>1. port > 0
    BY <1>6
  <2>2. config # NoConfig
    BY <1>5
  <2> QED
    BY <1>3, <1>6, <1>7, <1>8, <2>1, <2>2, ExitIsOK
<1> QED
  BY <1>5, <1>6, <1>9, Zenon

LEMMA TunAccepted ==
  ASSUME ImportInv, stage = "generated", request.mode.kind = "tun",
         NEW i \in DOMAIN library, NEW approval, TunExits(i, approval)
  PROVE  /\ Accepted(sealed, request.upstream.alias, request.upstream.dns)
         /\ ExitCount(sealed) = Len(exits)
<1>1. PICK r : r = RequestFor(i, approval)
  OBVIOUS
<1>2. /\ exits = Exits(r, library, i) /\ exits # <<>> /\ Len(exits) <= MaxSwitchNodes
      /\ sealed = SwitchConfig(r, exits, [port |-> 4, secret |-> "ok"], 5)
  BY <1>1, Zenon DEF TunExits
<1>3. /\ exits \in Seq(Range(exits))
      /\ \A m \in DOMAIN exits : \E s \in DOMAIN library, j \in DOMAIN library :
            /\ exits[m] = Exit(r, library, s, BridgePort(j))
            /\ exits[m].config # NoConfig
      /\ \A m, j \in DOMAIN exits : exits[m].port = exits[j].port => m = j
  <2>1. UsableExits(exits, r)
    BY <1>2, ExitsOfLibrary, Zenon
  <2> QED
    BY <2>1, Zenon DEF UsableExits
<1>4. PICK n : n = Len(exits)
  OBVIOUS
<1>5. n \in Nat /\ n >= 1 /\ n <= MaxSwitchNodes /\ DOMAIN exits = 1..n
  BY <1>2, <1>3, <1>4
<1>6. PICK configs : configs = [m \in DOMAIN exits |-> exits[m].config]
  OBVIOUS
<1>7. PICK nodes : nodes = [m \in DOMAIN exits |-> exits[m].node]
  OBVIOUS
<1>8. PICK ports : ports = [m \in DOMAIN exits |-> exits[m].port]
  OBVIOUS
<1>9. /\ DOMAIN configs = 1..n /\ configs = [m \in 1..n |-> configs[m]]
      /\ \A m \in 1..n : configs[m] = exits[m].config /\ nodes[m] = exits[m].node
                         /\ ports[m] = exits[m].port
  BY <1>5, <1>6, <1>7, <1>8
<1>10. Len(configs) = n
  BY <1>5, <1>9, ListIsSeq, Zenon
<1>11. ASSUME NEW k \in 1..n
       PROVE  ExitOK(configs[k], r, nodes[k], ports[k]) /\ ports[k] \in Nat /\ ports[k] > 10
  <2>1. k \in DOMAIN exits
    BY <1>5
  <2>2. PICK s \in DOMAIN library, j \in DOMAIN library :
            exits[k] = Exit(r, library, s, BridgePort(j)) /\ exits[k].config # NoConfig
    BY <1>3, <2>1, Zenon
  <2>3. PICK e : e = exits[k]
    OBVIOUS
  <2>4. e = Exit(r, library, s, BridgePort(j)) /\ e.config # NoConfig
    BY <2>2, <2>3, Zenon
  <2>5. ExitOK(e.config, r, e.node, e.port) /\ e.port \in Nat /\ e.port > 10
    BY <1>1, <2>4, UsableIsOK, Zenon
  <2>6. configs[k] = e.config /\ nodes[k] = e.node /\ ports[k] = e.port
    BY <1>9, <2>3, Zenon
  <2> QED
    BY <2>5, <2>6, Zenon
<1>12. \A k, m \in 1..n : ports[k] = ports[m] => k = m
  BY <1>3, <1>5, <1>9, Zenon
<1>13. PICK alias : alias = r.upstream.alias
  OBVIOUS
<1>14. sealed = CombineConfigs(configs, [port |-> 4, secret |-> "ok"], 5, alias)
  BY <1>2, <1>6, <1>13, Zenon DEF SwitchConfig
<1>15. Session(sealed, configs, n, r, alias, nodes, ports)
  BY <1>5, <1>9, <1>10, <1>11, <1>12, <1>13, <1>14, Zenon DEF Session
<1>16. r.upstream = request.upstream
  <2>1. PICK s \in Scenarios : request = s.request
    BY Zenon DEF ImportInv
  <2>2. "upstream" \in DOMAIN request
    BY <2>1, RequestsAssumption
  <2>3. "upstream" \notin {"node", "approval"}
    OBVIOUS
  <2> QED
    BY <1>1, <2>2, <2>3, FieldOfRequest
<1>17. ExitCount(sealed) = n
  BY <1>15, SplitPasses, Zenon
<1>18. Accepted(sealed, alias, r.upstream.dns)
  BY <1>15, SessionPasses, Zenon
<1> QED
  BY <1>4, <1>13, <1>16, <1>17, <1>18, Zenon

AcceptInv ==
    /\ stage # "rejected"
    /\ stage = "accepted" /\ Switches(sealed) => ExitCount(sealed) = Len(exits)

LEMMA AcceptInit ==
  ASSUME Init PROVE AcceptInv
  BY DEF Init, AcceptInv

LEMMA AcceptStep ==
  ASSUME ImportInv, RoutingInv, ExitInv, AcceptInv, [Next]_vars
  PROVE  AcceptInv'
<1>1. CASE ImportText
  BY <1>1, Zenon DEF ImportText, AcceptInv
<1>2. CASE StartProxy
  <2>1. stage' \in {"refused", "generated"}
    BY <1>2, Zenon DEF StartProxy, Refuse
  <2> QED
    BY <2>1 DEF AcceptInv
<1>3. CASE StartTun
  <2>1. stage' \in {"refused", "generated"}
    BY <1>3, Zenon DEF StartTun, Refuse
  <2> QED
    BY <2>1 DEF AcceptInv
<1>4. CASE Check
  <2>1. stage = "generated" /\ sealed' = sealed /\ exits' = exits
    BY <1>4 DEF Check
  <2>2. /\ stage' = "accepted" \/ stage' = "rejected"
        /\ stage' = "rejected" =>
            /\ request.mode.kind = "tun"
            /\ ~Accepted(sealed, request.upstream.alias, request.upstream.dns)
    BY <1>4, Zenon DEF Check
  <2>3. Switches(sealed) <=> request.mode.kind = "tun"
    BY <2>1 DEF RoutingInv, Routed
  <2>4. ASSUME request.mode.kind = "tun"
        PROVE  /\ Accepted(sealed, request.upstream.alias, request.upstream.dns)
               /\ ExitCount(sealed) = Len(exits)
    <3>1. PICK i \in DOMAIN library : \E approval : TunExits(i, approval)
      BY <2>1, <2>4, Zenon DEF ExitInv
    <3>2. PICK approval : TunExits(i, approval)
      BY <3>1
    <3> QED
      BY <2>1, <2>4, <3>2, TunAccepted, Zenon
  <2>5. stage' # "rejected"
    BY <2>2, <2>4, Zenon
  <2>6. Switches(sealed) => ExitCount(sealed) = Len(exits)
    BY <2>3, <2>4, Zenon
  <2>7. Switches(sealed') => ExitCount(sealed') = Len(exits')
    BY <2>1, <2>6, Zenon
  <2> QED
    BY <2>5, <2>7, Zenon DEF AcceptInv
<1>5. CASE Launch
  BY <1>5 DEF Launch, AcceptInv
<1>6. CASE UNCHANGED vars
  <2>1. stage' = stage /\ sealed' = sealed /\ exits' = exits
    BY <1>6 DEF vars
  <2> QED
    BY <2>1, Zenon DEF AcceptInv
<1> QED
  BY <1>1, <1>2, <1>3, <1>4, <1>5, <1>6 DEF Next

LEMMA AcceptHolds ==
  ASSUME ImportInv, AcceptInv
  PROVE  GeneratedIsAccepted
<1> SUFFICES ASSUME stage = "accepted", Switches(sealed), NEW i \in 1..Len(exits) - 1
             PROVE  RestartTarget(sealed, i) # NoConfig
  BY Zenon DEF GeneratedIsAccepted, AcceptInv
<1>1. ExitCount(sealed) = Len(exits)
  BY Zenon DEF AcceptInv
<1>2. i # 0 /\ ~(i >= ExitCount(sealed))
  BY <1>1
<1>3. PICK other : other = RestartTarget(sealed, i)
  OBVIOUS
<1>4. other = [sealed EXCEPT !.outbounds[1] = ("default" :> NodeTag(i + 1)) @@ @]
  BY <1>2, <1>3, Zenon DEF RestartTarget
<1>5. DOMAIN other = DOMAIN sealed
  BY <1>4
<1>6. "control" \in DOMAIN other /\ "control" \notin DOMAIN NoConfig
  BY <1>5 DEF Switches, NoConfig
<1> QED
  BY <1>3, <1>6, Zenon

\* Whatever was imported and asked for, the helper accepts what the application sealed, and
\* can restart it with any of its exits.
THEOREM AcceptedTheorem == Spec => []GeneratedIsAccepted
<1>1. Init => ImportInv /\ RoutingInv /\ ExitInv /\ AcceptInv
  BY ImportInit, RoutingInit, ExitInit, AcceptInit
<1>2. ImportInv /\ RoutingInv /\ ExitInv /\ AcceptInv /\ [Next]_vars
        => (ImportInv /\ RoutingInv /\ ExitInv /\ AcceptInv)'
  <2> SUFFICES ASSUME ImportInv, RoutingInv, ExitInv, AcceptInv, [Next]_vars
               PROVE  ImportInv' /\ RoutingInv' /\ ExitInv' /\ AcceptInv'
    OBVIOUS
  <2> QED
    BY ImportStep, RoutingStep, ExitStep, AcceptStep
<1>3. ImportInv /\ AcceptInv => GeneratedIsAccepted
  BY AcceptHolds
<1> QED
  BY <1>1, <1>2, <1>3, PTL DEF Spec

-----------------------------------------------------------------------------
(* The type of the chain *)

LEMMA ImportedKinds ==
  ASSUME ImportInv, NEW l, l = Import(text, MaxNodes), NEW i \in DOMAIN l
  PROVE  l[i].kind \in {"vless", "hysteria2", "naive"}
<1>1. text.entries \in Seq(Range(text.entries))
  BY TextsAssumption, Zenon DEF ImportInv
<1>2. l[i] = Parse(Detected(text), AcceptedEntries[i]) /\ l[i] # Rejected
  BY <1>1, ImportFacts, Zenon
<1>3. NodeShape(l[i])
  BY <1>2, ParsedShape, Zenon
<1> QED
  BY <1>3, Zenon DEF NodeShape

LEMMA ChainInit ==
  ASSUME Init PROVE TypeOK
  BY DEF Init, TypeOK, Stages

LEMMA ChainStep ==
  ASSUME ImportInv, TypeOK, [Next]_vars
  PROVE  TypeOK'
<1>0. /\ stage \in Stages
      /\ \A i \in DOMAIN library : library[i].kind \in {"vless", "hysteria2", "naive"}
      /\ \A k \in DOMAIN exits : exits[k].server \in DOMAIN library
      /\ (sealed = NoConfig) <=> stage \in {"source", "library", "refused"}
      /\ (launched = NoConfig) <=> stage # "running"
  BY Zenon DEF TypeOK
<1>1. CASE ImportText
  <2>1. /\ stage = "source" /\ library' = Import(text, MaxNodes) /\ stage' \in {"refused", "library"}
        /\ exits' = exits /\ sealed' = sealed /\ launched' = launched
    BY <1>1 DEF ImportText
  <2>2. library = <<>>
    BY <2>1, Zenon DEF ImportInv
  <2>3. DOMAIN exits = {}
    <3>1. DOMAIN library = {}
      BY <2>2
    <3>2. \A k \in DOMAIN exits : exits[k].server \in {}
      BY <1>0, <3>1, Zenon
    <3> QED
      BY <3>2
  <2>4. \A i \in DOMAIN library' : library'[i].kind \in {"vless", "hysteria2", "naive"}
    BY <2>1, ImportedKinds, Zenon
  <2>5. /\ stage' \in Stages /\ stage' # "running" /\ stage # "running"
        /\ stage \in {"source", "library", "refused"} /\ stage' \in {"source", "library", "refused"}
    BY <2>1 DEF Stages
  <2>6. \A k \in DOMAIN exits' : exits'[k].server \in DOMAIN library'
    BY <2>1, <2>3
  <2> QED
    BY <1>0, <2>1, <2>4, <2>5, <2>6, Zenon DEF TypeOK
<1>2. CASE StartProxy
  <2>1. PICK i \in DOMAIN library, approval \in {NoApproval} \cup {Approval(n) : n \in Range(library)} :
            LET r == RequestFor(i, approval)
                config == ExitConfig(r, library[i], BridgePort(1))
            IN  IF config = NoConfig THEN Refuse
                ELSE /\ stage' = "generated" /\ sealed' = config
                     /\ exits' = <<[server |-> i, node |-> library[i], port |-> BridgePort(1),
                                    config |-> config]>>
                     /\ xray' = IF IsReality(library[i])
                                THEN XrayConfig(library[i], BridgePort(1), NoUpstream) ELSE NoConfig
                     /\ UNCHANGED <<text, library, request, launched>>
    BY <1>2, Zenon DEF StartProxy
  <2>2. PICK config : config = ExitConfig(RequestFor(i, approval), library[i], BridgePort(1))
    OBVIOUS
  <2>3. stage = "library"
    BY <1>2, Zenon DEF StartProxy
  <2>4. CASE config = NoConfig
    <3>1. Refuse
      BY <2>1, <2>2, <2>4, Zenon
    <3>2. /\ stage' = "refused" /\ library' = library /\ exits' = exits /\ sealed' = sealed
          /\ launched' = launched
      BY <3>1 DEF Refuse
    <3> QED
      BY <1>0, <2>3, <3>2 DEF TypeOK, Stages
  <2>5. CASE config # NoConfig
    <3>1. /\ stage' = "generated" /\ sealed' = config /\ library' = library /\ launched' = launched
          /\ exits' = <<[server |-> i, node |-> library[i], port |-> BridgePort(1), config |-> config]>>
      BY <2>1, <2>2, <2>5
    <3>2. \A k \in DOMAIN exits' : exits'[k].server \in DOMAIN library'
      BY <3>1
    <3>3. /\ stage' \in Stages /\ stage' \notin {"source", "library", "refused"}
          /\ stage' # "running" /\ stage # "running"
      BY <2>3, <3>1 DEF Stages
    <3> QED
      BY <1>0, <2>5, <3>1, <3>2, <3>3, Zenon DEF TypeOK
  <2> QED
    BY <2>4, <2>5
<1>3. CASE StartTun
  <2>1. PICK i \in DOMAIN library, approval \in {NoApproval} \cup {Approval(n) : n \in Range(library)} :
            LET r == RequestFor(i, approval)
                usable == Exits(r, library, i)
            IN  IF usable = <<>> \/ usable[1].server # i \/ Len(usable) > MaxSwitchNodes THEN Refuse
                ELSE /\ stage' = "generated" /\ exits' = usable
                     /\ sealed' = SwitchConfig(r, usable, [port |-> 4, secret |-> "ok"], 5)
                     /\ xray' = SwitchXray(r, usable)
                     /\ UNCHANGED <<text, library, request, launched>>
    BY <1>3, Zenon DEF StartTun
  <2>2. PICK r : r = RequestFor(i, approval)
    OBVIOUS
  <2>3. PICK usable : usable = Exits(r, library, i)
    OBVIOUS
  <2>4. PICK config : config = SwitchConfig(r, usable, [port |-> 4, secret |-> "ok"], 5)
    OBVIOUS
  <2>5. \/ Refuse
        \/ /\ stage' = "generated" /\ exits' = usable /\ sealed' = config
           /\ library' = library /\ launched' = launched
    BY <2>1, <2>2, <2>3, <2>4
  <2>6. stage = "library"
    BY <1>3, Zenon DEF StartTun
  <2>7. CASE Refuse
    <3>1. /\ stage' = "refused" /\ library' = library /\ exits' = exits /\ sealed' = sealed
          /\ launched' = launched
      BY <2>7 DEF Refuse
    <3> QED
      BY <1>0, <2>6, <3>1 DEF TypeOK, Stages
  <2>8. CASE /\ stage' = "generated" /\ exits' = usable /\ sealed' = config
             /\ library' = library /\ launched' = launched
    <3>1. config # NoConfig
      <4>1. "control" \in DOMAIN config
        BY <2>4 DEF SwitchConfig, CombineConfigs
      <4>2. "control" \notin DOMAIN NoConfig
        BY DEF NoConfig
      <4> QED
        BY <4>1, <4>2, Zenon
    <3>2. \A k \in DOMAIN usable : usable[k].server \in DOMAIN library
      <4>0. UsableExits(usable, r)
        BY <2>3, ExitsOfLibrary
      <4>1. \A k \in DOMAIN usable : \E s \in DOMAIN library, j \in DOMAIN library :
                usable[k] = Exit(r, library, s, BridgePort(j))
        BY <4>0, ZenonT(60) DEF UsableExits
      <4>2. \A s, port : Exit(r, library, s, port).server = s
        BY DEF Exit
      <4> TAKE k \in DOMAIN usable
      <4>3. PICK s \in DOMAIN library : \E j \in DOMAIN library : usable[k] = Exit(r, library, s, BridgePort(j))
        BY <4>1, Zenon
      <4>4. PICK j \in DOMAIN library : usable[k] = Exit(r, library, s, BridgePort(j))
        BY <4>3, Zenon
      <4>5. usable[k].server = s
        BY <4>2, <4>4, Zenon
      <4> QED
        BY <4>3, <4>5, Zenon
    <3>3. /\ stage' \in Stages /\ stage' \notin {"source", "library", "refused"}
          /\ stage' # "running" /\ stage # "running"
      BY <2>6, <2>8 DEF Stages
    <3> QED
      BY <1>0, <2>8, <3>1, <3>2, <3>3, Zenon DEF TypeOK
  <2> QED
    BY <2>5, <2>7, <2>8
<1>4. CASE Check
  <2>1. /\ stage = "generated" /\ stage' \in {"accepted", "rejected"} /\ library' = library
        /\ exits' = exits /\ sealed' = sealed /\ launched' = launched
    BY <1>4, Zenon DEF Check
  <2> QED
    BY <1>0, <2>1 DEF TypeOK, Stages
<1>5. CASE Launch
  <2>1. /\ stage = "accepted" /\ stage' = "running" /\ library' = library /\ launched' # NoConfig
        /\ exits' = exits /\ sealed' = sealed
    BY <1>5 DEF Launch
  <2> QED
    BY <1>0, <2>1 DEF TypeOK, Stages
<1>6. CASE UNCHANGED vars
  BY <1>0, <1>6 DEF vars, TypeOK
<1> QED
  BY <1>1, <1>2, <1>3, <1>4, <1>5, <1>6 DEF Next

\* The library has servers the generator knows, the exits of a session are of the library, and
\* there is a configuration exactly from the moment one was generated.
THEOREM ChainTypeTheorem == Spec => []TypeOK
<1>1. Init => ImportInv /\ TypeOK
  BY ImportInit, ChainInit
<1>2. ImportInv /\ TypeOK /\ [Next]_vars => (ImportInv /\ TypeOK)'
  <2> SUFFICES ASSUME ImportInv, TypeOK, [Next]_vars PROVE ImportInv' /\ TypeOK'
    OBVIOUS
  <2> QED
    BY ImportStep, ChainStep
<1> QED
  BY <1>1, <1>2, PTL DEF Spec
=============================================================================
