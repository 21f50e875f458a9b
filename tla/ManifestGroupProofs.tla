-------------------------- MODULE ManifestGroupProofs --------------------------
(***************************************************************************)
(* Proofs about setGroupInManifest (ManifestGroup) for every set of keys   *)
(* and deployers and every length of the group list: on a list whose       *)
(* public keys are distinct, the call is an upsert keyed by the public     *)
(* key, it keeps the keys distinct, and repeating it changes nothing.      *)
(***************************************************************************)
EXTENDS ManifestGroup, FiniteSetTheorems, TLAPS

-----------------------------------------------------------------------------
(* The public keys of a group list, and the invariant that makes it a      *)
(* valid manifest: no two groups share a key.                              *)
Pubs(s) == {s[i].pub : i \in 1..Len(s)}

KeysDistinct(s) == \A i, j \in 1..Len(s) : s[i].pub = s[j].pub => i = j

(* The index the loop of setGroupInManifest stops at for key p.            *)
IndexOf(s, p) == SelectInSeq(s, LAMBDA g : g.pub = p)

(* On a list with distinct keys, the loop stops at the only group of p.    *)
LEMMA IndexOfFound ==
    ASSUME NEW s \in Seq(Group), KeysDistinct(s), NEW i \in 1..Len(s)
    PROVE  IndexOf(s, s[i].pub) = i
<1>1. {j \in 1..Len(s) : s[j].pub = s[i].pub} = {i}
  BY DEF KeysDistinct
<1> QED
  BY <1>1 DEF IndexOf, SelectInSeq, Min

(* Without a group of p the loop runs to the end: ind stays -1 (here 0).   *)
LEMMA IndexOfMissing ==
    ASSUME NEW s \in Seq(Group), NEW p, p \notin Pubs(s)
    PROVE  IndexOf(s, p) = 0
<1>1. {j \in 1..Len(s) : s[j].pub = p} = {}
  BY DEF Pubs
<1> QED
  BY <1>1 DEF IndexOf, SelectInSeq

(* A list with distinct keys has as many groups as keys.                   *)
LEMMA DistinctLen ==
    ASSUME NEW s \in Seq(Group), KeysDistinct(s)
    PROVE  IsFiniteSet(Pubs(s)) /\ Cardinality(Pubs(s)) = Len(s)
<1> DEFINE f == [i \in 1..Len(s) |-> s[i].pub]
<1>1. f \in Bijection(1..Len(s), Pubs(s))
  <2>1. f \in [1..Len(s) -> Pubs(s)]
    BY DEF Pubs
  <2>2. \A i, j \in 1..Len(s) : f[i] = f[j] => i = j
    BY DEF KeysDistinct
  <2>3. \A p \in Pubs(s) : \E i \in 1..Len(s) : f[i] = p
    BY DEF Pubs
  <2>4. f \in Injection(1..Len(s), Pubs(s))
    BY <2>1, <2>2 DEF Injection, IsInjective
  <2>5. f \in Surjection(1..Len(s), Pubs(s))
    BY <2>1, <2>3 DEF Surjection
  <2> QED
    BY <2>4, <2>5 DEF Bijection
<1>2. ExistsBijection(1..Len(s), Pubs(s))
  BY <1>1 DEF ExistsBijection
<1>3. Cardinality(Pubs(s)) = Len(s)
  BY <1>2, FS_CountingElements
<1>4. IsFiniteSet(Pubs(s))
  BY <1>2, FS_NatBijection
<1> QED
  BY <1>3, <1>4

(* The signature a call with key k and deployer d writes.                  *)
NewSig(k, d) == Sign(k, ContractAddress(d))

LEMMA NewSigType ==
    ASSUME NEW k \in Keys, NEW d \in Deployers
    PROVE  [pub |-> k, sig |-> NewSig(k, d)] \in Group
BY DEF NewSig, Sign, ContractAddress, Group

(* setGroupInManifest in terms of the index its loop stops at.            *)
LEMMA SetGroupByIndex ==
    ASSUME NEW s, NEW k, NEW d
    PROVE  SetGroupInManifest(s, k, d) =
               IF IndexOf(s, k) > 0 THEN [s EXCEPT ![IndexOf(s, k)].sig = NewSig(k, d)]
               ELSE Append(s, [pub |-> k, sig |-> NewSig(k, d)])
BY Zenon DEF SetGroupInManifest, IndexOf, NewSig

(* The key has a group: its signature is replaced in place.                *)
LEMMA UpsertExisting ==
    ASSUME NEW s \in Seq(Group), KeysDistinct(s), NEW k \in Keys, NEW d \in Deployers,
           NEW i \in 1..Len(s), s[i].pub = k
    PROVE  SetGroupInManifest(s, k, d) = [s EXCEPT ![i].sig = NewSig(k, d)]
<1>1. IndexOf(s, k) = i /\ i > 0
  BY IndexOfFound
<1>2. SetGroupInManifest(s, k, d) =
          IF IndexOf(s, k) > 0 THEN [s EXCEPT ![IndexOf(s, k)].sig = NewSig(k, d)]
          ELSE Append(s, [pub |-> k, sig |-> NewSig(k, d)])
  BY SetGroupByIndex
<1> QED
  BY <1>1, <1>2

(* The key has no group: a group is appended.                              *)
LEMMA UpsertNew ==
    ASSUME NEW s \in Seq(Group), NEW k \in Keys, NEW d \in Deployers, k \notin Pubs(s)
    PROVE  SetGroupInManifest(s, k, d) = Append(s, [pub |-> k, sig |-> NewSig(k, d)])
<1>1. IndexOf(s, k) = 0
  BY IndexOfMissing
<1>2. SetGroupInManifest(s, k, d) =
          IF IndexOf(s, k) > 0 THEN [s EXCEPT ![IndexOf(s, k)].sig = NewSig(k, d)]
          ELSE Append(s, [pub |-> k, sig |-> NewSig(k, d)])
  BY SetGroupByIndex
<1> QED
  BY <1>1, <1>2

(* The fields of a group, and what rewriting one group's signature does.   *)
LEMMA GroupFields ==
    ASSUME NEW s \in Seq(Group), NEW i \in 1..Len(s)
    PROVE  /\ s[i].pub \in Keys
           /\ s[i].sig \in [by : Keys, of : Deployers]
           /\ s[i] = [pub |-> s[i].pub, sig |-> s[i].sig]
<1>1. s[i] \in Group
  OBVIOUS
<1> QED
  BY <1>1 DEF Group

LEMMA SetSigAt ==
    ASSUME NEW s \in Seq(Group), NEW i \in 1..Len(s), NEW v
    PROVE  [s EXCEPT ![i].sig = v][i] = [pub |-> s[i].pub, sig |-> v]
<1>1. s[i] = [pub |-> s[i].pub, sig |-> s[i].sig]
  BY GroupFields
<1>2. [s EXCEPT ![i].sig = v][i] = [s[i] EXCEPT !.sig = v]
  OBVIOUS
<1> QED
  BY <1>1, <1>2, Zenon

LEMMA SetSigFields ==
    ASSUME NEW s \in Seq(Group), NEW i \in 1..Len(s), NEW v, NEW j \in 1..Len(s)
    PROVE  /\ [s EXCEPT ![i].sig = v][j].pub = s[j].pub
           /\ [s EXCEPT ![i].sig = v][j].sig = IF j = i THEN v ELSE s[j].sig
OBVIOUS

LEMMA SetSigType ==
    ASSUME NEW s \in Seq(Group), NEW i \in 1..Len(s), NEW v \in [by : Keys, of : Deployers]
    PROVE  /\ [s EXCEPT ![i].sig = v] \in Seq(Group)
           /\ Len([s EXCEPT ![i].sig = v]) = Len(s)
<1> DEFINE r == [s EXCEPT ![i].sig = v]
<1>1. \A j \in 1..Len(s) : r[j] \in Group
  <2> SUFFICES ASSUME NEW j \in 1..Len(s) PROVE r[j] \in Group
    OBVIOUS
  <2>1. CASE j = i
    <3>1. r[j] = [pub |-> s[i].pub, sig |-> v]
      BY <2>1, SetSigAt
    <3>2. s[i].pub \in Keys
      BY GroupFields
    <3> QED
      BY <3>1, <3>2 DEF Group
  <2>2. CASE j # i
    BY <2>2
  <2> QED
    BY <2>1, <2>2
<1>2. r \in [1..Len(s) -> Group]
  BY <1>1
<1> QED
  BY <1>2

(* Writing a group's own signature back leaves the list as it was.         *)
LEMMA SetSigSame ==
    ASSUME NEW s \in Seq(Group), NEW i \in 1..Len(s)
    PROVE  [s EXCEPT ![i].sig = s[i].sig] = s
<1>1. [s EXCEPT ![i].sig = s[i].sig][i] = s[i]
  <2>1. [s EXCEPT ![i].sig = s[i].sig][i] = [pub |-> s[i].pub, sig |-> s[i].sig]
    BY SetSigAt
  <2> QED
    BY <2>1, GroupFields
<1> QED
  BY <1>1

-----------------------------------------------------------------------------
(* What one call does to a list with distinct keys: r, the list after the  *)
(* call, is a list of groups with distinct keys, every existing group      *)
(* keeps its key in its place, the key set gains k, only k's group gets    *)
(* the new signature, and a second identical call changes nothing.         *)
ShapeOf(s, r, k, d) ==
    /\ r \in Seq(Group)
    /\ KeysDistinct(r)
    /\ Len(s) <= Len(r)
    /\ \A i \in 1..Len(s) : r[i].pub = s[i].pub
    /\ Pubs(r) = Pubs(s) \cup {k}
    /\ \A i \in 1..Len(r) : r[i].sig = IF r[i].pub = k THEN NewSig(k, d) ELSE s[i].sig
    /\ SetGroupInManifest(r, k, d) = r

UpsertShape(s, k, d) == ShapeOf(s, SetGroupInManifest(s, k, d), k, d)

LEMMA UpsertExistingShape ==
    ASSUME NEW s \in Seq(Group), KeysDistinct(s), NEW k \in Keys, NEW d \in Deployers,
           k \in Pubs(s)
    PROVE  UpsertShape(s, k, d)
<1>1. PICK i \in 1..Len(s) : s[i].pub = k
  BY DEF Pubs
<1> DEFINE v == NewSig(k, d)
           r == [s EXCEPT ![i].sig = v]
<1>2. SetGroupInManifest(s, k, d) = r
  BY <1>1, UpsertExisting
<1>3. r \in Seq(Group) /\ Len(r) = Len(s)
  <2>1. v \in [by : Keys, of : Deployers]
    BY DEF NewSig, Sign, ContractAddress
  <2> QED
    BY <2>1, SetSigType
<1>4. \A j \in 1..Len(s) : r[j].pub = s[j].pub
                           /\ r[j].sig = IF j = i THEN v ELSE s[j].sig
  BY SetSigFields
<1>5. KeysDistinct(r)
  BY <1>3, <1>4 DEF KeysDistinct
<1>6. Pubs(r) = Pubs(s) \cup {k}
  BY <1>1, <1>3, <1>4 DEF Pubs
<1>7. \A j \in 1..Len(r) : r[j].sig = IF r[j].pub = k THEN v ELSE s[j].sig
  BY <1>1, <1>3, <1>4 DEF KeysDistinct
<1>8. SetGroupInManifest(r, k, d) = r
  <2>1. r[i].pub = k /\ r[i].sig = v
    BY <1>1, <1>4
  <2>2. SetGroupInManifest(r, k, d) = [r EXCEPT ![i].sig = NewSig(k, d)]
    <3>1. i \in 1..Len(r)
      BY <1>3
    <3>2. \A t \in Seq(Group) :
            KeysDistinct(t) /\ i \in 1..Len(t) /\ t[i].pub = k =>
              SetGroupInManifest(t, k, d) = [t EXCEPT ![i].sig = NewSig(k, d)]
      BY UpsertExisting
    <3> QED
      BY <1>3, <1>5, <2>1, <3>1, <3>2
  <2>3. [r EXCEPT ![i].sig = r[i].sig] = r
    BY <1>3, SetSigSame
  <2> QED
    BY <2>1, <2>2, <2>3
<1>9. ShapeOf(s, r, k, d)
  <2>1. Len(s) <= Len(r)
    BY <1>3
  <2> QED
    BY <1>3, <1>4, <1>5, <1>6, <1>7, <1>8, <2>1 DEF ShapeOf
<1> QED
  BY <1>2, <1>9 DEF UpsertShape

LEMMA UpsertNewShape ==
    ASSUME NEW s \in Seq(Group), KeysDistinct(s), NEW k \in Keys, NEW d \in Deployers,
           k \notin Pubs(s)
    PROVE  UpsertShape(s, k, d)
<1> DEFINE v == NewSig(k, d)
           g == [pub |-> k, sig |-> v]
           r == Append(s, g)
           n == Len(s) + 1
<1>1. SetGroupInManifest(s, k, d) = r
  BY UpsertNew
<1>2. g \in Group /\ r \in Seq(Group) /\ Len(r) = n /\ n \in 1..Len(r)
  BY NewSigType
<1>3. \A j \in 1..Len(s) : r[j] = s[j]
  OBVIOUS
<1>4. r[n] = g /\ r[n].pub = k /\ r[n].sig = v
  OBVIOUS
<1>5. \A j \in 1..Len(s) : s[j].pub # k
  BY DEF Pubs
<1>6. KeysDistinct(r)
  BY <1>2, <1>3, <1>4, <1>5 DEF KeysDistinct
<1>7. Pubs(r) = Pubs(s) \cup {k}
  BY <1>2, <1>3, <1>4 DEF Pubs
<1>8. \A j \in 1..Len(r) : r[j].sig = IF r[j].pub = k THEN v ELSE s[j].sig
  BY <1>2, <1>3, <1>4, <1>5
<1>9. SetGroupInManifest(r, k, d) = r
  <2>1. SetGroupInManifest(r, k, d) = [r EXCEPT ![n].sig = NewSig(k, d)]
    <3>1. \A t \in Seq(Group) :
            KeysDistinct(t) /\ n \in 1..Len(t) /\ t[n].pub = k =>
              SetGroupInManifest(t, k, d) = [t EXCEPT ![n].sig = NewSig(k, d)]
      BY UpsertExisting
    <3> QED
      BY <1>2, <1>4, <1>6, <3>1
  <2>2. [r EXCEPT ![n].sig = r[n].sig] = r
    BY <1>2, SetSigSame
  <2> QED
    BY <2>1, <2>2, <1>4
<1>10. ShapeOf(s, r, k, d)
  BY <1>2, <1>3, <1>6, <1>7, <1>8, <1>9 DEF ShapeOf
<1> QED
  BY <1>1, <1>10 DEF UpsertShape

LEMMA UpsertShapeHolds ==
    ASSUME NEW s \in Seq(Group), KeysDistinct(s), NEW k \in Keys, NEW d \in Deployers
    PROVE  UpsertShape(s, k, d)
BY UpsertExistingShape, UpsertNewShape

-----------------------------------------------------------------------------
(* The reference map in terms of the index the loop stops at.              *)
LEMMA SigOfByIndex ==
    ASSUME NEW s
    PROVE  SigOf(s) = [p \in Pubs(s) |-> s[IndexOf(s, p)].sig]
BY Zenon DEF SigOf, Pubs, IndexOf

(* On a list with distinct keys, the reference map gives each key the      *)
(* signature of its only group.                                            *)
LEMMA SigOfAt ==
    ASSUME NEW s \in Seq(Group), KeysDistinct(s)
    PROVE  /\ DOMAIN SigOf(s) = Pubs(s)
           /\ \A i \in 1..Len(s) : SigOf(s)[s[i].pub] = s[i].sig
<1>1. SigOf(s) = [p \in Pubs(s) |-> s[IndexOf(s, p)].sig]
  BY SigOfByIndex
<1>2. \A i \in 1..Len(s) : IndexOf(s, s[i].pub) = i
  BY IndexOfFound
<1> QED
  BY <1>1, <1>2 DEF Pubs

(* One call on a list with distinct keys does what the reference says.     *)
LEMMA UpsertMatches ==
    ASSUME NEW s \in Seq(Group), KeysDistinct(s), NEW k \in Keys, NEW d \in Deployers
    PROVE  LET r == SetGroupInManifest(s, k, d)
           IN  /\ SigOf(r) = UpsertKey(SigOf(s), k, Sign(k, ContractAddress(d)))
               /\ Len(r) = Cardinality(DOMAIN SigOf(r))
               /\ \A i \in 1..Len(s) : r[i].pub = s[i].pub
               /\ SetGroupInManifest(r, k, d) = r
<1> DEFINE r == SetGroupInManifest(s, k, d)
           ref == UpsertKey(SigOf(s), k, Sign(k, ContractAddress(d)))
<1>1. ShapeOf(s, r, k, d)
  BY UpsertShapeHolds DEF UpsertShape
<1>2. r \in Seq(Group) /\ KeysDistinct(r)
  BY <1>1 DEF ShapeOf
<1>3. DOMAIN SigOf(r) = Pubs(r) /\ \A i \in 1..Len(r) : SigOf(r)[r[i].pub] = r[i].sig
  BY <1>2, SigOfAt
<1>4. DOMAIN SigOf(s) = Pubs(s) /\ \A i \in 1..Len(s) : SigOf(s)[s[i].pub] = s[i].sig
  BY SigOfAt
<1>5. Len(r) = Cardinality(DOMAIN SigOf(r))
  BY <1>2, <1>3, DistinctLen
<1>6. SigOf(r) = ref
  <2>1. DOMAIN ref = Pubs(s) \cup {k}
         /\ ref[k] = NewSig(k, d)
         /\ \A p \in Pubs(s) \ {k} : ref[p] = SigOf(s)[p]
    BY <1>4 DEF UpsertKey, NewSig
  <2>2. DOMAIN SigOf(r) = DOMAIN ref
    BY <1>1, <1>3, <2>1 DEF ShapeOf
  <2>3. ASSUME NEW p \in DOMAIN ref PROVE SigOf(r)[p] = ref[p]
    <3>1. PICK i \in 1..Len(r) : r[i].pub = p
      BY <1>3, <2>2 DEF Pubs
    <3>2. SigOf(r)[p] = IF p = k THEN NewSig(k, d) ELSE s[i].sig
      BY <1>1, <1>3, <3>1 DEF ShapeOf
    <3>3. CASE p = k
      BY <2>1, <3>2, <3>3
    <3>4. CASE p # k
      <4>1. i \in 1..Len(s)
        <5>1. p \in Pubs(s)
          BY <1>1, <2>1, <3>4 DEF ShapeOf
        <5>2. PICK j \in 1..Len(s) : s[j].pub = p
          BY <5>1 DEF Pubs
        <5>3. j \in 1..Len(r) /\ r[j].pub = p
          BY <1>1, <5>2 DEF ShapeOf
        <5> QED
          BY <1>2, <3>1, <5>2, <5>3 DEF KeysDistinct
      <4>2. r[i].pub = s[i].pub
        BY <1>1, <4>1 DEF ShapeOf
      <4> QED
        BY <1>4, <2>1, <3>1, <3>2, <3>4, <4>1, <4>2 DEF Pubs
    <3> QED
      BY <3>3, <3>4
  <2>4. SigOf(r) = [p \in DOMAIN SigOf(r) |-> SigOf(r)[p]]
         /\ ref = [p \in DOMAIN ref |-> ref[p]]
    BY DEF SigOf, UpsertKey
  <2> QED
    BY <2>2, <2>3, <2>4
<1> QED
  BY <1>1, <1>5, <1>6 DEF ShapeOf

-----------------------------------------------------------------------------
(* The inductive invariant: the manifest is a list of groups with          *)
(* distinct keys.                                                          *)
MInv == TypeOK /\ KeysDistinct(groups)

LEMMA MInvInit == Init => MInv
BY DEF Init, MInv, TypeOK, KeysDistinct

LEMMA MInvStep == MInv /\ [Next]_groups => MInv'
<1> SUFFICES ASSUME MInv, [Next]_groups PROVE MInv'
  OBVIOUS
<1>1. CASE Next
  <2>1. PICK k \in Keys, d \in Deployers : SetGroup(k, d)
    BY <1>1 DEF Next
  <2>2. ShapeOf(groups, SetGroupInManifest(groups, k, d), k, d)
    BY UpsertShapeHolds DEF MInv, TypeOK, UpsertShape
  <2> QED
    BY <2>1, <2>2 DEF SetGroup, ShapeOf, MInv, TypeOK
<1>2. CASE UNCHANGED groups
  BY <1>2 DEF MInv, TypeOK, KeysDistinct
<1> QED
  BY <1>1, <1>2

(* setGroupInManifest, called with any key and deployer on any manifest    *)
(* initNNSContract and updateNNSContract build, is an upsert keyed by the  *)
(* public key, and calling it again changes nothing, for every set of      *)
(* keys and deployers and every length of the group list.                  *)
THEOREM UpsertMatchesReferenceHolds == Spec => []UpsertMatchesReference
<1>1. MInv => UpsertMatchesReference
  BY UpsertMatches DEF MInv, TypeOK, UpsertMatchesReference
<1> QED
  BY <1>1, MInvInit, MInvStep, PTL DEF Spec

=============================================================================
