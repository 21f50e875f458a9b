---------------------------- MODULE ManifestGroup ----------------------------
(***************************************************************************)
(* setGroupInManifest of pkg/morph/deploy/util.go: the committee group key *)
(* signs the address of the contract (derived from the deployer account,   *)
(* the NEF checksum and the manifest name) and the manifest's group of     *)
(* that key is given the signature, or a new group is appended.            *)
(*                                                                         *)
(* initNNSContract calls it once on the local manifest, updateNNSContract  *)
(* on every iteration of its loop on the same manifest: the state is the   *)
(* manifest's Groups, and each step is one call with some key and          *)
(* deployer.  The NEF and the name are fixed, so the contract address is   *)
(* determined by the deployer, and a signature by the key and the address. *)
(***************************************************************************)
EXTENDS Naturals, Sequences, FiniteSets, SequencesExt

CONSTANTS
    Keys,           \* private keys of committee groups
    Deployers,      \* deployer accounts
    MaxGroups       \* longest manifest group list considered (model bound)

ASSUME ManifestAssumption == MaxGroups \in Nat

VARIABLE groups     \* manif.Groups: a sequence of [pub, sig]

(* state.CreateContractHash(deployerAcc, checksum, name), then             *)
(* groupPrivKey.Sign of its bytes: a signature names what was signed.      *)
ContractAddress(d) == d
Sign(k, addr) == [by |-> k, of |-> addr]

Group == [pub : Keys, sig : [by : Keys, of : Deployers]]

(* Mutant: the lookup of an existing group of the key is skipped.          *)
SetGroupAppendOnly(manif, k, d) ==
    Append(manif, [pub |-> k, sig |-> Sign(k, ContractAddress(d))])

(* The loop looks for the first group with the key's public key (break on *)
(* the first match); its signature is replaced, or a group is appended.   *)
SetGroupInManifest(manif, k, d) ==
    LET sig == Sign(k, ContractAddress(d))
        ind == SelectInSeq(manif, LAMBDA g : g.pub = k)
    IN IF ind > 0 THEN [manif EXCEPT ![ind].sig = sig]
       ELSE Append(manif, [pub |-> k, sig |-> sig])

SetGroup(k, d) ==
    /\ Len(groups) < MaxGroups \/ \E i \in 1..Len(groups) : groups[i].pub = k
    /\ groups' = SetGroupInManifest(groups, k, d)

Init == groups = << >>

Next == \E k \in Keys, d \in Deployers : SetGroup(k, d)

Spec == Init /\ [][Next]_groups

-----------------------------------------------------------------------------
TypeOK == groups \in Seq(Group)

(* Reference: the signature each public key has in a group list.           *)
SigOf(manif) == [k \in {manif[i].pub : i \in 1..Len(manif)} |->
                    manif[SelectInSeq(manif, LAMBDA g : g.pub = k)].sig]

(* The map m with key k bound to v, as (k :> v) @@ m.                       *)
UpsertKey(m, k, v) == [p \in DOMAIN m \cup {k} |-> IF p = k THEN v ELSE m[p]]

(* Setting the group of a key is an upsert keyed by the public key, as a   *)
(* manifest requires (no two groups share a key): the key gets the new     *)
(* signature, every other key keeps its own in its place, and the list    *)
(* grows only for a new key.  Repeating the call in every iteration of     *)
(* updateNNSContract must therefore leave the manifest as it is.           *)
UpsertMatchesReference ==
    \A k \in Keys, d \in Deployers :
        LET r == SetGroupInManifest(groups, k, d)
        IN /\ SigOf(r) = UpsertKey(SigOf(groups), k, Sign(k, ContractAddress(d)))
           /\ Len(r) = Cardinality(DOMAIN SigOf(r))
           /\ \A i \in 1..Len(groups) : r[i].pub = groups[i].pub
           /\ SetGroupInManifest(r, k, d) = r

=============================================================================
