---------------------------- MODULE RegistryProofs ----------------------------
(***************************************************************************)
(* Proof that the NNS readers (Registry) report what the registry holds at *)
(* the time of the read, for every set of names, contracts and record      *)
(* bound.                                                                  *)
(***************************************************************************)
EXTENDS Registry, TLAPS

-----------------------------------------------------------------------------
(* The decoding chain of readContractByDomain gives, for each outcome of   *)
(* the 'resolve' call, the registry's answer or the RPC error.             *)
LEMMA DomainReadResult ==
    ASSUME NEW n \in Names, ReadContractByDomain(n)
    PROVE  /\ lastRead'.op = "domain" /\ lastRead'.name = n
           /\ lastRead'.res \in {"rpcError", Expected(n)}
           /\ UNCHANGED <<domains, records, deployed>>
<1>1. PICK out \in ResolveOutcomes(n) :
          \E r \in {"rpcError"} \cup
                   {IF out = "rpcError" THEN "rpcError"
                    ELSE IF out = "tokenNotFound" THEN "errMissingDomain"
                    ELSE IF out = "null" \/ records[n] = << >> THEN "errMissingDomainRecord"
                    ELSE IF FirstRecord(n).enc = "garbage" THEN "errInvalidContractDomainRecord"
                    ELSE IF FirstRecord(n).addr \notin deployed THEN "ErrUnknownContract"
                    ELSE FirstRecord(n).addr} :
             lastRead' = [op |-> "domain", name |-> n, res |-> r]
  BY Zenon DEF ReadContractByDomain
<1>2. out = "tokenNotFound" => n \notin domains
  BY DEF ResolveOutcomes
<1>3. out = "null" => n \in domains /\ records[n] = << >>
  BY DEF ResolveOutcomes
<1>4. out = "array" => n \in domains
  BY DEF ResolveOutcomes
<1>5. out \in {"rpcError", "tokenNotFound", "null", "array"}
  BY DEF ResolveOutcomes
<1>6. lastRead'.res \in {"rpcError", Expected(n)}
  BY <1>1, <1>2, <1>3, <1>4, <1>5 DEF Expected, FirstRecord
<1> QED
  BY <1>1, <1>6 DEF ReadContractByDomain

(* Every other step leaves lastRead alone or records a read of the NNS     *)
(* contract.                                                               *)
LEMMA OtherStepsRead ==
    ASSUME [Next]_vars, ~\E n \in Names : ReadContractByDomain(n)
    PROVE  lastRead' = lastRead \/ lastRead'.op = "nns"
<1>1. CASE ReadNNSOnChainState
  <2>1. PICK res \in {IF nnsPresent THEN "state" ELSE "nil", "rpcError"} :
            lastRead' = [op |-> "nns", name |-> "", res |-> res]
    BY <1>1 DEF ReadNNSOnChainState
  <2> QED
    BY <2>1
<1>2. CASE ~ReadNNSOnChainState
  BY <1>2 DEF Next, vars, DeployNNS, RegisterDomain, AddRecord, DeployContract
<1> QED
  BY <1>1, <1>2

(* Spec 4.3: readContractByDomain returns the error or the contract that   *)
(* the registry gives at the moment of the read, or the RPC error, for     *)
(* every set of names and contracts and every number of records: the      *)
(* 'resolve' outcomes and the dual decoding of the first record never      *)
(* produce a result the registry does not justify.                        *)
THEOREM ReadMatchesRegistryHolds == Spec => ReadMatchesRegistry
<1>1. [Next]_vars =>
        [lastRead'.op = "domain" /\ lastRead' # lastRead =>
            lastRead'.res \in {"rpcError", Expected(lastRead'.name)}]_vars
  <2> SUFFICES ASSUME [Next]_vars
               PROVE  lastRead'.op = "domain" /\ lastRead' # lastRead =>
                         lastRead'.res \in {"rpcError", Expected(lastRead'.name)}
    OBVIOUS
  <2>1. CASE \E n \in Names : ReadContractByDomain(n)
    <3>1. PICK n \in Names : ReadContractByDomain(n)
      BY <2>1
    <3> QED
      BY <3>1, DomainReadResult DEF Expected
  <2>2. CASE ~\E n \in Names : ReadContractByDomain(n)
    BY <2>2, OtherStepsRead
  <2> QED
    BY <2>1, <2>2
<1> QED
  BY <1>1, PTL DEF Spec, ReadMatchesRegistry

=============================================================================
