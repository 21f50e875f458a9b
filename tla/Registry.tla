------------------------------- MODULE Registry -------------------------------
(***************************************************************************)
(* Reading contracts through the NNS: readNNSOnChainState (the contract    *)
(* with ID=1) of pkg/morph/deploy/util.go, and lookupNNSDomainRecord       *)
(* (nns.go) with readContractOnChainStateByDomainName (util.go), which     *)
(* resolve a domain's first TXT record and decode it as a little-endian    *)
(* hex script hash or, failing that, as a NEO address.                     *)
(*                                                                         *)
(* The registry and the chain are the environment: domains get registered, *)
(* records added and contracts deployed while readers read.  A record is   *)
(* the address it encodes and the encoding used; an RPC call may fail.     *)
(***************************************************************************)
EXTENDS Naturals, Sequences

CONSTANTS
    Names,          \* domain names
    Contracts,      \* contract addresses
    MaxRecords      \* records a domain may get (model bound)

ASSUME RegistryAssumption == MaxRecords \in Nat

VARIABLES
    domains,        \* registered domain names
    records,        \* per name: its TXT records, in order
    deployed,       \* contracts present on the chain
    nnsPresent,     \* the contract with ID=1 exists
    lastRead        \* the last result of a read: [op, name, res]

vars == <<domains, records, deployed, nnsPresent, lastRead>>

Encodings == {"le", "address", "garbage"}
Record == [enc : Encodings, addr : Contracts]

(* Error results of the readers.                                           *)
Errors == {"errMissingDomain", "errMissingDomainRecord",
           "errInvalidContractDomainRecord", "ErrUnknownContract", "rpcError"}

-----------------------------------------------------------------------------
(* The environment.                                                        *)
RegisterDomain(n) ==
    /\ n \notin domains
    /\ domains' = domains \cup {n}
    /\ UNCHANGED <<records, deployed, nnsPresent, lastRead>>

AddRecord(n, r) ==
    /\ n \in domains /\ Len(records[n]) < MaxRecords
    /\ records' = [records EXCEPT ![n] = Append(@, r)]
    /\ UNCHANGED <<domains, deployed, nnsPresent, lastRead>>

DeployContract(c) ==
    /\ c \notin deployed
    /\ deployed' = deployed \cup {c}
    /\ UNCHANGED <<domains, records, nnsPresent, lastRead>>

DeployNNS ==
    /\ ~nnsPresent
    /\ nnsPresent' = TRUE
    /\ UNCHANGED <<domains, records, deployed, lastRead>>

-----------------------------------------------------------------------------
(* readNNSOnChainState: ErrUnknownContract means "not deployed" (nil,nil), *)
(* any other error is returned.                                            *)
ReadNNSOnChainState ==
    /\ \E res \in {IF nnsPresent THEN "state" ELSE "nil", "rpcError"} :
          lastRead' = [op |-> "nns", name |-> "", res |-> res]
    /\ UNCHANGED <<domains, records, deployed, nnsPresent>>

(* Outcomes of the 'resolve' call: a missing token fails the call with     *)
(* "token not found"; a domain without records gives Null or an empty      *)
(* array; otherwise the records.  Every call may fail over RPC.            *)
ResolveOutcomes(n) ==
    {"rpcError"} \cup
    IF n \notin domains THEN {"tokenNotFound"}
    ELSE IF records[n] = << >> THEN {"null", "array"} ELSE {"array"}

(* Mutant: the last record is taken instead of the first.                  *)
FirstRecordLast(n) == records[n][Len(records[n])]

(* lookupNNSDomainRecord returns the first record (arr[0]).                *)
FirstRecord(n) == records[n][1]

(* lookupNNSDomainRecord, then the dual decoding and GetContractStateByHash *)
(* (nns.go:202-229, util.go:220-241).                                      *)
ReadContractByDomain(n) ==
    /\ \E out \in ResolveOutcomes(n) :
          LET res ==
                IF out = "rpcError" THEN "rpcError"
                ELSE IF out = "tokenNotFound" THEN "errMissingDomain"
                ELSE IF out = "null" \/ records[n] = << >> THEN "errMissingDomainRecord"
                ELSE IF FirstRecord(n).enc = "garbage" THEN "errInvalidContractDomainRecord"
                ELSE IF FirstRecord(n).addr \notin deployed THEN "ErrUnknownContract"
                ELSE FirstRecord(n).addr
          IN \E r \in {res, "rpcError"} :
                lastRead' = [op |-> "domain", name |-> n, res |-> r]
    /\ UNCHANGED <<domains, records, deployed, nnsPresent>>

Init ==
    /\ domains = {}
    /\ records = [n \in Names |-> << >>]
    /\ deployed = {}
    /\ nnsPresent = FALSE
    /\ lastRead = [op |-> "none", name |-> "", res |-> "none"]

Next ==
    \/ DeployNNS
    \/ ReadNNSOnChainState
    \/ \E n \in Names :
          \/ RegisterDomain(n)
          \/ ReadContractByDomain(n)
          \/ \E r \in Record : AddRecord(n, r)
    \/ \E c \in Contracts : DeployContract(c)

Spec == Init /\ [][Next]_vars

-----------------------------------------------------------------------------
TypeOK ==
    /\ domains \subseteq Names
    /\ records \in [Names -> Seq(Record)]
    /\ deployed \subseteq Contracts
    /\ nnsPresent \in BOOLEAN

(* Spec 4.3: what readContractByDomain returns is what the registry says   *)
(* at the time of the read: missing domain, domain without records,        *)
(* undecodable first record, recorded contract missing on the chain, or    *)
(* the contract the first record names, whichever of its two encodings it  *)
(* uses; an RPC failure is reported as such and never as one of these.     *)
Expected(n) ==
    IF n \notin domains THEN "errMissingDomain"
    ELSE IF records[n] = << >> THEN "errMissingDomainRecord"
    ELSE IF records[n][1].enc = "garbage" THEN "errInvalidContractDomainRecord"
    ELSE IF records[n][1].addr \notin deployed THEN "ErrUnknownContract"
    ELSE records[n][1].addr

ReadMatchesRegistry ==
    [][ lastRead'.op = "domain" /\ lastRead' # lastRead =>
            lastRead'.res \in {"rpcError", Expected(lastRead'.name)} ]_vars

=============================================================================
