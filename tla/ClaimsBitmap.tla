---------------------------- MODULE ClaimsBitmap ----------------------------
(***************************************************************************)
(* The SettlementClaims account byte by byte: BitmapProjection over the    *)
(* data behind the Anchor header, its allocation by init_settlement, its   *)
(* growth by upsize_settlement_claims, the bit set by claim_settlement and *)
(* its end with the settlement.                                            *)
(***************************************************************************)
EXTENDS ClaimsAccount, Sequences, FiniteSets, FiniteSetsExt

CONSTANTS Nodes,     \* max_merkle_nodes arguments of init_settlement
          Indices    \* index arguments of claim_settlement

ASSUME BitmapAssumption == Nodes \subseteq Nat /\ Indices \subseteq Nat

VARIABLES
    max_records,            \* SettlementClaims::max_records, 0: no account
    bitmap_data,            \* the account's bytes behind the header
    merkle_nodes_claimed    \* Settlement::merkle_nodes_claimed

vars == <<max_records, bitmap_data, merkle_nodes_claimed>>

Byte == 0 .. 2 ^ BITS_PER_BYTE - 1

current_size == SETTLEMENT_CLAIMS_ANCHOR_HEADER_SIZE + Len(bitmap_data)

Zeroed(n) == [k \in 1 .. n |-> 0]

(* the bytes behind the header of an account of the given size *)
Behind(size) == size - SETTLEMENT_CLAIMS_ANCHOR_HEADER_SIZE

-----------------------------------------------------------------------------
(* bitmap_byte_index_and_bit_index *)
byte_index(index) == index \div BITS_PER_BYTE
bit_index(index) == index % BITS_PER_BYTE

(* Variant: shifted one too far. *)
ShiftedTooFar(index) == 2 ^ (BITS_PER_BYTE - bit_index(index))

(* 1 << (BITS_PER_BYTE - 1 - bit_index): the first record is the highest bit *)
Mask(index) == 2 ^ (BITS_PER_BYTE - 1 - bit_index(index))

bitmap_byte(index) == bitmap_data[byte_index(index) + 1]

is_set(index) == (bitmap_byte(index) \div Mask(index)) % 2 = 1

(* Variant: the byte is assigned and not or-ed. *)
AssignedByte(index) == Mask(index)

(* *old_byte | mask *)
new_byte(index) == IF is_set(index) THEN bitmap_byte(index)
                                    ELSE bitmap_byte(index) + Mask(index)

(* Variant: one index too many. *)
IndexUpToRecords(index) == max_records >= index

verify_index(index) == max_records > index

-----------------------------------------------------------------------------
Init == max_records = 0 /\ bitmap_data = <<>> /\ merkle_nodes_claimed = 0

InitSettlement(max_merkle_nodes) ==
    /\ max_records = 0
    /\ max_merkle_nodes # 0
    /\ CanInitializeClaims(max_merkle_nodes)
    /\ max_records' = max_merkle_nodes
    /\ bitmap_data' = Zeroed(Behind(account_initialization_size(max_merkle_nodes)))
    /\ merkle_nodes_claimed' = 0

(* realloc::zero: the added bytes are zero, the others are kept *)
UpsizeSettlementClaims ==
    /\ max_records # 0
    /\ CanIncrease(max_records, current_size)
    /\ bitmap_data' = bitmap_data \o
            Zeroed(account_increase_size(max_records, current_size) - current_size)
    /\ UNCHANGED <<max_records, merkle_nodes_claimed>>

(* SettlementClaimsWrapped::new, then try_to_set answers true *)
ClaimSettlementV2(index) ==
    /\ max_records # 0
    /\ check_size(max_records, current_size)
    /\ verify_index(index)
    /\ ~is_set(index)
    /\ merkle_nodes_claimed + 1 <= max_records
    /\ bitmap_data' = [bitmap_data EXCEPT ![byte_index(index) + 1] = new_byte(index)]
    /\ merkle_nodes_claimed' = merkle_nodes_claimed + 1
    /\ UNCHANGED max_records

(* close_settlement and cancel_settlement close both accounts *)
CloseSettlement ==
    /\ max_records # 0
    /\ max_records' = 0 /\ bitmap_data' = <<>> /\ merkle_nodes_claimed' = 0

Next ==
    \/ \E n \in Nodes : InitSettlement(n)
    \/ UpsizeSettlementClaims
    \/ \E i \in Indices : ClaimSettlementV2(i)
    \/ CloseSettlement

Spec == Init /\ [][Next]_vars

(* Anybody may grow the account; the operator's pipeline sends as many     *)
(* upsize instructions as the account needs right after it created it.     *)
FairSpec == Spec /\ WF_vars(UpsizeSettlementClaims)

-----------------------------------------------------------------------------
(* Properties *)

Full == max_records # 0 /\ check_size(max_records, current_size)

(* The account always consists of its header and bytes. *)
TypeOK ==
    /\ max_records \in Nat /\ merkle_nodes_claimed \in Nat
    /\ Len(bitmap_data) \in Nat
    /\ \A k \in 1 .. Len(bitmap_data) : bitmap_data[k] \in Byte

(* bitmap_byte indexes the slice without a bounds check of its own: once   *)
(* check_size accepted the account, every index that verify_index lets     *)
(* through lies in the data, so that no claim can panic.                   *)
ClaimsStayInBounds ==
    Full => \A i \in Indices : verify_index(i) => byte_index(i) < Len(bitmap_data)

Claimed == IF Full THEN {i \in 0 .. max_records - 1 : is_set(i)} ELSE {}

(* number_of_bits: count_ones over all bytes of the account, the ones      *)
(* behind max_records included                                             *)
number_of_bits ==
    MapThenSumSet(
        LAMBDA k : Cardinality({b \in 0 .. BITS_PER_BYTE - 1 :
                                    (bitmap_data[k] \div 2 ^ b) % 2 = 1}),
        1 .. Len(bitmap_data))

(* The settlement's counter and the bitmap tell the same story, although   *)
(* one is counted up and the other only or-ed: no claim is counted without *)
(* a bit or sets the bit of another record, the padding of the last byte   *)
(* stays clear, and the limit on merkle_nodes_claimed never turns an       *)
(* unclaimed record away.                                                  *)
CounterMatchesBitmap ==
    /\ number_of_bits = merkle_nodes_claimed
    /\ number_of_bits = Cardinality(Claimed)

(* Refinement: the bytes implement a set of claimed records. *)
Records == INSTANCE ClaimRecords WITH records <- max_records, claimed <- Claimed

RecordsSpec == Records!Spec

(* Growing by at most MAX_PERMITTED_DATA_INCREASE bytes per instruction,   *)
(* the account reaches the size at which it can be claimed from, or is     *)
(* closed.                                                                 *)
UpsizeCompletes == (max_records # 0) ~> (Full \/ max_records = 0)
=============================================================================
