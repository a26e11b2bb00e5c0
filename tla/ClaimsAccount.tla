--------------------------- MODULE ClaimsAccount ---------------------------
(***************************************************************************)
(* The size of the SettlementClaims account: an Anchor header followed by  *)
(* one bit per merkle-tree record.  A Solana instruction may grow an       *)
(* account by MAX_PERMITTED_DATA_INCREASE bytes only, so a large account   *)
(* is allocated by init_settlement in part and grown by                    *)
(* upsize_settlement_claims until it reaches its full size.                *)
(***************************************************************************)
EXTENDS Integers

CONSTANTS BITS_PER_BYTE,                          \* 8
          SETTLEMENT_CLAIMS_ANCHOR_HEADER_SIZE,   \* 56
          MAX_PERMITTED_DATA_INCREASE,            \* 10240
          MAX_PERMITTED_DATA_LENGTH               \* 10 MB

ASSUME ClaimsAccountAssumption ==
    /\ BITS_PER_BYTE \in Nat \ {0}
    /\ SETTLEMENT_CLAIMS_ANCHOR_HEADER_SIZE \in Nat
    /\ MAX_PERMITTED_DATA_INCREASE \in Nat \ {0}
    /\ MAX_PERMITTED_DATA_LENGTH \in Nat
    \* the header always fits the first allocation
    /\ SETTLEMENT_CLAIMS_ANCHOR_HEADER_SIZE < MAX_PERMITTED_DATA_INCREASE

bitmap_size_in_bytes(max_records) ==
    IF max_records % BITS_PER_BYTE = 0 THEN max_records \div BITS_PER_BYTE
                                       ELSE max_records \div BITS_PER_BYTE + 1

account_size(max_records) ==
    SETTLEMENT_CLAIMS_ANCHOR_HEADER_SIZE + bitmap_size_in_bytes(max_records)

(* SettlementClaimsTooManyRecords otherwise *)
CanInitializeClaims(max_records) ==
    account_size(max_records) <= MAX_PERMITTED_DATA_LENGTH

account_initialization_size(max_records) ==
    IF account_size(max_records) > MAX_PERMITTED_DATA_INCREASE
    THEN MAX_PERMITTED_DATA_INCREASE
    ELSE account_size(max_records)

(* SettlementClaimsAlreadyInitialized otherwise *)
CanIncrease(max_records, current_size) ==
    account_size(max_records) > current_size

(* Variant: the limit itself instead of the limit on top of current_size. *)
IncreaseToLimit(max_records, current_size) ==
    IF account_size(max_records) - current_size > MAX_PERMITTED_DATA_INCREASE
    THEN MAX_PERMITTED_DATA_INCREASE
    ELSE account_size(max_records)

account_increase_size(max_records, current_size) ==
    IF account_size(max_records) - current_size > MAX_PERMITTED_DATA_INCREASE
    THEN current_size + MAX_PERMITTED_DATA_INCREASE
    ELSE account_size(max_records)

(* BitmapProjection::check_size on the bytes behind the header *)
check_size(max_records, current_size) ==
    current_size - SETTLEMENT_CLAIMS_ANCHOR_HEADER_SIZE
        >= bitmap_size_in_bytes(max_records)
=============================================================================
