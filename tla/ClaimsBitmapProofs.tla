------------------------- MODULE ClaimsBitmapProofs -------------------------
(***************************************************************************)
(* A claim never reads or writes behind the bytes of its SettlementClaims  *)
(* account, for every header, allocation limit, number of records and      *)
(* index: BitmapProjection indexes the slice without a check of its own.   *)
(* For that the bytes may hold any integers.                               *)
(*                                                                         *)
(* With the eight bits of the code's bytes, Octets, they hold a set of     *)
(* records, which a claim extends by one and nothing else changes, and     *)
(* number_of_bits counts it.  The prover has no theory of powers of two:   *)
(* what adding one to a byte does is proved by looking at the eight cases. *)
(***************************************************************************)
EXTENDS ClaimsBitmap, FiniteSums

-----------------------------------------------------------------------------
(* Lemmas on sequences and sizes *)

(* Bytes that are added behind others are zero; nothing else changes.      *)
LEMMA ZeroedAppended ==
    ASSUME NEW s \in Seq(Int), NEW n \in Nat
    PROVE  s \o Zeroed(n) \in Seq(Int)
  BY DEF Zeroed

LEMMA ZeroedType ==
    ASSUME NEW n \in Nat
    PROVE  Zeroed(n) \in Seq(Int)
  BY DEF Zeroed

LEMMA OneReplaced ==
    ASSUME NEW s \in Seq(Int), NEW k \in 1 .. Len(s), NEW e \in Int
    PROVE  [s EXCEPT ![k] = e] \in Seq(Int)
  OBVIOUS

LEMMA BitmapSize ==
    ASSUME NEW m \in Nat
    PROVE  bitmap_size_in_bytes(m) \in Nat
  BY ClaimsAccountAssumption DEF bitmap_size_in_bytes

(* Every record has its bit within the size computed for all of them.      *)
LEMMA ByteOfRecord ==
    ASSUME NEW m \in Nat, NEW i \in Nat, i < m
    PROVE  byte_index(i) < bitmap_size_in_bytes(m)
  BY ClaimsAccountAssumption DEF byte_index, bitmap_size_in_bytes

(* The first allocation holds the header, so that what is behind it has a  *)
(* length.                                                                 *)
LEMMA BehindInitial ==
    ASSUME NEW m \in Nat
    PROVE  Behind(account_initialization_size(m)) \in Nat
  BY BitmapSize, ClaimsAccountAssumption
  DEF Behind, account_initialization_size, account_size

(* An upsize adds bytes, it never takes any away.                          *)
LEMMA Added ==
    ASSUME NEW m \in Nat, NEW size \in Nat, CanIncrease(m, size)
    PROVE  account_increase_size(m, size) - size \in Nat
  <1>1. account_size(m) \in Nat
    BY BitmapSize, ClaimsAccountAssumption DEF account_size
  <1> QED BY <1>1, ClaimsAccountAssumption DEF account_increase_size, CanIncrease

LEMMA MaskType ==
    ASSUME NEW i \in Nat
    PROVE  Mask(i) \in Int
  <1>1. BITS_PER_BYTE - 1 - bit_index(i) \in Nat
    BY ClaimsAccountAssumption DEF bit_index
  <1> QED BY <1>1 DEF Mask

-----------------------------------------------------------------------------
(* The inductive invariant: the account is a sequence of numbers, which is *)
(* what the claim relies on when it compares an index to its length.       *)
IInv ==
    /\ max_records \in Nat
    /\ merkle_nodes_claimed \in Nat
    /\ bitmap_data \in Seq(Int)

LEMMA InitInv == Init => IInv
  BY DEF Init, IInv

LEMMA CurrentSize == IInv => current_size \in Nat
  BY ClaimsAccountAssumption DEF IInv, current_size

LEMMA NewByteType ==
    ASSUME IInv, NEW i \in Nat, byte_index(i) < Len(bitmap_data)
    PROVE  new_byte(i) \in Int
  <1>1. byte_index(i) + 1 \in 1 .. Len(bitmap_data)
    BY ClaimsAccountAssumption DEF byte_index, IInv
  <1>2. bitmap_byte(i) \in Int
    BY <1>1 DEF bitmap_byte, IInv
  <1> QED BY <1>2, MaskType DEF new_byte

(* The bounds of a claim, in the state in which it is made.                *)
LEMMA ClaimInBounds ==
    ASSUME IInv, NEW i \in Nat, check_size(max_records, current_size), verify_index(i)
    PROVE  byte_index(i) < Len(bitmap_data)
  <1>1. byte_index(i) < bitmap_size_in_bytes(max_records)
    BY ByteOfRecord DEF IInv, verify_index
  <1>2. Len(bitmap_data) >= bitmap_size_in_bytes(max_records)
    BY BitmapSize, ClaimsAccountAssumption DEF IInv, check_size, current_size
  <1>3. byte_index(i) \in Int /\ bitmap_size_in_bytes(max_records) \in Int
    BY BitmapSize, ClaimsAccountAssumption DEF byte_index, IInv
  <1> QED BY <1>1, <1>2, <1>3 DEF IInv

LEMMA NextInv == IInv /\ [Next]_vars => IInv'
  <1> SUFFICES ASSUME IInv, [Next]_vars PROVE IInv'
      OBVIOUS
  <1>1. ASSUME NEW n \in Nodes, InitSettlement(n) PROVE IInv'
    <2>1. n \in Nat
      BY BitmapAssumption
    <2>2. bitmap_data' \in Seq(Int)
      BY <1>1, <2>1, BehindInitial, ZeroedType DEF InitSettlement
    <2> QED BY <1>1, <2>1, <2>2 DEF InitSettlement, IInv
  <1>2. CASE UpsizeSettlementClaims
    <2>1. account_increase_size(max_records, current_size) - current_size \in Nat
      BY <1>2, CurrentSize, Added DEF UpsizeSettlementClaims, IInv
    <2>2. bitmap_data' \in Seq(Int)
      BY <1>2, <2>1, ZeroedAppended DEF UpsizeSettlementClaims, IInv
    <2> QED BY <1>2, <2>2 DEF UpsizeSettlementClaims, IInv
  <1>3. ASSUME NEW i \in Indices, ClaimSettlementV2(i) PROVE IInv'
    <2>1. i \in Nat
      BY BitmapAssumption
    <2>2. byte_index(i) < Len(bitmap_data)
      BY <1>3, <2>1, ClaimInBounds DEF ClaimSettlementV2
    <2>3. byte_index(i) + 1 \in 1 .. Len(bitmap_data)
      BY <2>1, <2>2, ClaimsAccountAssumption DEF byte_index, IInv
    <2>4. new_byte(i) \in Int
      BY <2>1, <2>2, NewByteType
    <2>5. bitmap_data' \in Seq(Int)
      BY <1>3, <2>3, <2>4, OneReplaced DEF ClaimSettlementV2, IInv
    <2> QED BY <1>3, <2>5 DEF ClaimSettlementV2, IInv
  <1>4. CASE CloseSettlement
    BY <1>4 DEF CloseSettlement, IInv
  <1>5. CASE UNCHANGED vars
    BY <1>5 DEF vars, IInv
  <1> QED BY <1>1, <1>2, <1>3, <1>4, <1>5 DEF Next

-----------------------------------------------------------------------------
(* Once check_size accepted the account, no index that verify_index lets   *)
(* through lies behind the data, so that no claim_settlement panics.       *)
THEOREM BitsInBounds == Spec => []ClaimsStayInBounds
  <1>1. IInv => ClaimsStayInBounds
    BY ClaimInBounds, BitmapAssumption DEF ClaimsStayInBounds, Full
  <1> QED BY <1>1, InitInv, NextInv, PTL DEF Spec

-----------------------------------------------------------------------------
(* Bits of a byte.  The prover knows the value of a power of two only when *)
(* the exponent is a number, so the eight values are named.                *)

Values == {1, 2, 4, 8, 16, 32, 64, 128}

HasBit(B, b) == (B \div 2 ^ b) % 2 = 1

LEMMA Powers ==
    /\ 2 ^ 8 = 256
    /\ \A b \in 0 .. 7 : 2 ^ b \in Values
    /\ \A b, c \in 0 .. 7 : b # c => 2 ^ b # 2 ^ c
  <1>1. /\ 2 ^ 0 = 1 /\ 2 ^ 1 = 2 /\ 2 ^ 2 = 4 /\ 2 ^ 3 = 8
        /\ 2 ^ 4 = 16 /\ 2 ^ 5 = 32 /\ 2 ^ 6 = 64 /\ 2 ^ 7 = 128 /\ 2 ^ 8 = 256
    OBVIOUS
  <1>2. \A b \in 0 .. 7 : b \in {0, 1, 2, 3, 4, 5, 6, 7}
    OBVIOUS
  <1> QED BY <1>1, <1>2 DEF Values

(* Adding the value of a bit that is clear sets the bit and carries        *)
(* nothing out of the byte.                                                *)
LEMMA ValueAdded ==
    ASSUME NEW B \in 0 .. 255, NEW p \in Values, (B \div p) % 2 # 1
    PROVE  B + p \in 0 .. 255 /\ ((B + p) \div p) % 2 = 1
  BY DEF Values

(* Nor does it change another bit.                                         *)
LEMMA OtherValueKept ==
    ASSUME NEW B \in 0 .. 255, NEW p \in Values, NEW q \in Values, p # q, (B \div p) % 2 # 1
    PROVE  ((B + p) \div q) % 2 = 1 <=> (B \div q) % 2 = 1
  <1>1. CASE q = 1  BY <1>1 DEF Values
  <1>2. CASE q = 2  BY <1>2 DEF Values
  <1>3. CASE q = 4  BY <1>3 DEF Values
  <1>4. CASE q = 8  BY <1>4 DEF Values
  <1>5. CASE q = 16  BY <1>5 DEF Values
  <1>6. CASE q = 32  BY <1>6 DEF Values
  <1>7. CASE q = 64  BY <1>7 DEF Values
  <1>8. CASE q = 128  BY <1>8 DEF Values
  <1> QED BY <1>1, <1>2, <1>3, <1>4, <1>5, <1>6, <1>7, <1>8 DEF Values

LEMMA BitAdded ==
    ASSUME NEW B \in 0 .. 255, NEW b \in 0 .. 7, ~ HasBit(B, b)
    PROVE  /\ B + 2 ^ b \in 0 .. 255
           /\ HasBit(B + 2 ^ b, b)
           /\ \A c \in 0 .. 7 : c # b => (HasBit(B + 2 ^ b, c) <=> HasBit(B, c))
  <1>1. 2 ^ b \in Values /\ (B \div 2 ^ b) % 2 # 1
    <2>1. 2 ^ b \in Values  BY Powers
    <2>2. (B \div 2 ^ b) % 2 # 1  BY Zenon DEF HasBit
    <2> QED BY <2>1, <2>2
  <1>2. B + 2 ^ b \in 0 .. 255 /\ HasBit(B + 2 ^ b, b)
    BY <1>1, ValueAdded DEF HasBit
  <1>3. ASSUME NEW c \in 0 .. 7, c # b PROVE HasBit(B + 2 ^ b, c) <=> HasBit(B, c)
    <2>1. 2 ^ c \in Values /\ 2 ^ b # 2 ^ c  BY <1>3, Powers
    <2>2. ((B + 2 ^ b) \div 2 ^ c) % 2 = 1 <=> (B \div 2 ^ c) % 2 = 1
      BY <1>1, <2>1, OtherValueKept
    <2> QED BY <2>2, Zenon DEF HasBit
  <1> QED BY <1>2, <1>3

LEMMA NoBitOfZero ==
    ASSUME NEW b \in 0 .. 7
    PROVE  ~ HasBit(0, b)
  <1>1. \A p \in Values : (0 \div p) % 2 # 1  BY DEF Values
  <1>2. 2 ^ b \in Values  BY Powers
  <1> QED BY <1>1, <1>2, Zenon DEF HasBit

(* Hence one more bit is counted. *)
Ones(B) == {b \in 0 .. 7 : HasBit(B, b)}

LEMMA OnesFinite == ASSUME NEW B PROVE IsFiniteSet(Ones(B)) /\ Cardinality(Ones(B)) \in Nat
  <1>1. IsFiniteSet(0 .. 7)
    <2>1. 0 \in Int /\ 7 \in Int  OBVIOUS
    <2> QED BY <2>1, FS_Interval
  <1>2. Ones(B) \in SUBSET (0 .. 7)  BY DEF Ones
  <1>3. IsFiniteSet(Ones(B))  BY <1>1, <1>2, FS_Subset
  <1> QED BY <1>3, FS_CardinalityType

LEMMA OneMore ==
    ASSUME NEW B \in 0 .. 255, NEW b \in 0 .. 7, ~ HasBit(B, b)
    PROVE  Cardinality(Ones(B + 2 ^ b)) = Cardinality(Ones(B)) + 1
  <1>1. Ones(B + 2 ^ b) = Ones(B) \cup {b} /\ b \notin Ones(B)
    <2>1. \A c \in 0 .. 7 : c \in Ones(B + 2 ^ b) <=> c \in Ones(B) \/ c = b
      BY BitAdded DEF Ones
    <2> QED BY <2>1 DEF Ones
  <1> QED BY <1>1, OnesFinite, FS_AddElement

LEMMA NoneOfZero == Cardinality(Ones(0)) = 0
  <1>1. Ones(0) = {}  BY NoBitOfZero DEF Ones
  <1> QED BY <1>1, FS_EmptySet

-----------------------------------------------------------------------------
(* What the bytes hold.  A byte of the account has eight bits.             *)

Octets == BITS_PER_BYTE = 8

(* The bit of record i within its byte *)
bit_of(i) == BITS_PER_BYTE - 1 - bit_index(i)

LEMMA BitOfRecord ==
    ASSUME Octets, NEW i \in Nat
    PROVE  bit_of(i) \in 0 .. 7 /\ (is_set(i) <=> HasBit(bitmap_byte(i), bit_of(i)))
  <1>1. bit_of(i) \in 0 .. 7
    BY DEF bit_of, bit_index, Octets
  <1> QED BY <1>1, Zenon DEF is_set, HasBit, Mask, bit_of

LEMMA OneBitEach ==
    ASSUME Octets, NEW i \in Nat, NEW j \in Nat,
           byte_index(i) = byte_index(j), bit_of(i) = bit_of(j)
    PROVE  i = j
  BY DEF byte_index, bit_of, bit_index, Octets

Blank == \A k \in 1 .. Len(bitmap_data) : bitmap_data[k] = 0

(* Bytes are bytes, and no bit is set before the account is large enough   *)
(* for all of them.                                                        *)
BytesInv == bitmap_data \in Seq(0 .. 255) /\ (~ Full => Blank)

LEMMA ClaimedFinite == IInv => IsFiniteSet(Claimed)
  <1> SUFFICES ASSUME IInv PROVE IsFiniteSet(Claimed)
    OBVIOUS
  <1>1. IsFiniteSet(0 .. max_records - 1)
    <2>1. 0 \in Int /\ max_records - 1 \in Int  BY DEF IInv
    <2> QED BY <2>1, FS_Interval
  <1>2. Claimed \in SUBSET (0 .. max_records - 1)  BY DEF Claimed
  <1> QED BY <1>1, <1>2, FS_Subset

(* count_ones over all bytes, as a sum *)
Counts == [k \in 1 .. Len(bitmap_data) |-> Cardinality(Ones(bitmap_data[k]))]

Counted ==
    /\ IsFiniteSet(1 .. Len(bitmap_data))
    /\ Counts \in [1 .. Len(bitmap_data) -> Int]
    /\ number_of_bits = Sum(Counts, 1 .. Len(bitmap_data))

LEMMA NumberIsSum == ASSUME Octets PROVE IInv => Counted
  <1> SUFFICES ASSUME IInv PROVE Counted
    OBVIOUS
  <1>1. IsFiniteSet(1 .. Len(bitmap_data))
    <2>1. 1 \in Int /\ Len(bitmap_data) \in Int  BY DEF IInv
    <2> QED BY <2>1, FS_Interval
  <1>2. Counts \in [1 .. Len(bitmap_data) -> Int]
    BY OnesFinite DEF Counts
  <1>3. BITS_PER_BYTE - 1 = 7  BY DEF Octets
  <1> DEFINE c == [k \in 1 .. Len(bitmap_data) |->
                     Cardinality({b \in 0 .. BITS_PER_BYTE - 1 :
                                    (bitmap_data[k] \div 2 ^ b) % 2 = 1})]
  <1>4. c = Counts
    BY <1>3, Zenon DEF Counts, Ones, HasBit
  <1>5. number_of_bits = Sum(c, 1 .. Len(bitmap_data))
    BY DEF number_of_bits, Sum, MapThenSumSet, MapThenFoldSet
  <1> QED BY <1>1, <1>2, <1>4, <1>5 DEF Counted

(* Bytes that are zero *)
BlankMeans == Blank => Claimed = {} /\ number_of_bits = 0

LEMMA BlankCounts == ASSUME Octets PROVE IInv => BlankMeans
  <1> SUFFICES ASSUME IInv, Blank PROVE Claimed = {} /\ number_of_bits = 0
    BY DEF BlankMeans
  <1>1. ASSUME Full, NEW i \in 0 .. max_records - 1 PROVE ~ is_set(i)
    <2>1. i \in Nat /\ verify_index(i)  BY DEF IInv, verify_index
    <2>2. byte_index(i) < Len(bitmap_data)
      BY <1>1, <2>1, ClaimInBounds DEF Full
    <2>3. byte_index(i) + 1 \in 1 .. Len(bitmap_data)
      BY <2>1, <2>2, ClaimsAccountAssumption DEF byte_index, IInv
    <2>4. bitmap_byte(i) = 0  BY <2>3 DEF bitmap_byte, Blank
    <2> QED BY <2>1, <2>4, BitOfRecord, NoBitOfZero
  <1>2. Claimed = {}  BY <1>1 DEF Claimed
  <1>3. Counted  BY NumberIsSum
  <1>4. \A k \in 1 .. Len(bitmap_data) : Counts[k] = 0
    BY NoneOfZero DEF Counts, Blank
  <1>5. Sum(Counts, 1 .. Len(bitmap_data)) = 0
    BY <1>3, <1>4, SumZero DEF Counted
  <1> QED BY <1>2, <1>3, <1>5 DEF Counted

-----------------------------------------------------------------------------
(* A claim sets one bit: the account holds one more record and nothing     *)
(* else, and counts one bit more.                                          *)

LEMMA ElementOf ==
    ASSUME NEW S, NEW s \in Seq(S), NEW k \in 1 .. Len(s)
    PROVE  s[k] \in S
  OBVIOUS

LEMMA InData ==
    ASSUME IInv, NEW i \in Nat, check_size(max_records, current_size), verify_index(i)
    PROVE  byte_index(i) + 1 \in 1 .. Len(bitmap_data)
  <1>1. byte_index(i) < Len(bitmap_data)  BY ClaimInBounds
  <1>2. byte_index(i) \in Nat  BY ClaimsAccountAssumption DEF byte_index
  <1>3. Len(bitmap_data) \in Nat  BY DEF IInv
  <1> QED BY <1>1, <1>2, <1>3

Claims(i) ==
    /\ bitmap_data' \in Seq(0 .. 255) /\ Full /\ Full'
    /\ i \in (0 .. max_records - 1) \ Claimed
    /\ Claimed' = Claimed \cup {i}
    /\ number_of_bits' = number_of_bits + 1

LEMMA ClaimSetsOneBit ==
    ASSUME Octets, IInv, IInv', BytesInv, NEW i \in Indices, ClaimSettlementV2(i)
    PROVE  Claims(i)
  <1> DEFINE k == byte_index(i) + 1
             B == bitmap_byte(i)
             b == bit_of(i)
             value == B + 2 ^ b
  <1>1. /\ max_records' = max_records /\ Full /\ verify_index(i) /\ ~ is_set(i)
        /\ bitmap_data' = [bitmap_data EXCEPT ![k] = new_byte(i)]
    BY DEF ClaimSettlementV2, Full
  <1>2. i \in Nat  BY BitmapAssumption
  <1>3. k \in 1 .. Len(bitmap_data)  BY <1>1, <1>2, InData DEF Full
  <1>4. b \in 0 .. 7 /\ ~ HasBit(B, b)  BY <1>1, <1>2, BitOfRecord
  <1>5. B \in 0 .. 255 /\ B = bitmap_data[k]  BY <1>3, ElementOf DEF BytesInv, bitmap_byte
  <1>6. new_byte(i) = value
    BY <1>1 DEF new_byte, Mask, bit_of
  <1>7. /\ value \in 0 .. 255 /\ HasBit(value, b)
        /\ \A c \in 0 .. 7 : c # b => (HasBit(value, c) <=> HasBit(B, c))
    BY <1>4, <1>5, BitAdded
  <1>8. Cardinality(Ones(value)) = Cardinality(Ones(B)) + 1
    BY <1>4, <1>5, OneMore
  <1> HIDE DEF value, B, b, k
  <1>9. /\ bitmap_data' \in Seq(0 .. 255) /\ Len(bitmap_data') = Len(bitmap_data)
        /\ bitmap_data'[k] = value
        /\ \A n \in 1 .. Len(bitmap_data) : n # k => bitmap_data'[n] = bitmap_data[n]
    BY <1>1, <1>3, <1>6, <1>7 DEF BytesInv
  <1>10. Full'  BY <1>1, <1>9 DEF Full, current_size
  <1>11. ASSUME NEW j \in 0 .. max_records - 1
         PROVE  is_set(j)' <=> is_set(j) \/ j = i
    <2>1. j \in Nat /\ verify_index(j)  BY DEF IInv, verify_index
    <2>3. byte_index(j) + 1 \in 1 .. Len(bitmap_data)  BY <1>1, <2>1, InData DEF Full
    <2>4. bit_of(j) \in 0 .. 7 /\ (is_set(j) <=> HasBit(bitmap_byte(j), bit_of(j)))
      BY <2>1, BitOfRecord
    <2>5. is_set(j)' <=> HasBit(bitmap_data'[byte_index(j) + 1], bit_of(j))
      BY Zenon DEF is_set, HasBit, Mask, bit_of, bitmap_byte
    <2>6. CASE byte_index(j) # byte_index(i)
      <3>1. byte_index(j) + 1 # k
        BY <1>2, <2>1, <2>6, ClaimsAccountAssumption DEF byte_index, k
      <3>2. bitmap_data'[byte_index(j) + 1] = bitmap_byte(j)
        BY <1>9, <2>3, <3>1 DEF bitmap_byte
      <3> QED BY <2>4, <2>5, <2>6, <3>2
    <2>7. CASE byte_index(j) = byte_index(i) /\ j # i
      <3>1. bit_of(j) # b  BY <1>2, <2>1, <2>7, OneBitEach DEF b
      <3>2. bitmap_data'[byte_index(j) + 1] = value  BY <1>9, <2>7 DEF k
      <3>3. bitmap_byte(j) = B  BY <2>7 DEF bitmap_byte, B
      <3> QED BY <1>7, <2>4, <2>5, <2>7, <3>1, <3>2, <3>3
    <2>8. CASE j = i
      BY <1>7, <1>9, <2>5, <2>8 DEF k, b
    <2> QED BY <2>6, <2>7, <2>8
  <1>12. i \in 0 .. max_records - 1
    BY <1>1, <1>2 DEF verify_index, IInv
  <1>13. Claimed' = Claimed \cup {i} /\ i \notin Claimed
    <2>1. Claimed = {j \in 0 .. max_records - 1 : is_set(j)}  BY <1>1 DEF Claimed
    <2>2. Claimed' = {j \in 0 .. max_records - 1 : is_set(j)'}
      BY <1>1, <1>10, Zenon DEF Claimed
    <2> HIDE DEF Claimed
    <2> QED BY <1>1, <1>11, <1>12, <2>1, <2>2
  <1>14. number_of_bits' = number_of_bits + 1
    <2>1. Counted /\ Counted'
      BY NumberIsSum, PTL
    <2> DEFINE D == 1 .. Len(bitmap_data)
               f == Counts
               g == [n \in D |-> Cardinality(Ones(bitmap_data'[n]))]
    <2>2. Counts' = g  BY <1>9 DEF Counts
    <2>3. IsFiniteSet(D) /\ f \in [D -> Int] /\ g \in [D -> Int]
      BY <1>9, <2>1, <2>2 DEF Counted
    <2>4. number_of_bits = Sum(f, D) /\ number_of_bits' = Sum(g, D)
      BY <1>9, <2>1, <2>2 DEF Counted
    <2>5. f[k] = Cardinality(Ones(B)) /\ g[k] = Cardinality(Ones(value))
      BY <1>3, <1>5, <1>9 DEF Counts
    <2>6. \A n \in D \ {k} : f[n] = g[n]
      BY <1>9 DEF Counts
    <2> HIDE DEF f, g, D
    <2>7. k \in D  BY <1>3 DEF D
    <2>8. Sum(f, D) - f[k] = Sum(g, D) - g[k]
      BY <2>3, <2>6, <2>7, SumOne
    <2>9. Sum(f, D) \in Int /\ Sum(g, D) \in Int /\ f[k] \in Int
      BY <2>3, <2>7, SumInt
    <2> QED BY <1>8, <2>4, <2>5, <2>8, <2>9
  <1> QED BY <1>1, <1>9, <1>10, <1>12, <1>13, <1>14 DEF Claims

-----------------------------------------------------------------------------
(* The other steps                                                         *)

(* Zero bytes appended to zero bytes are zero bytes.                        *)
LEMMA AppendedZeroed ==
    ASSUME NEW s \in Seq(Int), \A k \in 1 .. Len(s) : s[k] = 0, NEW n \in Nat
    PROVE  s \o Zeroed(n) = Zeroed(Len(s) + n)
  <1> DEFINE z == Zeroed(n)
             w == s \o z
             m == Len(s) + n
  <1>1. z \in Seq(Int) /\ Len(z) = n /\ \A k \in 1 .. n : z[k] = 0
    BY DEF Zeroed
  <1> HIDE DEF z
  <1>2. w \in Seq(Int) /\ Len(w) = m /\ m \in Nat
    BY <1>1
  <1>3. ASSUME NEW k \in 1 .. m PROVE w[k] = 0
    <2>1. CASE k <= Len(s)
      <3>1. w[k] = s[k] /\ k \in 1 .. Len(s)  BY <1>1, <2>1
      <3> QED BY <3>1
    <2>2. CASE k > Len(s)
      <3>1. w[k] = z[k - Len(s)] /\ k - Len(s) \in 1 .. n  BY <1>1, <2>2
      <3> QED BY <1>1, <3>1
    <2>3. k \in Int /\ Len(s) \in Int  OBVIOUS
    <2>4. k <= Len(s) \/ k > Len(s)  BY <2>3
    <2> HIDE DEF w
    <2> QED BY <2>1, <2>2, <2>4
  <1>4. /\ Zeroed(m) \in Seq(Int) /\ Len(Zeroed(m)) = m
        /\ \A k \in 1 .. m : Zeroed(m)[k] = 0
    BY <1>2 DEF Zeroed
  <1> HIDE DEF w, m
  <1>5. w = Zeroed(m)  BY <1>2, <1>3, <1>4
  <1> QED BY <1>5 DEF w, z, m

LEMMA AppendedBlank ==
    ASSUME NEW s \in Seq(Int), \A k \in 1 .. Len(s) : s[k] = 0, NEW n \in Nat
    PROVE  /\ s \o Zeroed(n) \in Seq(0 .. 255)
           /\ \A k \in 1 .. Len(s \o Zeroed(n)) : (s \o Zeroed(n))[k] = 0
  <1>1. s \o Zeroed(n) = Zeroed(Len(s) + n)  BY AppendedZeroed
  <1>2. Len(s) + n \in Nat  OBVIOUS
  <1>3. ASSUME NEW m \in Nat
        PROVE  Zeroed(m) \in Seq(0 .. 255) /\ \A k \in 1 .. Len(Zeroed(m)) : Zeroed(m)[k] = 0
    BY DEF Zeroed
  <1> QED BY <1>1, <1>2, <1>3

LEMMA GrownBlank ==
    ASSUME Octets, IInv, BytesInv, UpsizeSettlementClaims
    PROVE  ~ Full /\ Blank /\ Blank' /\ bitmap_data' \in Seq(0 .. 255)
  <1>1. ~ check_size(max_records, current_size)
    <2>1. bitmap_size_in_bytes(max_records) \in Nat  BY BitmapSize DEF IInv
    <2>2. current_size \in Nat  BY CurrentSize
    <2> QED BY <2>1, <2>2, ClaimsAccountAssumption
            DEF UpsizeSettlementClaims, CanIncrease, account_size, check_size
  <1>2. Blank  BY <1>1 DEF BytesInv, Full
  <1>3. account_increase_size(max_records, current_size) - current_size \in Nat
    BY CurrentSize, Added DEF UpsizeSettlementClaims, IInv
  <1>4. bitmap_data \in Seq(Int) /\ \A k \in 1 .. Len(bitmap_data) : bitmap_data[k] = 0
    BY <1>2 DEF IInv, Blank
  <1>5. bitmap_data' = bitmap_data \o
            Zeroed(account_increase_size(max_records, current_size) - current_size)
    BY DEF UpsizeSettlementClaims
  <1>6. bitmap_data' \in Seq(0 .. 255) /\ Blank'
    BY <1>3, <1>4, <1>5, AppendedBlank DEF Blank
  <1> QED BY <1>1, <1>2, <1>6 DEF Full

LEMMA AllocatedBlank ==
    ASSUME NEW n \in Nodes, InitSettlement(n)
    PROVE  Blank' /\ bitmap_data' \in Seq(0 .. 255)
  <1>1. Behind(account_initialization_size(n)) \in Nat
    BY BitmapAssumption, BehindInitial
  <1> QED BY <1>1 DEF InitSettlement, Zeroed, Blank

LEMMA ClosedBlank ==
    ASSUME CloseSettlement
    PROVE  Blank' /\ bitmap_data' \in Seq(0 .. 255)
  BY DEF CloseSettlement, Blank

LEMMA NextBytes ==
    ASSUME Octets, IInv, IInv', BytesInv, [Next]_vars
    PROVE  BytesInv'
  <1>1. ASSUME NEW n \in Nodes, InitSettlement(n) PROVE BytesInv'
    BY <1>1, AllocatedBlank DEF BytesInv
  <1>2. CASE UpsizeSettlementClaims
    BY <1>2, GrownBlank DEF BytesInv
  <1>3. ASSUME NEW i \in Indices, ClaimSettlementV2(i) PROVE BytesInv'
    BY <1>3, ClaimSetsOneBit DEF BytesInv, Claims
  <1>4. CASE CloseSettlement
    BY <1>4, ClosedBlank DEF BytesInv
  <1>5. CASE UNCHANGED vars
    BY <1>5 DEF vars, BytesInv, Full, Blank, current_size
  <1> QED BY <1>1, <1>2, <1>3, <1>4, <1>5 DEF Next

LEMMA InitBytes == Init => BytesInv
  BY DEF Init, BytesInv, Blank

(* Every byte of the account is a byte: setting bits never carries out of  *)
(* one.                                                                    *)
THEOREM BytesAreBytes == ASSUME Octets PROVE Spec => []TypeOK
  <1>1. IInv /\ BytesInv => TypeOK
    <2>1. Byte = 0 .. 255
      <3>1. 2 ^ BITS_PER_BYTE - 1 = 255  BY Powers DEF Octets
      <3> QED BY <3>1 DEF Byte
    <2> SUFFICES ASSUME IInv, BytesInv PROVE TypeOK
      OBVIOUS
    <2>2. \A k \in 1 .. Len(bitmap_data) : bitmap_data[k] \in 0 .. 255
      BY ElementOf DEF BytesInv
    <2>3. max_records \in Nat /\ merkle_nodes_claimed \in Nat /\ Len(bitmap_data) \in Nat
      BY DEF IInv
    <2> QED BY <2>1, <2>2, <2>3 DEF TypeOK
  <1>2. IInv /\ IInv' /\ BytesInv /\ [Next]_vars => BytesInv'  BY NextBytes
  <1> QED BY <1>1, <1>2, InitInv, NextInv, InitBytes, PTL DEF Spec

(* number_of_bits, merkle_nodes_claimed and the claimed records agree.     *)
CountInv == number_of_bits = merkle_nodes_claimed /\ Cardinality(Claimed) = merkle_nodes_claimed

LEMMA BlankCounters ==
    ASSUME Octets, IInv', Blank', merkle_nodes_claimed' = 0
    PROVE  Claimed' = {} /\ CountInv'
  <1>1. IInv' => BlankMeans'  BY BlankCounts, PTL
  <1>2. Claimed' = {} /\ number_of_bits' = 0  BY <1>1 DEF BlankMeans
  <1>3. Cardinality(Claimed)' = 0  BY <1>2, FS_EmptySet
  <1> QED BY <1>2, <1>3 DEF CountInv

LEMMA NextCount ==
    ASSUME Octets, IInv, IInv', BytesInv, CountInv, [Next]_vars
    PROVE  CountInv'
  <1>1. ASSUME NEW n \in Nodes, InitSettlement(n) PROVE CountInv'
    BY <1>1, AllocatedBlank, BlankCounters DEF InitSettlement
  <1>2. CASE UpsizeSettlementClaims
    <2>1. Blank /\ Blank'  BY <1>2, GrownBlank
    <2>2. number_of_bits = 0  BY <2>1, BlankCounts DEF BlankMeans
    <2>3. merkle_nodes_claimed' = 0
      BY <1>2, <2>2 DEF UpsizeSettlementClaims, CountInv
    <2> QED BY <2>1, <2>3, BlankCounters
  <1>3. ASSUME NEW i \in Indices, ClaimSettlementV2(i) PROVE CountInv'
    <2>1. Claims(i)  BY <1>3, ClaimSetsOneBit
    <2>2. IsFiniteSet(Claimed)  BY ClaimedFinite
    <2>3. Cardinality(Claimed \cup {i}) = Cardinality(Claimed) + 1
      BY <2>1, <2>2, FS_AddElement DEF Claims
    <2>4. Cardinality(Claimed)' = Cardinality(Claimed) + 1
      BY <2>1, <2>3 DEF Claims
    <2>5. number_of_bits' = number_of_bits + 1  BY <2>1 DEF Claims
    <2>6. merkle_nodes_claimed' = merkle_nodes_claimed + 1
      BY <1>3 DEF ClaimSettlementV2
    <2> QED BY <2>4, <2>5, <2>6 DEF CountInv
  <1>4. CASE CloseSettlement
    BY <1>4, ClosedBlank, BlankCounters DEF CloseSettlement
  <1>5. CASE UNCHANGED vars
    <2>1. Claimed' = Claimed
      BY <1>5 DEF vars, Claimed, Full, current_size, is_set, bitmap_byte
    <2>2. Counted /\ Counted'  BY NumberIsSum, PTL
    <2>3. Counts' = Counts /\ Len(bitmap_data)' = Len(bitmap_data)
      BY <1>5 DEF vars, Counts
    <2>4. number_of_bits' = number_of_bits  BY <2>2, <2>3 DEF Counted
    <2> QED BY <1>5, <2>1, <2>4 DEF vars, CountInv
  <1> QED BY <1>1, <1>2, <1>3, <1>4, <1>5 DEF Next

LEMMA InitCount == ASSUME Octets PROVE Init => CountInv
  <1> SUFFICES ASSUME Init PROVE CountInv
    OBVIOUS
  <1>1. Blank  BY DEF Init, Blank
  <1>2. Claimed = {} /\ number_of_bits = 0
    BY <1>1, InitInv, BlankCounts DEF BlankMeans
  <1> QED BY <1>2, FS_EmptySet DEF CountInv, Init

(* The counter of the Settlement account is the number of bits set in the  *)
(* SettlementClaims account, and both are the number of claimed records.   *)
THEOREM CounterIsBitmap == ASSUME Octets PROVE Spec => []CounterMatchesBitmap
  <1>1. CountInv => CounterMatchesBitmap  BY DEF CountInv, CounterMatchesBitmap
  <1>2. IInv /\ IInv' /\ BytesInv /\ [Next]_vars => BytesInv'  BY NextBytes
  <1>3. IInv /\ IInv' /\ BytesInv /\ CountInv /\ [Next]_vars => CountInv'  BY NextCount
  <1> QED BY <1>1, <1>2, <1>3, InitInv, NextInv, InitBytes, InitCount, PTL DEF Spec

-----------------------------------------------------------------------------
(* Every step on the bytes is a step on the set of claimed records, or     *)
(* none that could be told there.                                          *)
LEMMA StepOfRecords ==
    ASSUME Octets, IInv, IInv', BytesInv, [Next]_vars
    PROVE  [Records!Next]_(Records!vars)
  <1>1. ASSUME NEW n \in Nodes, InitSettlement(n) PROVE Records!Open
    <2>1. Claimed' = {}
      BY <1>1, AllocatedBlank, BlankCounters DEF InitSettlement
    <2>2. n \in Nat  BY BitmapAssumption
    <2> QED BY <1>1, <2>1, <2>2 DEF InitSettlement, Records!Open
  <1>2. CASE UpsizeSettlementClaims
    <2>1. Blank /\ Blank'  BY <1>2, GrownBlank
    <2>2. BlankMeans /\ BlankMeans'  BY BlankCounts, PTL
    <2>3. Claimed = {} /\ Claimed' = {}  BY <2>1, <2>2 DEF BlankMeans
    <2> QED BY <1>2, <2>3 DEF UpsizeSettlementClaims, Records!vars
  <1>3. ASSUME NEW i \in Indices, ClaimSettlementV2(i) PROVE Records!Claim
    <2>1. Claims(i)  BY <1>3, ClaimSetsOneBit
    <2> QED BY <1>3, <2>1 DEF Claims, ClaimSettlementV2, Records!Claim
  <1>4. CASE CloseSettlement
    <2>1. Claimed' = {}
      BY <1>4, ClosedBlank, BlankCounters DEF CloseSettlement
    <2> QED BY <1>4, <2>1 DEF CloseSettlement, Records!Next, Records!Close
  <1>5. CASE UNCHANGED vars
    <2>1. Claimed' = Claimed
      BY <1>5 DEF vars, Claimed, Full, current_size, is_set, bitmap_byte
    <2> QED BY <1>5, <2>1 DEF vars, Records!vars
  <1> QED BY <1>1, <1>2, <1>3, <1>4, <1>5 DEF Next, Records!Next

LEMMA InitOfRecords == ASSUME Octets PROVE Init => Records!Init
  <1> SUFFICES ASSUME Init PROVE Records!Init
    OBVIOUS
  <1>1. Blank  BY DEF Init, Blank
  <1>2. Claimed = {}  BY <1>1, InitInv, BlankCounts DEF BlankMeans
  <1> QED BY <1>2 DEF Init, Records!Init

(* The bytes implement the set of claimed records: a record is claimed at  *)
(* most once, and no claim, upsize or padding bit changes another one.     *)
THEOREM BytesImplementRecords == ASSUME Octets PROVE Spec => RecordsSpec
  <1>1. IInv /\ IInv' /\ BytesInv /\ [Next]_vars => BytesInv'  BY NextBytes
  <1>2. IInv /\ IInv' /\ BytesInv /\ [Next]_vars => [Records!Next]_(Records!vars)
    BY StepOfRecords
  <1> QED BY <1>1, <1>2, InitInv, NextInv, InitBytes, InitOfRecords, PTL
          DEF Spec, RecordsSpec, Records!Spec
=============================================================================
