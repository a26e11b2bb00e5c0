--------------------------- MODULE MCClaimsBitmap ---------------------------
(***************************************************************************)
(* Bytes have their real size.  Header and allocation limits are scaled    *)
(* down: 8 records fit the first allocation, 9 and 17 need one upsize, 33  *)
(* need two and 41 are too many.                                           *)
(***************************************************************************)
EXTENDS ClaimsBitmap

BitmapNodes == {0, 1, 7, 8, 9, 17, 33, 41}
BitmapIndices == {0, 1, 6, 7, 8, 9, 15, 16, 31, 32, 33}
=============================================================================
