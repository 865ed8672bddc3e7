------------------------------ MODULE Nicknames ------------------------------
(***************************************************************************)
(* The nickname rules of src/nicknames.{h,cpp}: prices, the demand-driven  *)
(* price multiplier, and the life-cycle status of a name at a height.      *)
(*                                                                         *)
(* Everything here is a pure function.  Amounts and multipliers are never  *)
(* negative where the code divides, so C++ truncation and \div agree.      *)
(***************************************************************************)
EXTENDS Integers

CONSTANTS
  COIN,           \* base units in one coin (10^8 in the code)
  ActiveBlocks,   \* -nicknameactiveblocks: blocks a name stays active
  GraceBlocks,    \* -nicknamegraceblocks: blocks of grace after that
  PricingTarget   \* PRICING_TARGET_REGISTRATIONS_7D

ASSUME CoinAssumption == COIN \in Nat \ {0}
ASSUME PeriodAssumption == ActiveBlocks \in Nat /\ GraceBlocks \in Nat
ASSUME TargetAssumption == PricingTarget \in Nat \ {0}

DefaultMultiplier == 1000
MinMultiplier == 500
MaxMultiplier == 3000
RenewalPercent == 25
AlphaPercent == 20
StepLimitPercent == 10

-----------------------------------------------------------------------------
(* Prices.                                                                 *)

GetBasePricing(len) ==
  LET price(fee, bond) == [fee |-> fee * COIN, bond |-> bond * COIN]
  IN  CASE len = 4 -> price(24, 48)
        [] len = 5 -> price(12, 24)
        [] len = 6 -> price(6, 12)
        [] len = 7 -> price(3, 6)
        [] OTHER   -> price(1, 3)

ScaleByMultiplier(base, m) ==
  IF base <= 0 \/ m <= 0 THEN 0 ELSE (base * m + 500) \div 1000

ClampMultiplier(m) ==
  IF m < MinMultiplier THEN MinMultiplier
  ELSE IF m > MaxMultiplier THEN MaxMultiplier
  ELSE m

GetPricing(len, m) ==
  [fee  |-> ScaleByMultiplier(GetBasePricing(len).fee, ClampMultiplier(m)),
   bond |-> ScaleByMultiplier(GetBasePricing(len).bond, ClampMultiplier(m))]

GetRenewalBondIncrease(len, m) ==
  (GetPricing(len, m).fee * RenewalPercent) \div 100

-----------------------------------------------------------------------------
(* The multiplier for the next epoch: an exponential average of the last   *)
(* one and the demand relative to the target, moved by at most             *)
(* StepLimitPercent and kept within the global bounds.                     *)

RawMultiplier(recent) ==
  IF recent > 0 THEN (recent * 1000) \div PricingTarget ELSE 0

SmoothedMultiplier(prev, raw) ==
  ClampMultiplier(((100 - AlphaPercent) * prev + AlphaPercent * raw + 50) \div 100)

(* Mutant: the lower step limit is not applied. *)
MutStepLimited(prev, m) ==
  LET upper == (prev * (100 + StepLimitPercent)) \div 100
  IN  IF m > upper THEN upper ELSE m

StepLimited(prev, m) ==
  LET lower == (prev * (100 - StepLimitPercent) + 99) \div 100
      upper == (prev * (100 + StepLimitPercent)) \div 100
      raised == IF m < lower THEN lower ELSE m
  IN  IF raised > upper THEN upper ELSE raised

ComputeNextMultiplier(previous, recent) ==
  LET prev == ClampMultiplier(previous)
  IN  ClampMultiplier(
        StepLimited(prev, SmoothedMultiplier(prev, RawMultiplier(recent))))

-----------------------------------------------------------------------------
(* Life cycle.                                                             *)

Statuses ==
  {"ACTIVE", "EXPIRED_GRACE", "EXPIRED_AVAILABLE", "RELEASED", "BOND_CLAIMABLE"}

(* Mutant: the last grace block is taken from the owner. *)
MutGetStatus(info, h) ==
  IF info.released
  THEN IF info.bondClaimed THEN "RELEASED" ELSE "BOND_CLAIMABLE"
  ELSE IF h <= info.activeUntil THEN "ACTIVE"
  ELSE IF h < info.graceUntil THEN "EXPIRED_GRACE"
  ELSE IF info.bondClaimed THEN "EXPIRED_AVAILABLE" ELSE "BOND_CLAIMABLE"

(* info is a nickname record; h the height of the block being judged.      *)
GetStatus(info, h) ==
  IF info.released
  THEN IF info.bondClaimed THEN "RELEASED" ELSE "BOND_CLAIMABLE"
  ELSE IF h <= info.activeUntil THEN "ACTIVE"
  ELSE IF h <= info.graceUntil THEN "EXPIRED_GRACE"
  ELSE IF info.bondClaimed THEN "EXPIRED_AVAILABLE" ELSE "BOND_CLAIMABLE"

=============================================================================
