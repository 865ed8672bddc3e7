-------------------------- MODULE NicknameDBProofs --------------------------
(***************************************************************************)
(* Facts for every value of the constants: about the price rules of        *)
(* Nicknames, and about what the two batches of NicknameDB do to a         *)
(* database.  The rolling count slides with the window, and the undo batch *)
(* is the exact inverse of the batch it was recorded with.                 *)
(***************************************************************************)
EXTENDS NicknameDB, FiniteSetTheorems, TLAPS

-----------------------------------------------------------------------------
(* The price rules.                                                        *)

(* ClampPricingMultiplierPermille returns a value in its range, and leaves *)
(* one that is in it alone.                                                *)
LEMMA ClampRange ==
  \A m \in Int :
    /\ ClampMultiplier(m) \in Int
    /\ 500 <= ClampMultiplier(m) /\ ClampMultiplier(m) <= 3000
    /\ 500 <= m /\ m <= 3000 => ClampMultiplier(m) = m
  BY DEF ClampMultiplier, MinMultiplier, MaxMultiplier

(* A multiplier in its range is an integer.                                *)
LEMMA BoundsInt == \A m \in MinMultiplier .. MaxMultiplier : m \in Int
  BY DEF MinMultiplier, MaxMultiplier

(* Demand relative to the target is a natural number: the code divides by  *)
(* a positive target.                                                      *)
LEMMA RawType == \A r \in Nat : RawMultiplier(r) \in Nat
  BY TargetAssumption DEF RawMultiplier

(* The smoothed multiplier lies between the previous one and the demand.   *)
LEMMA SmoothedRange ==
  ASSUME NEW p \in Int, 500 <= p, p <= 3000, NEW raw \in Nat
  PROVE  LET s == SmoothedMultiplier(p, raw)
         IN  s \in Int /\ (raw >= p => s >= p) /\ (raw <= p => s <= p)
<1> DEFINE avg == (80 * p + 20 * raw + 50) \div 100
<1>1. avg \in Int /\ (raw >= p => avg >= p) /\ (raw <= p => avg <= p)
  OBVIOUS
<1>2. SmoothedMultiplier(p, raw) = ClampMultiplier(avg)
  BY DEF SmoothedMultiplier, AlphaPercent
<1> QED
  BY <1>1, <1>2 DEF ClampMultiplier, MinMultiplier, MaxMultiplier

(* The step limit moves the multiplier by at most a tenth and never past   *)
(* the value it was given.                                                 *)
LEMMA StepLimitedRange ==
  ASSUME NEW p \in Int, 500 <= p, p <= 3000, NEW s \in Int
  PROVE  LET t == StepLimited(p, s)
         IN  /\ t \in Int
             /\ 100 * t >= 90 * p /\ 100 * t <= 110 * p
             /\ (s >= p => t >= p) /\ (s <= p => t <= p)
<1> DEFINE lower == (p * 90 + 99) \div 100
           upper == (p * 110) \div 100
<1>1. /\ lower \in Int /\ 100 * lower >= 90 * p /\ lower <= p
      /\ upper \in Int /\ 100 * upper <= 110 * p /\ upper >= p
  OBVIOUS
<1>2. StepLimited(p, s) =
        LET raised == IF s < lower THEN lower ELSE s
        IN  IF raised > upper THEN upper ELSE raised
  BY DEF StepLimited, StepLimitPercent
<1> HIDE DEF lower, upper
<1> QED
  BY <1>1, <1>2

(* Prices follow demand, gradually and within bounds: at an epoch          *)
(* boundary ComputeNextPricingMultiplierPermille moves a multiplier that   *)
(* is within the bounds to one within the bounds, by at most a tenth, up   *)
(* only when registrations exceed what the current price expects and down  *)
(* only when they fall short of it.                                        *)
THEOREM MultiplierFollowsDemand ==
  ASSUME NEW p \in MinMultiplier .. MaxMultiplier, NEW r \in Nat
  PROVE  LET next == ComputeNextMultiplier(p, r)
         IN  /\ next \in MinMultiplier .. MaxMultiplier
             /\ 100 * next >= 90 * p /\ 100 * next <= 110 * p
             /\ RawMultiplier(r) >= p => next >= p
             /\ RawMultiplier(r) <= p => next <= p
<1> DEFINE raw == RawMultiplier(r)
           s == SmoothedMultiplier(p, raw)
           t == StepLimited(p, s)
<1>1. p \in Int /\ 500 <= p /\ p <= 3000
  BY DEF MinMultiplier, MaxMultiplier
<1>2. ClampMultiplier(p) = p
  BY <1>1, ClampRange
<1>3. ComputeNextMultiplier(p, r) = ClampMultiplier(t)
  BY <1>2 DEF ComputeNextMultiplier
<1>4. raw \in Nat
  BY RawType
<1>5. s \in Int /\ (raw >= p => s >= p) /\ (raw <= p => s <= p)
  BY <1>1, <1>4, SmoothedRange
<1>6. /\ t \in Int
      /\ 100 * t >= 90 * p /\ 100 * t <= 110 * p
      /\ (s >= p => t >= p) /\ (s <= p => t <= p)
  BY <1>1, <1>5, StepLimitedRange
<1> HIDE DEF raw, s, t
<1>7. /\ 100 * ClampMultiplier(t) >= 90 * p /\ 100 * ClampMultiplier(t) <= 110 * p
      /\ ClampMultiplier(t) \in MinMultiplier .. MaxMultiplier
      /\ raw >= p => ClampMultiplier(t) >= p
      /\ raw <= p => ClampMultiplier(t) <= p
  BY <1>1, <1>4, <1>5, <1>6 DEF ClampMultiplier, MinMultiplier, MaxMultiplier
<1> QED
  BY <1>3, <1>7 DEF raw

-----------------------------------------------------------------------------
(* Base prices are positive, and the bond is at least twice the fee.       *)
LEMMA BasePrice ==
  \A len \in Nat :
    LET base == GetBasePricing(len)
    IN  /\ base.fee \in Nat /\ base.bond \in Nat
        /\ base.fee >= 1 /\ base.bond >= 2 * base.fee
  BY CoinAssumption DEF GetBasePricing

(* Rounding to the nearest unit keeps a scaled price positive and between  *)
(* half and three times the base price.                                    *)
LEMMA Scaled ==
  ASSUME NEW base \in Nat, base >= 1, NEW m \in Int, 500 <= m, m <= 3000
  PROVE  LET price == ScaleByMultiplier(base, m)
         IN  /\ price \in Nat /\ price >= 1
             /\ 2 * price >= base /\ price <= 3 * base
<1>1. base * m \in Int /\ base * m >= 500 * base /\ base * m <= 3000 * base
  OBVIOUS
<1>2. ScaleByMultiplier(base, m) = (base * m + 500) \div 1000
  BY DEF ScaleByMultiplier
<1> QED
  BY <1>1, <1>2

(* Whatever multiplier is stored, a name costs something: GetPricing asks  *)
(* for a positive fee and a positive bond between half and three times the *)
(* base price, and the bond is at least the fee.                           *)
THEOREM PriceBounds ==
  ASSUME NEW len \in Nat, NEW m \in Int
  PROVE  LET price == GetPricing(len, m)
             base  == GetBasePricing(len)
         IN  /\ price.fee \in Nat /\ price.fee >= 1
             /\ price.bond \in Nat /\ price.bond >= price.fee
             /\ 2 * price.fee >= base.fee /\ price.fee <= 3 * base.fee
             /\ 2 * price.bond >= base.bond /\ price.bond <= 3 * base.bond
<1> DEFINE f == GetBasePricing(len).fee
           b == GetBasePricing(len).bond
           c == ClampMultiplier(m)
<1>1. f \in Nat /\ b \in Nat /\ f >= 1 /\ b >= 2 * f
  BY BasePrice
<1>2. c \in Int /\ 500 <= c /\ c <= 3000
  BY ClampRange
<1>3. GetPricing(len, m).fee = ScaleByMultiplier(f, c)
  BY DEF GetPricing
<1>4. GetPricing(len, m).bond = ScaleByMultiplier(b, c)
  BY DEF GetPricing
<1> HIDE DEF f, b, c
<1>5. ScaleByMultiplier(b, c) >= ScaleByMultiplier(f, c)
  <2>1. f * c \in Int /\ b * c \in Int /\ b * c >= f * c
    BY <1>1, <1>2
  <2> QED
    BY <1>1, <1>2, <2>1 DEF ScaleByMultiplier
<1> QED
  BY <1>1, <1>2, <1>3, <1>4, <1>5, Scaled DEF f, b

(* A renewal never lowers the bond.                                        *)
LEMMA RenewalIncreaseType ==
  \A len \in Nat, m \in Int : GetRenewalBondIncrease(len, m) \in Nat
  BY PriceBounds DEF GetRenewalBondIncrease, RenewalPercent

-----------------------------------------------------------------------------
(* The database.                                                           *)

Counts == [0 .. MaxHeight -> 0 .. MaxBlockTxs]

(* The outpoint GetBondOutpoint returns is an outpoint, or the null one.   *)
LEMMA BondOfType ==
  \A i \in Info \cup {NoInfo} : BondOf(i) \in Outpoint \cup {NoBond}
  BY DEF BondOf, HasBondOutpoint, Info

-----------------------------------------------------------------------------
(* The registrations of a range of heights.                                *)

(* A range of heights has finitely many registrations, so they can be      *)
(* counted.                                                                *)
LEMMA RegistrationsFinite ==
  ASSUME NEW rc \in Counts, NEW f \in Int, NEW t \in Int
  PROVE  /\ IsFiniteSet(Registrations(rc, f, t))
         /\ Cardinality(Registrations(rc, f, t)) \in Nat
<1>1. IsFiniteSet(f .. t)
  BY FS_Interval
<1>2. IsFiniteSet(1 .. MaxBlockTxs)
  BY FS_Interval, BoundAssumption
<1>3. IsFiniteSet((f .. t) \X (1 .. MaxBlockTxs))
  BY <1>1, <1>2, FS_Product, Zenon
<1>4. Registrations(rc, f, t) \in SUBSET ((f .. t) \X (1 .. MaxBlockTxs))
  BY DEF Registrations
<1>5. IsFiniteSet(Registrations(rc, f, t))
  BY <1>3, <1>4, FS_Subset
<1> QED
  BY <1>5, FS_CardinalityType

(* The registrations at one height are as many as the stored count says.   *)
LEMMA RegistrationsAt ==
  ASSUME NEW rc \in Counts, NEW x \in 0 .. MaxHeight
  PROVE  Cardinality(Registrations(rc, x, x)) = rc[x]
<1>1. rc[x] \in 0 .. MaxBlockTxs
  BY DEF Counts
<1>2. rc[x] \in Nat /\ rc[x] <= MaxBlockTxs
  BY <1>1, BoundAssumption
<1>3. Registrations(rc, x, x) = {x} \X (1 .. rc[x])
  <2>1. x .. x = {x}
    BY BoundAssumption
  <2> QED
    BY <1>2, <2>1, BoundAssumption DEF Registrations
<1>4. IsFiniteSet({x}) /\ Cardinality({x}) = 1
  BY FS_Singleton, Zenon
<1> DEFINE k == rc[x]
<1> HIDE DEF k
<1>5. IsFiniteSet(1 .. k) /\ Cardinality(1 .. k) = k
  <2>1. k \in Int /\ 1 \in Int
    BY <1>2 DEF k
  <2>2. IsFiniteSet(1 .. k) /\ Cardinality(1 .. k) = IF 1 > k THEN 0 ELSE k - 1 + 1
    BY <2>1, FS_Interval, Zenon
  <2> QED
    BY <1>2, <2>2 DEF k
<1>6. Cardinality({x} \X (1 .. k)) = Cardinality({x}) * Cardinality(1 .. k)
  BY <1>4, <1>5, FS_Product, Zenon
<1> QED
  BY <1>2, <1>3, <1>4, <1>5, <1>6 DEF k

(* A range of heights splits at any point.                                 *)
LEMMA RegistrationsSplit ==
  ASSUME NEW rc \in Counts, NEW f \in Int, NEW k \in Int, NEW t \in Int,
         f <= k + 1, k <= t
  PROVE  Cardinality(Registrations(rc, f, t)) =
           Cardinality(Registrations(rc, f, k))
             + Cardinality(Registrations(rc, k + 1, t))
<1> DEFINE A == Registrations(rc, f, k)
           B == Registrations(rc, k + 1, t)
<1>1. Registrations(rc, f, t) = A \cup B
  <2>1. f .. t = (f .. k) \cup (k + 1 .. t)
    OBVIOUS
  <2> QED
    BY <2>1 DEF Registrations
<1>2. A \cap B = {}
  <2>1. (f .. k) \cap (k + 1 .. t) = {}
    OBVIOUS
  <2> QED
    BY <2>1 DEF Registrations
<1>3. IsFiniteSet(A) /\ IsFiniteSet(B) /\ Cardinality(A) \in Nat /\ Cardinality(B) \in Nat
  BY RegistrationsFinite
<1> HIDE DEF A, B
<1>4. Cardinality(A \cup B) = Cardinality(A) + Cardinality(B) - Cardinality(A \cap B)
  BY <1>3, FS_Union
<1>5. Cardinality(A \cap B) = 0
  BY <1>2, FS_EmptySet
<1> QED
  BY <1>1, <1>3, <1>4, <1>5 DEF A, B

(* RebuildRollingRegistrations returns a natural number.                   *)
LEMMA RebuildRollingType ==
  ASSUME NEW d, d.regCount \in Counts, NEW t \in Int
  PROVE  RebuildRolling(d, t) \in Nat
<1> DEFINE from == IF t - PricingWindow + 1 > 0 THEN t - PricingWindow + 1 ELSE 0
<1>1. from \in Int
  BY WindowAssumption
<1>2. Cardinality(Registrations(d.regCount, from, t)) \in Nat
  BY <1>1, RegistrationsFinite
<1> QED
  BY <1>2 DEF RebuildRolling

(* Moving the window of ComputeNextPricingState up to a block at height h: *)
(* what leaves is the count at DroppedHeight(h), what enters is r.         *)
LEMMA WindowSlides ==
  ASSUME NEW d, d.regCount \in Counts, NEW h \in 1 .. MaxHeight,
         NEW e, NEW r \in 0 .. MaxBlockTxs,
         e.regCount = [d.regCount EXCEPT ![h] = r]
  PROVE  RebuildRolling(e, h) =
           RebuildRolling(d, h - 1) - RegistrationCount(d, DroppedHeight(h)) + r
<1> DEFINE rc == d.regCount
           rd == e.regCount
           lo == IF h - PricingWindow > 0 THEN h - PricingWindow ELSE 0
           hi == IF h - PricingWindow + 1 > 0 THEN h - PricingWindow + 1 ELSE 0
           R(c, f, t) == Cardinality(Registrations(c, f, t))
<1>1. /\ rc \in Counts /\ h \in Int /\ h >= 1 /\ h <= MaxHeight /\ MaxHeight \in Nat
      /\ lo \in Int /\ hi \in Int /\ 0 <= lo /\ lo <= hi /\ hi <= h /\ lo <= h - 1
      /\ PricingWindow \in Nat /\ PricingWindow >= 1
  BY BoundAssumption, WindowAssumption
<1>2. rd \in Counts /\ rd[h] = r
  <2>1. h \in 0 .. MaxHeight
    BY <1>1
  <2>2. rc \in [0 .. MaxHeight -> 0 .. MaxBlockTxs] /\ rd = [rc EXCEPT ![h] = r]
    BY DEF Counts
  <2> HIDE DEF rc, rd
  <2> QED
    BY <2>1, <2>2 DEF Counts
<1>3. RebuildRolling(e, h) = R(rd, hi, h)
  BY <1>1 DEF RebuildRolling
<1>4. RebuildRolling(d, h - 1) = R(rc, lo, h - 1)
  <2>1. h - 1 - PricingWindow + 1 = h - PricingWindow /\ ~(h - 1 < 0)
    BY <1>1
  <2> QED
    BY <2>1 DEF RebuildRolling
<1> HIDE DEF rc, rd
<1>5. R(rd, hi, h) = R(rd, hi, h - 1) + r
  <2> HIDE DEF lo, hi
  <2>1. R(rd, hi, h) = R(rd, hi, h - 1) + R(rd, h - 1 + 1, h)
    BY <1>1, <1>2, RegistrationsSplit
  <2>2. R(rd, h, h) = r
    <3>1. h \in 0 .. MaxHeight
      BY <1>1
    <3> QED
      BY <1>2, <3>1, RegistrationsAt
  <2> QED
    BY <1>1, <2>1, <2>2
<1>6. Registrations(rd, hi, h - 1) = Registrations(rc, hi, h - 1)
  <2>1. \A p \in (hi .. h - 1) \X (1 .. MaxBlockTxs) : rd[p[1]] = rc[p[1]]
    <3> SUFFICES ASSUME NEW x \in hi .. h - 1
                 PROVE  rd[x] = rc[x]
      OBVIOUS
    <3>1. x \in 0 .. MaxHeight /\ x # h
      BY <1>1
    <3> QED
      BY <3>1 DEF Counts, rc, rd
  <2> QED
    BY <2>1 DEF Registrations
<1>7. R(rc, lo, h - 1) = R(rc, hi, h - 1) + RegistrationCount(d, DroppedHeight(h))
  <2>1. CASE h - PricingWindow >= 0
    <3>1. lo = h - PricingWindow /\ hi = lo + 1 /\ lo \in 0 .. MaxHeight
      BY <1>1, <2>1
    <3>2. R(rc, lo, h - 1) = R(rc, lo, lo) + R(rc, lo + 1, h - 1)
      BY <1>1, <3>1, RegistrationsSplit
    <3>3. R(rc, lo, lo) = rc[lo]
      BY <1>1, <3>1, RegistrationsAt
    <3>4. RegistrationCount(d, DroppedHeight(h)) = rc[lo]
      BY <1>1, <2>1, <3>1 DEF RegistrationCount, DroppedHeight, rc
    <3>5. R(rc, hi, h - 1) \in Nat /\ R(rc, lo, lo) \in Nat
      BY <1>1, RegistrationsFinite
    <3> QED
      BY <3>1, <3>2, <3>3, <3>4, <3>5
  <2>2. CASE h - PricingWindow < 0
    <3>1. lo = 0 /\ hi = 0
      BY <1>1, <2>2
    <3>2. RegistrationCount(d, DroppedHeight(h)) = 0
      BY <2>2 DEF RegistrationCount, DroppedHeight
    <3>3. R(rc, 0, h - 1) \in Nat
      BY <1>1, RegistrationsFinite
    <3> QED
      BY <3>1, <3>2, <3>3
  <2> QED
    BY <1>1, <2>1, <2>2
<1>8. R(rc, hi, h - 1) \in Nat /\ R(rc, lo, h - 1) \in Nat
  BY <1>1, RegistrationsFinite
<1>9. RegistrationCount(d, DroppedHeight(h)) \in Int
  BY <1>1, BoundAssumption DEF RegistrationCount, DroppedHeight, Counts
<1> HIDE DEF R, lo, hi
<1>10. R(rd, hi, h - 1) = R(rc, hi, h - 1)
  BY <1>6 DEF R
<1> QED
  BY <1>3, <1>4, <1>5, <1>7, <1>8, <1>9, <1>10, BoundAssumption

(* The pricing state after a block at height h: the multiplier stays in    *)
(* its bounds, and if the stored rolling count was right before the block, *)
(* or is not the previous block's, it is right after it.                   *)
LEMMA NextPricing ==
  ASSUME NEW d \in DB, NEW h \in 1 .. MaxHeight, NEW r \in 0 .. MaxBlockTxs,
         NEW e, e.regCount = [d.regCount EXCEPT ![h] = r],
         d.pricing.lastHeight = h - 1 =>
           d.pricing.rolling = RebuildRolling(d, h - 1)
  PROVE  LET next == ComputeNextPricing(d, h, r)
         IN  /\ next \in Pricing
             /\ next.lastHeight = h
             /\ next.rolling = RebuildRolling(e, h)
<1> DEFINE prev == d.pricing
           base == IF prev.lastHeight + 1 # h THEN RebuildRolling(d, h - 1)
                                              ELSE prev.rolling
           sum  == base - RegistrationCount(d, DroppedHeight(h)) + r
           roll == IF sum < 0 THEN 0 ELSE sum
           mult == ClampMultiplier(IF h > 0 /\ h % PricingEpoch = 0
                                   THEN ComputeNextMultiplier(prev.multiplier, roll)
                                   ELSE prev.multiplier)
<1>1. /\ d.regCount \in Counts
      /\ prev.lastHeight \in Int /\ prev.rolling \in Nat
      /\ prev.multiplier \in MinMultiplier .. MaxMultiplier
  BY DEF DB, Pricing, Counts
<1>2. h \in Int
  BY BoundAssumption
<1>3. base = RebuildRolling(d, h - 1)
  BY <1>1, <1>2
<1>4. RebuildRolling(e, h) = sum
  BY <1>1, <1>3, WindowSlides
<1>5. RebuildRolling(e, h) \in Nat
  <2>1. e.regCount \in Counts
    BY <1>1 DEF Counts
  <2> QED
    BY <1>2, <2>1, RebuildRollingType
<1>6. roll = RebuildRolling(e, h) /\ roll \in Nat
  BY <1>4, <1>5
<1>7. ComputeNextPricing(d, h, r) = [lastHeight |-> h, rolling |-> roll, multiplier |-> mult]
  BY DEF ComputeNextPricing
<1> HIDE DEF roll
<1>8. mult \in MinMultiplier .. MaxMultiplier
  <2>1. prev.multiplier \in Int
    BY <1>1, BoundsInt
  <2>2. ComputeNextMultiplier(prev.multiplier, roll) \in Int
    <3>1. ComputeNextMultiplier(prev.multiplier, roll) \in MinMultiplier .. MaxMultiplier
      BY <1>1, <1>6, MultiplierFollowsDemand
    <3> QED
      BY <3>1, BoundsInt
  <2> DEFINE m == IF h > 0 /\ h % PricingEpoch = 0
                  THEN ComputeNextMultiplier(prev.multiplier, roll)
                  ELSE prev.multiplier
  <2>3. m \in Int
    BY <2>1, <2>2
  <2> HIDE DEF m
  <2>4. ClampMultiplier(m) \in Int /\ 500 <= ClampMultiplier(m) /\ ClampMultiplier(m) <= 3000
    BY <2>3, ClampRange
  <2>5. ClampMultiplier(m) \in MinMultiplier .. MaxMultiplier
    BY <2>4 DEF MinMultiplier, MaxMultiplier
  <2> QED
    BY <2>5 DEF m
<1> HIDE DEF mult
<1> QED
  BY <1>2, <1>6, <1>7, <1>8 DEF Pricing

-----------------------------------------------------------------------------
(* The owner index.                                                        *)

(* Rewriting the owner entries of the changed names turns the exact index  *)
(* of the old records into that of the new ones.                           *)
LEMMA ReownedExact ==
  ASSUME NEW old, NEW new, NEW S \in SUBSET Name,
         \A n \in Name \ S : new[n] = old[n]
  PROVE  Reowned(OwnerEntries(old, Name), old, new, S) = OwnerEntries(new, Name)
  BY DEF Reowned, OwnerEntries

(* The entries of a set of records are entries of the owner index.         *)
LEMMA OwnerEntriesType ==
  ASSUME NEW rec \in [Name -> Info \cup {NoInfo}], NEW S \in SUBSET Name
  PROVE  OwnerEntries(rec, S) \in SUBSET (Owner \X Name)
  BY DEF OwnerEntries, Info

(* Reowned and OwnerEntries look only at the records of the names given.   *)
LEMMA ReownedExt ==
  ASSUME NEW idx, NEW S, NEW old1, NEW old2, NEW new1, NEW new2,
         \A n \in S : old1[n] = old2[n] /\ new1[n] = new2[n]
  PROVE  Reowned(idx, old1, new1, S) = Reowned(idx, old2, new2, S)
  BY DEF Reowned, OwnerEntries

(* Reindexed looks only at the records of the names given.                 *)
LEMMA ReindexedExt ==
  ASSUME NEW idx, NEW S, NEW old1, NEW old2, NEW new1, NEW new2,
         \A n \in S : old1[n] = old2[n] /\ new1[n] = new2[n]
  PROVE  Reindexed(idx, old1, new1, S) = Reindexed(idx, old2, new2, S)
  BY Zenon DEF Reindexed

-----------------------------------------------------------------------------
(* What the batches rely on: the records' bonds are indexed, the owner     *)
(* index is exact, the block's own height has no count yet, and a bond     *)
(* that a dirty record has after the block is either the one it had or was *)
(* not indexed.                                                            *)
Consistent(d) ==
  /\ d \in DB
  /\ \A n \in Name : BondOf(d.rec[n]) # NoBond => d.bondIdx[BondOf(d.rec[n])] = n
  /\ d.ownerIdx = RebuildOwnerIndex(d)

ProperUpdate(d, upd) ==
  /\ upd.dirty \in SUBSET Name
  /\ upd.current \in [Name -> Info \cup {NoInfo}]
  /\ upd.bondUp \in [Outpoint -> Name \cup {NoName}]
  /\ upd.bondErase \in SUBSET Outpoint
  /\ upd.registered \in 0 .. MaxBlockTxs
  /\ \A n \in Name \ upd.dirty : upd.current[n] = d.rec[n]
  /\ \A n \in Name :
       LET o == BondOf(upd.current[n])
       IN  o # NoBond => d.bondIdx[o] = NoName \/ BondOf(d.rec[n]) = o

(* After the batch the stored records are those of the working copy.       *)
LEMMA BatchRecords ==
  ASSUME NEW d \in DB, NEW upd, ProperUpdate(d, upd), NEW h
  PROVE  WriteNicknameBatch(d, upd, h).rec = upd.current
<1> DEFINE w == [n \in Name |-> IF n \in upd.dirty THEN upd.current[n] ELSE d.rec[n]]
<1>1. \A n \in Name : w[n] = upd.current[n]
  BY DEF ProperUpdate
<1>2. w = upd.current
  BY <1>1 DEF ProperUpdate
<1> QED
  BY <1>2 DEF WriteNicknameBatch

(* The entry w for the outpoint o in the index after the batch upd on d.   *)
EntryAfter(d, upd, o, w) ==
  /\ upd.bondUp[o] # NoName => w = upd.bondUp[o]
  /\ upd.bondUp[o] = NoName /\ o \in upd.bondErase => w = NoName
  /\ upd.bondUp[o] = NoName /\ o \notin upd.bondErase =>
       /\ (\E n \in Name : BondOf(upd.current[n]) = o) =>
            w \in Name /\ BondOf(upd.current[w]) = o
       /\ (\A n \in Name : BondOf(upd.current[n]) # o /\ BondOf(d.rec[n]) # o)
            => w = d.bondIdx[o]
       /\ \/ w \in {NoName, d.bondIdx[o]}
          \/ w \in Name /\ BondOf(upd.current[w]) = o

(* Every index entry after the batch is that of a bond some record has, or *)
(* one the block kept, or an old one.                                      *)
LEMMA BatchBondIndex ==
  ASSUME NEW d, Consistent(d), NEW upd, ProperUpdate(d, upd), NEW h,
         NEW o \in Outpoint
  PROVE  EntryAfter(d, upd, o, WriteNicknameBatch(d, upd, h).bondIdx[o])
<1> DEFINE w == WriteNicknameBatch(d, upd, h).bondIdx[o]
           ri == Reindexed(d.bondIdx, d.rec, upd.current, upd.dirty)[o]
<1>1. w = IF upd.bondUp[o] # NoName THEN upd.bondUp[o]
          ELSE IF o \in upd.bondErase THEN NoName ELSE ri
  BY DEF WriteNicknameBatch
<1>2. ri = IF \E n \in upd.dirty : BondOf(upd.current[n]) = o
           THEN CHOOSE n \in upd.dirty : BondOf(upd.current[n]) = o
           ELSE IF \E n \in upd.dirty : BondOf(d.rec[n]) = o THEN NoName
           ELSE d.bondIdx[o]
  BY DEF Reindexed
<1> HIDE DEF ri, w
<1>3. ASSUME \E n \in upd.dirty : BondOf(upd.current[n]) = o
      PROVE  ri \in upd.dirty /\ BondOf(upd.current[ri]) = o
  BY <1>2, <1>3
<1>4. ASSUME NEW n \in Name, BondOf(upd.current[n]) = o,
             ~\E m \in upd.dirty : BondOf(upd.current[m]) = o
      PROVE  ri = n
  <2>1. n \notin upd.dirty /\ upd.current[n] = d.rec[n]
    BY <1>4 DEF ProperUpdate
  <2>2. o # NoBond
    BY SentinelAssumption
  <2>3. d.bondIdx[o] = n
    BY <1>4, <2>1, <2>2 DEF Consistent
  <2>4. ~\E m \in upd.dirty : BondOf(d.rec[m]) = o
    <3> SUFFICES ASSUME NEW m \in upd.dirty, BondOf(d.rec[m]) = o
                 PROVE  FALSE
      OBVIOUS
    <3>1. m \in Name
      BY DEF ProperUpdate
    <3>2. d.bondIdx[o] = m
      BY <2>2, <3>1 DEF Consistent
    <3> QED
      BY <2>1, <2>3, <3>2
  <2> QED
    BY <1>2, <1>4, <2>3, <2>4
<1>5. upd.dirty \subseteq Name
  BY DEF ProperUpdate
<1>6. (\E n \in Name : BondOf(upd.current[n]) = o) =>
         ri \in Name /\ BondOf(upd.current[ri]) = o
  BY <1>3, <1>4, <1>5
<1>7. (\A n \in Name : BondOf(upd.current[n]) # o /\ BondOf(d.rec[n]) # o)
         => ri = d.bondIdx[o]
  BY <1>2, <1>5
<1>8. \/ ri \in {NoName, d.bondIdx[o]}
      \/ ri \in Name /\ BondOf(upd.current[ri]) = o
  BY <1>2, <1>3, <1>5
<1> QED
  BY <1>1, <1>6, <1>7, <1>8 DEF EntryAfter, w

(* The batch that connects a block leaves a well-formed database with an   *)
(* exact owner index and an exact rolling count.                           *)
LEMMA BatchGood ==
  ASSUME NEW d, Consistent(d), NEW upd, ProperUpdate(d, upd),
         NEW h \in 1 .. MaxHeight,
         d.pricing.lastHeight = h - 1 =>
           d.pricing.rolling = RebuildRolling(d, h - 1)
  PROVE  LET w == WriteNicknameBatch(d, upd, h)
         IN  /\ w \in DB
             /\ w.ownerIdx = RebuildOwnerIndex(w)
             /\ w.regCount = [d.regCount EXCEPT ![h] = upd.registered]
             /\ w.pricing.lastHeight = h
             /\ w.pricing.rolling = RebuildRolling(w, h)
<1> DEFINE w == WriteNicknameBatch(d, upd, h)
<1>1. w = [rec |-> w.rec, bondIdx |-> w.bondIdx, ownerIdx |-> w.ownerIdx,
           regCount |-> w.regCount, pricing |-> w.pricing]
  BY DEF WriteNicknameBatch
<1>2. d \in DB
  BY DEF Consistent
<1>3. w.rec = upd.current /\ w.rec \in [Name -> Info \cup {NoInfo}]
  BY <1>2, BatchRecords DEF ProperUpdate
<1>4. w.bondIdx \in [Outpoint -> Name \cup {NoName}]
  <2>1. \A o \in Outpoint : w.bondIdx[o] \in Name \cup {NoName}
    <3> SUFFICES ASSUME NEW o \in Outpoint
                 PROVE  w.bondIdx[o] \in Name \cup {NoName}
      OBVIOUS
    <3>1. upd.bondUp[o] \in Name \cup {NoName} /\ d.bondIdx[o] \in Name \cup {NoName}
      BY <1>2 DEF ProperUpdate, DB
    <3> QED
      BY <3>1, BatchBondIndex DEF EntryAfter
  <2>2. w.bondIdx = [o \in Outpoint |-> w.bondIdx[o]]
    BY DEF WriteNicknameBatch
  <2> HIDE DEF w
  <2> QED
    BY <2>1, <2>2
<1>5. w.ownerIdx = RebuildOwnerIndex(w)
  <2>1. w.ownerIdx = Reowned(OwnerEntries(d.rec, Name), d.rec, upd.current, upd.dirty)
    BY DEF WriteNicknameBatch, Consistent, RebuildOwnerIndex
  <2>2. w.ownerIdx = OwnerEntries(upd.current, Name)
    BY <2>1, ReownedExact DEF ProperUpdate
  <2> QED
    BY <1>3, <2>2 DEF RebuildOwnerIndex
<1>6. w.ownerIdx \in SUBSET (Owner \X Name)
  BY <1>3, <1>5, OwnerEntriesType DEF RebuildOwnerIndex
<1>7. w.regCount = [d.regCount EXCEPT ![h] = upd.registered]
  BY DEF WriteNicknameBatch
<1>8. w.regCount \in [0 .. MaxHeight -> 0 .. MaxBlockTxs]
  BY <1>2, <1>7 DEF DB, ProperUpdate
<1>9. w.pricing = ComputeNextPricing(d, h, upd.registered)
  BY DEF WriteNicknameBatch
<1>10. upd.registered \in 0 .. MaxBlockTxs
  BY DEF ProperUpdate
<1> HIDE DEF w
<1>11. /\ w.pricing \in Pricing
       /\ w.pricing.lastHeight = h
       /\ w.pricing.rolling = RebuildRolling(w, h)
  BY <1>2, <1>7, <1>9, <1>10, NextPricing
<1>12. w \in DB
  BY <1>1, <1>3, <1>4, <1>6, <1>8, <1>11 DEF DB
<1> QED
  BY <1>5, <1>7, <1>11, <1>12 DEF w

(* ApplyNicknameUndo is the exact inverse of the WriteNicknameBatch it was *)
(* recorded with: from the records before the block, the remembered index  *)
(* entries and the remembered pricing state it brings back the whole       *)
(* database, whatever the block did.                                       *)
THEOREM UndoRestores ==
  ASSUME NEW d, Consistent(d), NEW upd, ProperUpdate(d, upd),
         NEW h \in 1 .. MaxHeight, d.regCount[h] = 0
  PROVE  ApplyNicknameUndo(WriteNicknameBatch(d, upd, h), UndoOf(d, upd), h) = d
<1> DEFINE w == WriteNicknameBatch(d, upd, h)
           u == UndoOf(d, upd)
           v == ApplyNicknameUndo(w, u, h)
<1>1. d \in DB /\ h \in 0 .. MaxHeight
  BY BoundAssumption DEF Consistent
<1>2. w.rec = upd.current
  BY <1>1, BatchRecords
<1>3. u.dirty = upd.dirty /\ upd.dirty \subseteq Name /\ \A n \in upd.dirty : u.rec[n] = d.rec[n]
  BY DEF UndoOf, ProperUpdate
<1>4. v.rec = d.rec
  <2>1. v.rec = [n \in Name |-> IF n \in u.dirty THEN u.rec[n] ELSE w.rec[n]]
    BY DEF ApplyNicknameUndo
  <2>2. \A n \in Name : (IF n \in u.dirty THEN u.rec[n] ELSE w.rec[n]) = d.rec[n]
    BY <1>2, <1>3 DEF ProperUpdate
  <2>3. d.rec = [n \in Name |-> d.rec[n]]
    BY <1>1 DEF DB
  <2> HIDE DEF v, u, w
  <2> QED
    BY <2>1, <2>2, <2>3
<1>5. v.bondIdx = d.bondIdx
  <2>1. v.bondIdx = [o \in Outpoint |->
                       IF o \in DOMAIN u.bondIdx THEN u.bondIdx[o]
                       ELSE Reindexed(w.bondIdx, w.rec, u.rec, u.dirty)[o]]
    BY DEF ApplyNicknameUndo
  <2>2. DOMAIN u.bondIdx = Touched(upd) /\ \A o \in Touched(upd) : u.bondIdx[o] = d.bondIdx[o]
    BY DEF UndoOf
  <2>3. Reindexed(w.bondIdx, w.rec, u.rec, u.dirty)
          = Reindexed(w.bondIdx, upd.current, d.rec, upd.dirty)
    BY <1>2, <1>3, ReindexedExt
  <2>4. ASSUME NEW o \in Outpoint, o \notin Touched(upd)
        PROVE  Reindexed(w.bondIdx, upd.current, d.rec, upd.dirty)[o] = d.bondIdx[o]
    <3>0. o # NoBond
      BY SentinelAssumption
    <3>1. Reindexed(w.bondIdx, upd.current, d.rec, upd.dirty)[o] =
            IF \E n \in upd.dirty : BondOf(d.rec[n]) = o
            THEN CHOOSE n \in upd.dirty : BondOf(d.rec[n]) = o
            ELSE IF \E n \in upd.dirty : BondOf(upd.current[n]) = o THEN NoName
            ELSE w.bondIdx[o]
      BY DEF Reindexed
    <3>2. \A n \in upd.dirty : BondOf(d.rec[n]) = o => n = d.bondIdx[o]
      BY <1>3, <3>0 DEF Consistent
    <3>3. CASE \E n \in upd.dirty : BondOf(d.rec[n]) = o
      BY <3>1, <3>2, <3>3
    <3>4. CASE /\ ~\E n \in upd.dirty : BondOf(d.rec[n]) = o
               /\ \E n \in upd.dirty : BondOf(upd.current[n]) = o
      <4>1. d.bondIdx[o] = NoName
        BY <1>3, <3>0, <3>4 DEF ProperUpdate
      <4> QED
        BY <3>1, <3>4, <4>1
    <3>5. CASE /\ ~\E n \in upd.dirty : BondOf(d.rec[n]) = o
               /\ ~\E n \in upd.dirty : BondOf(upd.current[n]) = o
      <4>1. w.bondIdx[o] = Reindexed(d.bondIdx, d.rec, upd.current, upd.dirty)[o]
        BY <2>4 DEF WriteNicknameBatch, Touched
      <4>2. w.bondIdx[o] = d.bondIdx[o]
        BY <3>5, <4>1 DEF Reindexed
      <4> QED
        BY <3>1, <3>5, <4>2
    <3> QED
      BY <3>3, <3>4, <3>5
  <2>5. d.bondIdx = [o \in Outpoint |-> d.bondIdx[o]]
    BY <1>1 DEF DB
  <2> HIDE DEF v, u, w
  <2>6. \A o \in Outpoint : v.bondIdx[o] = d.bondIdx[o]
    BY <2>1, <2>2, <2>3, <2>4
  <2> QED
    BY <2>1, <2>5, <2>6
<1>6. v.ownerIdx = d.ownerIdx
  <2>1. v.ownerIdx = Reowned(w.ownerIdx, w.rec, u.rec, u.dirty)
    BY DEF ApplyNicknameUndo
  <2>2. w.ownerIdx = OwnerEntries(upd.current, Name)
    <3>1. w.ownerIdx = Reowned(OwnerEntries(d.rec, Name), d.rec, upd.current, upd.dirty)
      BY DEF WriteNicknameBatch, Consistent, RebuildOwnerIndex
    <3> QED
      BY <3>1, ReownedExact DEF ProperUpdate
  <2>3. v.ownerIdx = Reowned(OwnerEntries(upd.current, Name), upd.current, d.rec, upd.dirty)
    BY <1>2, <1>3, <2>1, <2>2, ReownedExt
  <2>4. v.ownerIdx = OwnerEntries(d.rec, Name)
    BY <2>3, ReownedExact DEF ProperUpdate
  <2> QED
    BY <2>4 DEF Consistent, RebuildOwnerIndex
<1>7. v.regCount = d.regCount
  <2>1. v.regCount = [[d.regCount EXCEPT ![h] = upd.registered] EXCEPT ![h] = 0]
    BY Zenon DEF ApplyNicknameUndo, WriteNicknameBatch
  <2>2. d.regCount \in [0 .. MaxHeight -> 0 .. MaxBlockTxs]
    BY <1>1 DEF DB
  <2> HIDE DEF v
  <2> QED
    BY <1>1, <2>1, <2>2, SMTT(20)
<1>8. v.pricing = d.pricing
  BY DEF ApplyNicknameUndo, UndoOf
<1>9. v = [rec |-> v.rec, bondIdx |-> v.bondIdx, ownerIdx |-> v.ownerIdx,
           regCount |-> v.regCount, pricing |-> v.pricing]
  BY Zenon DEF ApplyNicknameUndo
<1>10. d = [rec |-> d.rec, bondIdx |-> d.bondIdx, ownerIdx |-> d.ownerIdx,
            regCount |-> d.regCount, pricing |-> d.pricing]
  BY <1>1 DEF DB
<1> HIDE DEF v
<1> QED
  BY <1>4, <1>5, <1>6, <1>7, <1>8, <1>9, <1>10 DEF v

(* What a block does to the multiplier, given the rolling count after it.  *)
LEMMA NextMultiplier ==
  ASSUME NEW d \in DB, NEW h \in 1 .. MaxHeight, NEW r,
         ComputeNextPricing(d, h, r).rolling \in Nat
  PROVE  LET next == ComputeNextPricing(d, h, r)
             p    == d.pricing.multiplier
             q    == next.multiplier
             raw  == RawMultiplier(next.rolling)
         IN  /\ 100 * q >= 90 * p /\ 100 * q <= 110 * p
             /\ h % PricingEpoch # 0 => q = p
             /\ (raw >= p => q >= p) /\ (raw <= p => q <= p)
<1> DEFINE next == ComputeNextPricing(d, h, r)
           p == d.pricing.multiplier
           k == ComputeNextMultiplier(p, next.rolling)
<1>1. p \in MinMultiplier .. MaxMultiplier /\ h > 0
  BY BoundAssumption DEF DB, Pricing
<1>2. next.multiplier = ClampMultiplier(IF h > 0 /\ h % PricingEpoch = 0 THEN k ELSE p)
  BY Zenon DEF ComputeNextPricing
<1>3. /\ k \in MinMultiplier .. MaxMultiplier
      /\ 100 * k >= 90 * p /\ 100 * k <= 110 * p
      /\ RawMultiplier(next.rolling) >= p => k >= p
      /\ RawMultiplier(next.rolling) <= p => k <= p
  BY <1>1, MultiplierFollowsDemand, Zenon
<1> HIDE DEF next, p, k
<1>4. /\ p \in Int /\ 500 <= p /\ p <= 3000 /\ k \in Int /\ 500 <= k /\ k <= 3000
  BY <1>1, <1>3 DEF MinMultiplier, MaxMultiplier
<1>5. next.multiplier = IF h % PricingEpoch = 0 THEN k ELSE p
  BY <1>1, <1>2, <1>4, ClampRange
<1>6. CASE h % PricingEpoch = 0
  BY <1>3, <1>5, <1>6 DEF next, p
<1>7. CASE h % PricingEpoch # 0
  BY <1>4, <1>5, <1>7 DEF next, p
<1> QED
  BY <1>6, <1>7

=============================================================================
