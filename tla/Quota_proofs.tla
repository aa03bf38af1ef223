----------------------------- MODULE Quota_proofs -----------------------------
(***************************************************************************)
(* Proofs about Quota, for every set of launches and users, every limit,   *)
(* every length of a month and every end of the clock.                     *)
(***************************************************************************)
EXTENDS Quota, FiniteSetTheorems, TLAPS

-----------------------------------------------------------------------------
(* The calendar.                                                           *)

(* A month is a natural number, and later seconds are in no earlier month. *)
LEMMA MonthType == ASSUME NEW t \in Nat PROVE Month(t) \in Nat
BY QuotaAssumption DEF Month

LEMMA Euclid ==
    ASSUME NEW t \in Nat, NEW m \in Nat \ {0}
    PROVE  t \div m \in Int /\ m * (t \div m) <= t /\ t < m * (t \div m) + m
OBVIOUS

LEMMA Multiples ==
    ASSUME NEW x \in Int, NEW y \in Int, NEW m \in Nat \ {0}, x >= y + 1
    PROVE  m * x >= m * y + m
OBVIOUS

LEMMA MonthOrder ==
    ASSUME NEW t \in Nat, NEW u \in Nat, t <= u
    PROVE  Month(t) <= Month(u)
<1>. DEFINE x == t \div MonthLen
            y == u \div MonthLen
<1>1. MonthLen \in Nat \ {0}
  BY QuotaAssumption
<1>2. /\ x \in Int /\ MonthLen * x <= t
      /\ y \in Int /\ u < MonthLen * y + MonthLen
  BY <1>1, Euclid
<1>3. ASSUME x >= y + 1 PROVE MonthLen * x >= MonthLen * y + MonthLen
  BY <1>1, <1>2, <1>3, Multiples
<1>4. MonthLen * x \in Int /\ MonthLen * y \in Int
  BY <1>1, <1>2
<1>. HIDE DEF x, y
<1>5. x <= y
  BY <1>1, <1>2, <1>3, <1>4
<1>. QED
  BY <1>5 DEF Month, x, y

LEMMA Bounds == Limit \in Nat /\ LifeLimit \in Nat /\ UserLimit \in Nat /\ MaxTime \in Nat
BY QuotaAssumption

-----------------------------------------------------------------------------
(* Both counters stay within their limits, and the rows keep their types. *)
THEOREM TypeCorrect == Spec => []TypeOK
<1>1. Init => TypeOK
  BY Bounds, QuotaAssumption DEF Init, TypeOK, Tiers
<1>2. ASSUME TypeOK, [Next]_vars PROVE TypeOK'
  <2>. USE <1>2 DEF TypeOK, counters, launch
  <2>1. CASE Tick
    <3>1. now' = now + 1 /\ UNCHANGED << tier, used, life, period, seat, watermark, pc >>
          /\ UNCHANGED << user, as, stamp >>
      BY <2>1 DEF Tick
    <3>2. now' \in Nat \ {0}
      BY <3>1
    <3>. QED
      BY <3>1, <3>2
  <2>2. ASSUME NEW t \in Tiers, ChangeTier(t) PROVE TypeOK'
    BY <2>2 DEF ChangeTier
  <2>3. ASSUME NEW l \in Launches, NEW u \in Users, Claim(l, u) PROVE TypeOK'
    BY <2>3 DEF Claim
  <2>4. ASSUME NEW l \in Launches, CheckUser(l) PROVE TypeOK'
    BY <2>4 DEF CheckUser
  <2>5. ASSUME NEW l \in Launches, Roll(l) PROVE TypeOK'
    <3>1. Month(now) \in Nat /\ 0 \in 0..Limit
      BY Bounds, MonthType
    <3>2. WithoutMonthSeats \in [Launches -> {"none", "month", "life"}]
      BY DEF WithoutMonthSeats
    <3>. QED
      BY <2>5, <3>1, <3>2 DEF Roll
  <2>6. ASSUME NEW l \in Launches, Increment(l) PROVE TypeOK'
    <3>1. Month(now) \in Nat
      BY MonthType
    <3>2. /\ life' = life \/ (life' = life + 1 /\ life < LifeLimit)
          /\ used' = used \/ (used' = used + 1 /\ used < Limit)
      BY <2>6 DEF Increment, UnderLimit
    <3>3. life' \in 0..LifeLimit /\ used' \in 0..Limit
      BY <3>2, Bounds
    <3>. QED
      BY <2>6, <3>1, <3>3 DEF Increment
  <2>7. ASSUME NEW l \in Launches, Compensate(l) PROVE TypeOK'
    BY <2>7 DEF Compensate
  <2>8. ASSUME NEW l \in Launches, Complete(l) PROVE TypeOK'
    BY <2>8 DEF Complete
  <2>9. ASSUME NEW l \in Launches, DeleteStudy(l) PROVE TypeOK'
    BY <2>9 DEF DeleteStudy
  <2>10. ASSUME NEW l \in Launches, Fail(l) PROVE TypeOK'
    <3>. /\ life' = life \/ (life' = life - 1 /\ life > 0)
         /\ used' = used \/ (used' = used - 1 /\ used > 0)
      BY <2>10 DEF Fail, MayReturn
    <3>1. life' \in 0..LifeLimit /\ used' \in 0..Limit
      BY Bounds
    <3>2. seat' \in [Launches -> {"none", "month", "life"}]
      BY <2>10 DEF Fail
    <3>. QED
      BY <2>10, <3>1, <3>2 DEF Fail
  <2>11. ASSUME Reset PROVE TypeOK'
    <3>1. Month(now) \in Nat /\ 0 \in 0..Limit
      BY Bounds, MonthType
    <3>2. WithoutMonthSeats \in [Launches -> {"none", "month", "life"}]
      BY DEF WithoutMonthSeats
    <3>. QED
      BY <2>11, <3>1, <3>2 DEF Reset, LifeAfterReset
  <2>12. CASE UNCHANGED vars
    BY <2>12 DEF vars
  <2>. QED
    BY <2>1, <2>2, <2>3, <2>4, <2>5, <2>6, <2>7, <2>8, <2>9, <2>10, <2>11, <2>12
       DEF Next, LaunchStep, MonthlyReset, ResetAccountQuota
<1>. QED
  BY <1>1, <1>2, PTL DEF Spec

-----------------------------------------------------------------------------
(* The user limit.                                                         *)

(* No stamp and no watermark is ahead of the clock. *)
NothingAhead ==
    /\ \A l \in Launches : stamp[l] <= now
    /\ watermark <= now

(* What has changed for a launch that is in the window after a step. *)
StaysAdmitted(u) == AdmittedNow(u)' \subseteq AdmittedNow(u)

(* The clock and the watermark never go back behind a stamp. *)
LEMMA ClockStep ==
    ASSUME TypeOK, NothingAhead, [Next]_vars
    PROVE  NothingAhead'
<1>. USE DEF TypeOK, NothingAhead, counters, launch
<1>1. CASE Tick
  <2>1. now' = now + 1 /\ UNCHANGED << stamp, watermark >>
    BY <1>1 DEF Tick
  <2>. QED
    BY <2>1
<1>2. ASSUME NEW l \in Launches, NEW u \in Users, Claim(l, u) PROVE NothingAhead'
  BY <1>2 DEF Claim
<1>3. ASSUME NEW l \in Launches, Compensate(l) \/ Fail(l) PROVE NothingAhead'
  <2>1. /\ \A x \in Launches : stamp'[x] \in {0, stamp[x]}
        /\ UNCHANGED << now, watermark >>
    BY <1>3 DEF Compensate, Fail
  <2>. QED
    BY <2>1
<1>4. ASSUME Reset PROVE NothingAhead'
  BY <1>4 DEF Reset
<1>5. ASSUME UNCHANGED << now, stamp, watermark >> PROVE NothingAhead'
  BY <1>5
<1>6. ASSUME NEW t \in Tiers, ChangeTier(t) PROVE NothingAhead'
  BY <1>5, <1>6 DEF ChangeTier
<1>7. ASSUME NEW l \in Launches,
             \/ CheckUser(l) \/ Roll(l) \/ Increment(l) \/ Complete(l) \/ DeleteStudy(l)
      PROVE  NothingAhead'
  BY <1>5, <1>7 DEF CheckUser, Roll, Increment, Complete, DeleteStudy
<1>8. CASE UNCHANGED vars
  BY <1>5, <1>8 DEF vars
<1>. QED
  BY <1>1, <1>2, <1>3, <1>4, <1>6, <1>7, <1>8
     DEF Next, LaunchStep, MonthlyReset, ResetAccountQuota

(* Every step but a passed user check leaves a user with no more launches  *)
(* in the window: the clock and the watermark only move past stamps.       *)
LEMMA AdmittedStep ==
    ASSUME TypeOK, NothingAhead, [Next]_vars, NEW u \in Users
    PROVE  \/ StaysAdmitted(u)
           \/ AdmittedNow(u)' \subseteq UserLaunches(u) /\ WithinUserLimit(u)
<1>. USE DEF TypeOK, NothingAhead, counters, launch
<1>1. CASE Tick
  <2>1. /\ now' = now + 1
        /\ UNCHANGED << user, pc, stamp, watermark >>
    BY <1>1 DEF Tick
  <2>2. CASE Month(now + 1) = Month(now)
    BY <2>1, <2>2 DEF StaysAdmitted, AdmittedNow
  <2>3. CASE Month(now + 1) # Month(now)
    <3>1. ASSUME NEW l \in Launches PROVE Month(stamp[l]) # Month(now + 1)
      <4>1. Month(stamp[l]) <= Month(now) /\ Month(now) <= Month(now + 1)
        BY MonthOrder
      <4>2. /\ Month(stamp[l]) \in Nat /\ Month(now) \in Nat
            /\ Month(now + 1) \in Nat
        BY MonthType
      <4>. QED
        BY <2>3, <4>1, <4>2
    <3>. QED
      BY <2>1, <3>1 DEF StaysAdmitted, AdmittedNow
  <2>. QED
    BY <2>2, <2>3, <2>1
<1>2. ASSUME NEW t \in Tiers, ChangeTier(t) PROVE StaysAdmitted(u)
  BY <1>2 DEF ChangeTier, StaysAdmitted, AdmittedNow
<1>3. ASSUME NEW l \in Launches, NEW v \in Users, Claim(l, v)
      PROVE  StaysAdmitted(u)
  <2>1. /\ pc'[l] = "claimed"
        /\ \A x \in Launches \ {l} : /\ pc'[x] = pc[x] /\ user'[x] = user[x]
                                     /\ stamp'[x] = stamp[x]
        /\ UNCHANGED << now, watermark >>
    BY <1>3 DEF Claim
  <2>. QED
    BY <2>1 DEF StaysAdmitted, AdmittedNow
<1>4. ASSUME NEW l \in Launches, CheckUser(l)
      PROVE  \/ StaysAdmitted(u)
             \/ AdmittedNow(u)' \subseteq UserLaunches(u) /\ WithinUserLimit(u)
  <2>1. /\ \A x \in Launches \ {l} : pc'[x] = pc[x]
        /\ UNCHANGED << now, watermark, user, stamp >>
    BY <1>4 DEF CheckUser
  <2>2. AdmittedNow(u)' \subseteq UserLaunches(u)
    <3>. SUFFICES ASSUME NEW x \in Launches, user[x] = u, stamp[x] > watermark,
                         Month(stamp[x]) = Month(now),
                         pc'[x] \in {"checked", "rolled", "running", "completed"}
                  PROVE  stamp[x] # 0 /\ pc[x] # "deleted"
      BY <2>1 DEF AdmittedNow, UserLaunches
    <3>1. x # l => pc'[x] = pc[x]
      BY <2>1
    <3>2. pc[l] = "claimed"
      BY <1>4 DEF CheckUser
    <3>. QED
      BY <3>1, <3>2
  <2>3. CASE user[l] = u /\ WithinUserLimit(u)
    BY <2>1, <2>2, <2>3
  <2>4. CASE user[l] = u /\ ~ WithinUserLimit(u)
    <3>1. pc'[l] = "refused"
      BY <1>4, <2>4 DEF CheckUser
    <3>. QED
      BY <2>1, <3>1 DEF StaysAdmitted, AdmittedNow
  <2>5. CASE user[l] # u
    BY <2>1, <2>5 DEF StaysAdmitted, AdmittedNow
  <2>. QED
    BY <2>3, <2>4, <2>5
<1>5. ASSUME NEW l \in Launches,
             Roll(l) \/ Increment(l) \/ Compensate(l) \/ Complete(l) \/ DeleteStudy(l) \/ Fail(l)
      PROVE  StaysAdmitted(u)
  <2>1. /\ pc[l] \in {"checked", "rolled", "running", "completed"}
           \/ pc'[l] \notin {"checked", "rolled", "running", "completed"}
        /\ stamp'[l] \in {0, stamp[l]}
        /\ \A x \in Launches \ {l} : pc'[x] = pc[x] /\ stamp'[x] = stamp[x]
        /\ UNCHANGED << now, watermark, user >>
    BY <1>5 DEF Roll, Increment, Compensate, Complete, DeleteStudy, Fail
  <2>2. \A x \in Launches : stamp'[x] > watermark => stamp'[x] = stamp[x]
    BY <2>1
  <2>. QED
    BY <2>1, <2>2 DEF StaysAdmitted, AdmittedNow
<1>6. ASSUME Reset PROVE StaysAdmitted(u)
  BY <1>6 DEF Reset, StaysAdmitted, AdmittedNow
<1>7. CASE UNCHANGED vars
  BY <1>7 DEF vars, StaysAdmitted, AdmittedNow
<1>. QED
  BY <1>1, <1>2, <1>3, <1>4, <1>5, <1>6, <1>7
     DEF Next, LaunchStep, MonthlyReset, ResetAccountQuota

(* A user never has more launches admitted since the start of the month    *)
(* and the last reset than the user limit: two concurrent launches cannot  *)
(* both slip in, whatever months, resets and tier changes fall between.    *)
THEOREM UserLimitHolds == Spec => []UserNeverOver
<1>. DEFINE Inv == NothingAhead /\ UserNeverOver
<1>1. Init => Inv
  <2>. SUFFICES ASSUME Init PROVE Inv
    OBVIOUS
  <2>1. \A u \in Users : AdmittedNow(u) = {}
    BY DEF Init, AdmittedNow
  <2>2. UserNeverOver
    BY <2>1, FS_EmptySet, QuotaAssumption DEF UserNeverOver
  <2>3. NothingAhead
    BY QuotaAssumption DEF Init, NothingAhead
  <2>. QED
    BY <2>2, <2>3
<1>2. ASSUME TypeOK, TypeOK', Inv, [Next]_vars PROVE Inv'
  <2>1. NothingAhead'
    BY <1>2, ClockStep
  <2>2. UserNeverOver'
    <3>. SUFFICES ASSUME UserLimit # 0, NEW u \in Users
                  PROVE  Cardinality(AdmittedNow(u)') <= UserLimit
      BY DEF UserNeverOver
    <3>1. IsFiniteSet(AdmittedNow(u)) /\ IsFiniteSet(UserLaunches(u))
      BY QuotaAssumption, FS_Subset DEF AdmittedNow, UserLaunches
    <3>2. /\ Cardinality(AdmittedNow(u)) \in Nat
          /\ Cardinality(UserLaunches(u)) \in Nat
      BY <3>1, FS_CardinalityType
    <3>3. CASE StaysAdmitted(u)
      <4>1. /\ Cardinality(AdmittedNow(u)') <= Cardinality(AdmittedNow(u))
            /\ IsFiniteSet(AdmittedNow(u)')
        BY <3>1, <3>3, FS_Subset DEF StaysAdmitted
      <4>2. Cardinality(AdmittedNow(u)) <= UserLimit
        BY <1>2 DEF UserNeverOver
      <4>3. Cardinality(AdmittedNow(u)') \in Nat
        BY <4>1, FS_CardinalityType
      <4>. QED
        BY <3>2, <4>1, <4>2, <4>3, QuotaAssumption
    <3>4. CASE AdmittedNow(u)' \subseteq UserLaunches(u) /\ WithinUserLimit(u)
      <4>1. /\ Cardinality(AdmittedNow(u)') <= Cardinality(UserLaunches(u))
            /\ IsFiniteSet(AdmittedNow(u)')
        BY <3>1, <3>4, FS_Subset
      <4>2. Cardinality(UserLaunches(u)) <= UserLimit
        BY <3>4 DEF WithinUserLimit
      <4>3. Cardinality(AdmittedNow(u)') \in Nat
        BY <4>1, FS_CardinalityType
      <4>. QED
        BY <3>2, <4>1, <4>2, <4>3, QuotaAssumption
    <3>. QED
      BY <1>2, <3>3, <3>4, AdmittedStep
  <2>. QED
    BY <2>1, <2>2
<1>. QED
  BY <1>1, <1>2, TypeCorrect, PTL DEF Spec

-----------------------------------------------------------------------------
(* The counters and their seats, when the tier does not change under a     *)
(* launch.                                                                 *)

(* A launch that has read its tier still has the tier it read. *)
TierIsRead ==
    \A l \in Launches :
        /\ pc[l] \in {"checked", "rolled", "running"} => as[l] = tier
        /\ pc[l] = "checked" => as[l] = "monthly"

(* The steps that do not move a launch between its check and its end. *)
LEMMA TierStep ==
    ASSUME ~ TierRaces, TypeOK, TierIsRead, [Next]_vars
    PROVE  TierIsRead'
<1>. USE DEF TypeOK, TierIsRead, counters, launch
<1>1. ASSUME NEW t \in Tiers, ChangeTier(t) PROVE TierIsRead'
  BY <1>1 DEF ChangeTier, InFlight
<1>2. ASSUME NEW l \in Launches, NEW u \in Users, Claim(l, u) PROVE TierIsRead'
  BY <1>2 DEF Claim
<1>3. ASSUME NEW l \in Launches, CheckUser(l) PROVE TierIsRead'
  <2>1. /\ as'[l] = tier /\ pc'[l] \in {"refused", "rolled", "checked"}
        /\ pc'[l] = "checked" => tier = "monthly"
        /\ \A x \in Launches \ {l} : as'[x] = as[x] /\ pc'[x] = pc[x]
        /\ tier' = tier
    BY <1>3 DEF CheckUser, Tiers
  <2>2. ASSUME NEW x \in Launches
        PROVE  /\ pc'[x] \in {"checked", "rolled", "running"} => as'[x] = tier'
               /\ pc'[x] = "checked" => as'[x] = "monthly"
    BY <2>1
  <2>. QED
    BY <2>2
<1>4. ASSUME NEW l \in Launches,
             \/ Roll(l) \/ Increment(l) \/ Compensate(l) \/ Complete(l) \/ DeleteStudy(l) \/ Fail(l)
      PROVE  TierIsRead'
  <2>1. /\ pc'[l] # "checked"
        /\ pc'[l] \in {"rolled", "running"} => pc[l] \in {"checked", "rolled", "running"}
        /\ \A x \in Launches \ {l} : pc'[x] = pc[x]
        /\ as' = as /\ tier' = tier
    BY <1>4 DEF Roll, Increment, Compensate, Complete, DeleteStudy, Fail
  <2>. QED
    BY <2>1
<1>5. ASSUME UNCHANGED << pc, as, tier >> PROVE TierIsRead'
  BY <1>5
<1>6. CASE Tick
  BY <1>5, <1>6 DEF Tick
<1>7. ASSUME Reset PROVE TierIsRead'
  BY <1>5, <1>7 DEF Reset
<1>8. CASE UNCHANGED vars
  BY <1>5, <1>8 DEF vars
<1>. QED
  BY <1>1, <1>2, <1>3, <1>4, <1>6, <1>7, <1>8
     DEF Next, LaunchStep, MonthlyReset, ResetAccountQuota

LEMMA TierInvariant == ASSUME ~ TierRaces PROVE Spec => []TierIsRead
<1>1. Init => TierIsRead
  BY DEF Init, TierIsRead
<1>. QED
  BY <1>1, TierStep, TypeCorrect, PTL DEF Spec

(* Launches of the basic tier that were admitted and did not fail. *)
Basics == {l \in Launches : as[l] = "basic" /\ pc[l] \in {"running", "completed", "deleted"}}

LEMMA BasicsFinite == IsFiniteSet(Basics) /\ Cardinality(Basics) \in Nat
BY QuotaAssumption, FS_Subset, FS_CardinalityType DEF Basics

(* A step adds a launch to Basics with its seat in the lifetime counter,   *)
(* and takes a seat out of that counter only with a launch.                *)
LEMMA BasicsStep ==
    ASSUME TypeOK, TierIsRead, [Next]_vars
    PROVE  \/ Basics' = Basics /\ life' = life
           \/ \E l \in Launches \ Basics : Basics' = Basics \cup {l} /\ life' = life + 1
           \/ \E l \in Basics : Basics' = Basics \ {l} /\ life' \in {life, life - 1}
<1>. USE DEF TypeOK, counters, launch
<1>1. ASSUME UNCHANGED << pc, as, life >> PROVE Basics' = Basics /\ life' = life
  BY <1>1 DEF Basics
<1>2. ASSUME NEW l \in Launches, l \notin Basics, l \notin Basics', life' = life,
             \A x \in Launches \ {l} : as'[x] = as[x] /\ pc'[x] = pc[x]
      PROVE  Basics' = Basics /\ life' = life
  BY <1>2 DEF Basics
<1>3. ASSUME NEW t \in Tiers, Tick \/ ChangeTier(t) PROVE UNCHANGED << pc, as, life >>
  BY <1>3 DEF Tick, ChangeTier
<1>4. ASSUME NEW l \in Launches, NEW u \in Users, Claim(l, u)
      PROVE  Basics' = Basics /\ life' = life
  <2>1. /\ pc[l] = "idle" /\ pc'[l] = "claimed" /\ life' = life
        /\ \A x \in Launches \ {l} : as'[x] = as[x] /\ pc'[x] = pc[x]
    BY <1>4 DEF Claim
  <2>. QED
    BY <1>2, <2>1 DEF Basics
<1>5. ASSUME NEW l \in Launches, CheckUser(l) \/ Roll(l) \/ Compensate(l)
      PROVE  Basics' = Basics /\ life' = life
  <2>1. /\ pc[l] \notin {"running", "completed", "deleted"}
        /\ pc'[l] \notin {"running", "completed", "deleted"} /\ life' = life
        /\ \A x \in Launches \ {l} : as'[x] = as[x] /\ pc'[x] = pc[x]
    BY <1>5 DEF CheckUser, Roll, Compensate
  <2>. QED
    BY <1>2, <2>1 DEF Basics
<1>6. ASSUME NEW l \in Launches, Increment(l)
      PROVE  \/ Basics' = Basics /\ life' = life
             \/ l \notin Basics /\ Basics' = Basics \cup {l} /\ life' = life + 1
  <2>1. /\ as' = as /\ \A x \in Launches \ {l} : pc'[x] = pc[x]
        /\ l \notin Basics
    BY <1>6 DEF Increment, Basics
  <2>2. \/ /\ pc'[l] = "refused" \/ (pc'[l] = "running" /\ as[l] = "monthly")
           /\ life' = life
        \/ pc'[l] = "running" /\ as[l] = "basic" /\ life' = life + 1
    BY <1>6 DEF Increment
  <2>. QED
    BY <2>1, <2>2 DEF Basics
<1>7. ASSUME NEW l \in Launches, Complete(l) \/ DeleteStudy(l)
      PROVE  Basics' = Basics /\ life' = life
  <2>1. /\ pc[l] \in {"running", "completed"} /\ pc'[l] \in {"completed", "deleted"}
        /\ as' = as /\ life' = life /\ \A x \in Launches \ {l} : pc'[x] = pc[x]
    BY <1>7 DEF Complete, DeleteStudy
  <2>. QED
    BY <2>1 DEF Basics
<1>8. ASSUME NEW l \in Launches, Fail(l)
      PROVE  \/ Basics' = Basics /\ life' = life
             \/ l \in Basics /\ Basics' = Basics \ {l} /\ life' \in {life, life - 1}
  <2>1. /\ pc[l] = "running" /\ pc'[l] = "failed" /\ as' = as
        /\ \A x \in Launches \ {l} : pc'[x] = pc[x]
        /\ life' \in {life, life - 1} /\ (tier # "basic" => life' = life)
    BY <1>8 DEF Fail, MayReturn
  <2>2. as[l] = tier
    BY <2>1 DEF TierIsRead
  <2>. QED
    BY <2>1, <2>2 DEF Basics
<1>9. ASSUME Reset PROVE UNCHANGED << pc, as, life >>
  BY <1>9 DEF Reset, LifeAfterReset
<1>10. CASE UNCHANGED vars
  BY <1>1, <1>10 DEF vars
<1>11. CASE \E t \in Tiers : Tick \/ ChangeTier(t)
  BY <1>1, <1>3, <1>11
<1>12. CASE Reset
  BY <1>1, <1>9, <1>12
<1>. QED
  BY <1>4, <1>5, <1>6, <1>7, <1>8, <1>10, <1>11, <1>12
     DEF Next, LaunchStep, MonthlyReset, ResetAccountQuota, Tiers, Basics

(* The basic package is for life: no new month, no reset and no detour     *)
(* over another tier lets an account have more basic launches, over all    *)
(* time, than its lifetime limit.                                          *)
THEOREM LifetimeHolds == ASSUME ~ TierRaces PROVE Spec => []LifetimeNeverOver
<1>. DEFINE Inv == Cardinality(Basics) <= life
<1>1. Init => Inv
  <2>. SUFFICES ASSUME Init PROVE Inv
    OBVIOUS
  <2>1. Basics = {}
    BY DEF Init, Basics
  <2>. QED
    BY <2>1, FS_EmptySet DEF Init
<1>2. ASSUME TypeOK, TypeOK', TierIsRead, Inv, [Next]_vars PROVE Inv'
  <2>1. life \in Int /\ life' \in Int
    BY <1>2, Bounds DEF TypeOK
  <2>2. CASE Basics' = Basics /\ life' = life
    BY <1>2, <2>2
  <2>3. ASSUME NEW l \in Launches \ Basics, Basics' = Basics \cup {l}, life' = life + 1
        PROVE  Inv'
    <3>1. Cardinality(Basics') = Cardinality(Basics) + 1
      BY <2>3, BasicsFinite, FS_AddElement
    <3>. QED
      BY <1>2, <2>1, <2>3, <3>1, BasicsFinite
  <2>4. ASSUME NEW l \in Basics, Basics' = Basics \ {l}, life' \in {life, life - 1}
        PROVE  Inv'
    <3>1. Cardinality(Basics') = Cardinality(Basics) - 1
      BY <2>4, BasicsFinite, FS_RemoveElement
    <3>. QED
      BY <1>2, <2>1, <2>4, <3>1, BasicsFinite
  <2>. QED
    BY <1>2, <2>2, <2>3, <2>4, BasicsStep
<1>3. TypeOK /\ Inv => LifetimeNeverOver
  BY Bounds, BasicsFinite DEF TypeOK, LifetimeNeverOver, Basics
<1>. QED
  BY <1>1, <1>2, <1>3, TierInvariant, TypeCorrect, PTL DEF Spec

-----------------------------------------------------------------------------
(* What every launch is owed by the counters, when moreover no monthly run *)
(* outlives its month and no reset falls into the second of a launch.      *)

Punctual == ~ TierRaces /\ ~ LongRuns /\ ~ SameSecond

(* A launch has no seat before it is admitted.  A running one has its seat *)
(* for life, or has it in the counter of the month that is still running,  *)
(* unless a reset after its stamp has zeroed it.                           *)
SeatRule(l) ==
    /\ pc[l] \in {"idle", "claimed", "checked", "rolled"} => seat[l] = "none"
    /\ pc[l] = "running" /\ as[l] = "basic" => seat[l] = "life"
    /\ pc[l] = "running" /\ as[l] = "monthly" =>
          /\ period = Month(now)
          /\ seat[l] = "month" \/ (seat[l] = "none" /\ ZeroedByReset(l))

SeatRules == \A l \in Launches : SeatRule(l)

(* The rules hold for a launch that a step leaves alone, if the month does *)
(* not turn under a monthly run and no seat is zeroed but by a reset.      *)
LEMMA RulesKept ==
    ASSUME SeatRules, NEW x \in Launches,
           pc'[x] = pc[x], as'[x] = as[x], stamp'[x] = stamp[x], seat'[x] = seat[x],
           watermark' = watermark,
           pc[x] = "running" /\ as[x] = "monthly" =>
              (period = Month(now) => period' = Month(now)')
    PROVE  SeatRule(x)'
BY DEF SeatRules, SeatRule, ZeroedByReset

(* Every step keeps the rules of the seats. *)
LEMMA RulesStep ==
    ASSUME Punctual, TypeOK, NothingAhead, TierIsRead, SeatRules, [Next]_vars
    PROVE  SeatRules'
<1>. USE DEF TypeOK, counters, launch
<1>. SUFFICES \A x \in Launches : SeatRule(x)'
  BY DEF SeatRules
<1>1. CASE Tick
  <2>1. UNCHANGED << tier, used, life, period, seat, watermark, pc, user, as, stamp >>
    BY <1>1 DEF Tick
  <2>2. ASSUME NEW x \in Launches, pc[x] = "running", as[x] = "monthly",
               period = Month(now)
        PROVE  period' = Month(now)'
    <3>1. Month(now + 1) = Month(now) /\ now' = now + 1
      BY <1>1, <2>2 DEF Tick, Punctual
    <3>. QED
      BY <2>1, <2>2, <3>1 DEF Month
  <2>. QED
    BY <2>1, <2>2, RulesKept
<1>2. ASSUME NEW t \in Tiers, ChangeTier(t) PROVE \A x \in Launches : SeatRule(x)'
  <2>1. UNCHANGED << now, used, life, period, seat, watermark, pc, user, as, stamp >>
    BY <1>2 DEF ChangeTier
  <2>. QED
    BY <2>1, RulesKept DEF Month
<1>3. ASSUME NEW l \in Launches, NEW u \in Users, Claim(l, u)
      PROVE  \A x \in Launches : SeatRule(x)'
  <2>1. /\ pc[l] = "idle" /\ pc'[l] = "claimed"
        /\ \A x \in Launches \ {l} : pc'[x] = pc[x] /\ stamp'[x] = stamp[x]
        /\ UNCHANGED << now, period, seat, watermark, as >>
    BY <1>3 DEF Claim
  <2>2. SeatRule(l)'
    BY <2>1 DEF SeatRules, SeatRule
  <2>3. \A x \in Launches \ {l} : SeatRule(x)'
    BY <2>1, RulesKept DEF Month
  <2>. QED
    BY <2>2, <2>3
<1>4. ASSUME NEW l \in Launches, CheckUser(l) PROVE \A x \in Launches : SeatRule(x)'
  <2>1. /\ pc[l] = "claimed" /\ pc'[l] \in {"refused", "rolled", "checked"}
        /\ \A x \in Launches \ {l} : pc'[x] = pc[x] /\ as'[x] = as[x]
        /\ UNCHANGED << now, period, seat, watermark, stamp >>
    BY <1>4 DEF CheckUser
  <2>2. SeatRule(l)'
    BY <2>1 DEF SeatRules, SeatRule
  <2>3. \A x \in Launches \ {l} : SeatRule(x)'
    BY <2>1, RulesKept DEF Month
  <2>. QED
    BY <2>2, <2>3
<1>5. ASSUME NEW l \in Launches, Roll(l) PROVE \A x \in Launches : SeatRule(x)'
  <2>1. /\ pc[l] = "checked" /\ pc'[l] = "rolled"
        /\ \A x \in Launches \ {l} : pc'[x] = pc[x]
        /\ UNCHANGED << now, watermark, as, stamp >>
    BY <1>5 DEF Roll
  <2>2. CASE MonthIsNew
    <3>1. seat' = WithoutMonthSeats
      BY <1>5, <2>2 DEF Roll
    <3>2. \A x \in Launches : ~ (pc[x] = "running" /\ as[x] = "monthly")
      BY <2>2 DEF SeatRules, SeatRule, MonthIsNew
    <3>3. \A x \in Launches : seat[x] # "month" => seat'[x] = seat[x]
      BY <3>1 DEF WithoutMonthSeats
    <3>. QED
      BY <2>1, <3>2, <3>3 DEF SeatRules, SeatRule
  <2>3. CASE ~ MonthIsNew
    <3>1. UNCHANGED << seat, period >>
      BY <1>5, <2>3 DEF Roll
    <3>2. SeatRule(l)'
      BY <2>1, <3>1 DEF SeatRules, SeatRule
    <3>3. \A x \in Launches \ {l} : SeatRule(x)'
      BY <2>1, <3>1, RulesKept DEF Month
    <3>. QED
      BY <3>2, <3>3
  <2>. QED
    BY <2>2, <2>3
<1>6. ASSUME NEW l \in Launches, Increment(l) PROVE \A x \in Launches : SeatRule(x)'
  <2>1. /\ pc[l] = "rolled"
        /\ \A x \in Launches \ {l} : pc'[x] = pc[x] /\ seat'[x] = seat[x]
        /\ UNCHANGED << now, watermark, as, stamp >>
        /\ period' \in {period, Month(now)}
    BY <1>6 DEF Increment
  <2>2. SeatRule(l)'
    <3>1. \/ pc'[l] = "refused"
          \/ pc'[l] = "running" /\ as'[l] = "basic" /\ seat'[l] = "life"
          \/ pc'[l] = "running" /\ as'[l] = "monthly" /\ seat'[l] = "month"
             /\ period' = Month(now)
      BY <1>6 DEF Increment
    <3>. QED
      BY <2>1, <3>1 DEF SeatRule, Month
  <2>3. \A x \in Launches \ {l} : SeatRule(x)'
    BY <2>1, RulesKept DEF Month
  <2>. QED
    BY <2>2, <2>3
<1>7. ASSUME NEW l \in Launches, Compensate(l) \/ Complete(l) \/ DeleteStudy(l) \/ Fail(l)
      PROVE  \A x \in Launches : SeatRule(x)'
  <2>1. /\ pc'[l] \in {"closed", "completed", "deleted", "failed"}
        /\ \A x \in Launches \ {l} : /\ pc'[x] = pc[x] /\ stamp'[x] = stamp[x]
                                     /\ seat'[x] = seat[x]
        /\ UNCHANGED << now, watermark, as, period >>
    BY <1>7 DEF Compensate, Complete, DeleteStudy, Fail
  <2>2. SeatRule(l)'
    BY <2>1 DEF SeatRule
  <2>3. \A x \in Launches \ {l} : SeatRule(x)'
    BY <2>1, RulesKept DEF Month
  <2>. QED
    BY <2>2, <2>3
<1>8. ASSUME Reset PROVE \A x \in Launches : SeatRule(x)'
  <2>1. /\ watermark' = now /\ period' = Month(now) /\ now' = now
        /\ UNCHANGED << tier, pc, as, stamp >>
        /\ \A x \in Launches : seat'[x] = IF seat[x] = "month" THEN "none" ELSE seat[x]
        /\ tier = "basic" \/ \A x \in Launches : stamp[x] < now
    BY <1>8 DEF Reset, WithoutMonthSeats, Punctual
  <2>. SUFFICES ASSUME NEW x \in Launches PROVE SeatRule(x)'
    OBVIOUS
  <2>2. SeatRule(x)
    BY DEF SeatRules, SeatRule
  <2>3. CASE pc[x] = "running" /\ as[x] = "monthly"
    <3>1. stamp[x] < now /\ now # 0
      BY <2>1, <2>3 DEF TierIsRead
    <3>2. ZeroedByReset(x)'
      BY <2>1, <3>1 DEF ZeroedByReset
    <3>3. period' = Month(now)'
      BY <2>1 DEF Month
    <3>. QED
      BY <2>1, <2>2, <2>3, <3>2, <3>3 DEF SeatRule
  <2>4. CASE ~ (pc[x] = "running" /\ as[x] = "monthly")
    BY <2>1, <2>2, <2>4 DEF SeatRule
  <2>. QED
    BY <2>3, <2>4
<1>9. CASE UNCHANGED vars
  <2>1. UNCHANGED << now, period, seat, watermark, pc, as, stamp >>
    BY <1>9 DEF vars
  <2>. QED
    BY <2>1, RulesKept DEF Month
<1>. QED
  BY <1>1, <1>2, <1>3, <1>4, <1>5, <1>6, <1>7, <1>8, <1>9
     DEF Next, LaunchStep, MonthlyReset, ResetAccountQuota

-----------------------------------------------------------------------------
(* Counting the seats of one counter.                                      *)

SeatsIn(c) == {l \in Launches : seat[l] = c}

LEMMA SeatsFinite ==
    ASSUME NEW c
    PROVE  /\ IsFiniteSet(SeatsIn(c)) /\ IsFiniteSet(SeatsIn(c)')
           /\ Seats(c) \in Nat /\ Seats(c)' \in Nat
           /\ Seats(c) = Cardinality(SeatsIn(c)) /\ Seats(c)' = Cardinality(SeatsIn(c)')
<1>1. IsFiniteSet(SeatsIn(c)) /\ IsFiniteSet(SeatsIn(c)')
  BY QuotaAssumption, FS_Subset DEF SeatsIn
<1>. QED
  BY <1>1, FS_CardinalityType DEF Seats, SeatsIn

(* A seat is given. *)
LEMMA SeatGiven ==
    ASSUME TypeOK, NEW l \in Launches, NEW c \in {"month", "life"}, seat[l] = "none",
           seat' = [seat EXCEPT ![l] = c]
    PROVE  /\ Seats(c)' = Seats(c) + 1
           /\ \A d \in {"month", "life"} \ {c} : Seats(d)' = Seats(d)
<1>1. SeatsIn(c)' = SeatsIn(c) \cup {l} /\ l \notin SeatsIn(c)
  BY DEF TypeOK, SeatsIn
<1>2. \A d \in {"month", "life"} \ {c} : SeatsIn(d)' = SeatsIn(d)
  BY DEF TypeOK, SeatsIn
<1>3. Cardinality(SeatsIn(c)') = Cardinality(SeatsIn(c)) + 1
  BY <1>1, SeatsFinite, FS_AddElement
<1>. QED
  BY <1>2, <1>3, SeatsFinite

(* A seat is given back. *)
LEMMA SeatGone ==
    ASSUME TypeOK, NEW l \in Launches, NEW c \in {"month", "life"}, seat[l] = c,
           seat' = [seat EXCEPT ![l] = "none"]
    PROVE  /\ Seats(c)' = Seats(c) - 1
           /\ \A d \in {"month", "life"} \ {c} : Seats(d)' = Seats(d)
<1>1. SeatsIn(c)' = SeatsIn(c) \ {l} /\ l \in SeatsIn(c)
  BY DEF TypeOK, SeatsIn
<1>2. \A d \in {"month", "life"} \ {c} : SeatsIn(d)' = SeatsIn(d)
  BY DEF TypeOK, SeatsIn
<1>3. Cardinality(SeatsIn(c)') = Cardinality(SeatsIn(c)) - 1
  BY <1>1, SeatsFinite, FS_RemoveElement
<1>. QED
  BY <1>2, <1>3, SeatsFinite

(* A roll or a reset takes the seats of the month away, and only those.    *)
LEMMA MonthSeatsGone ==
    ASSUME TypeOK, seat' = WithoutMonthSeats
    PROVE  Seats("month")' = 0 /\ Seats("life")' = Seats("life")
<1>1. SeatsIn("month")' = {} /\ SeatsIn("life")' = SeatsIn("life")
  BY DEF TypeOK, SeatsIn, WithoutMonthSeats
<1>. QED
  BY <1>1, SeatsFinite, FS_EmptySet

(* A failed run gives back the seat it has, in the counter it is in. *)
LEMMA FailGivesBack ==
    ASSUME TypeOK, TierIsRead, SeatRules, NEW l \in Launches, Fail(l)
    PROVE  \/ UNCHANGED << used, life, seat >>
           \/ /\ seat[l] = "life" /\ seat' = [seat EXCEPT ![l] = "none"]
              /\ life' = life - 1 /\ used' = used
           \/ /\ seat[l] = "month" /\ seat' = [seat EXCEPT ![l] = "none"]
              /\ used' = used - 1 /\ life' = life
<1>1. pc[l] = "running" /\ as[l] = tier
  BY DEF Fail, TierIsRead
<1>2. CASE tier = "basic"
  <2>1. seat[l] = "life" /\ ~ MayReturn(l, "monthly")
    BY <1>1, <1>2 DEF SeatRules, SeatRule, MayReturn
  <2>2. \/ UNCHANGED << used, life, seat >>
        \/ /\ seat' = [seat EXCEPT ![l] = "none"]
           /\ life' = life - 1 /\ used' = used
    BY <2>1 DEF Fail, Tiers
  <2>. QED
    BY <2>1, <2>2
<1>3. CASE tier = "monthly"
  <2>1. ~ MayReturn(l, "basic") /\ (MayReturn(l, "monthly") => seat[l] = "month")
    BY <1>1, <1>3 DEF SeatRules, SeatRule, MayReturn
  <2>2. \/ UNCHANGED << used, life, seat >>
        \/ /\ seat[l] = "month" /\ seat' = [seat EXCEPT ![l] = "none"]
           /\ used' = used - 1 /\ life' = life
    BY <2>1 DEF Fail, Tiers
  <2>. QED
    BY <2>2
<1>. QED
  BY <1>2, <1>3 DEF TypeOK, Tiers

(* The package is never under-enforced: every launch that has its seat in  *)
(* a counter is counted there, whatever rolls, resets, returns and tier    *)
(* changes interleave, so no launch is admitted on the seat of another.    *)
THEOREM CountersCoverSeats == ASSUME Punctual PROVE Spec => []NeverUnderCounted
<1>. DEFINE Inv == NothingAhead /\ SeatRules /\ NeverUnderCounted
<1>1. Init => Inv
  <2>. SUFFICES ASSUME Init PROVE Inv
    OBVIOUS
  <2>1. \A c \in {"month", "life"} : SeatsIn(c) = {}
    BY DEF Init, SeatsIn
  <2>2. Seats("month") = 0 /\ Seats("life") = 0
    BY <2>1, SeatsFinite, FS_EmptySet
  <2>3. NeverUnderCounted
    BY <2>2 DEF Init, NeverUnderCounted
  <2>. QED
    BY <2>3, QuotaAssumption DEF Init, NothingAhead, SeatRules, SeatRule
<1>2. ASSUME TypeOK, TierIsRead, Inv, [Next]_vars PROVE Inv'
  <2>1. NothingAhead' /\ SeatRules'
    BY <1>2, ClockStep, RulesStep DEF Punctual
  <2>2. /\ Seats("month") \in Nat /\ Seats("life") \in Nat
        /\ Seats("month") <= used /\ Seats("life") <= life
        /\ used \in Int /\ life \in Int
    BY <1>2, SeatsFinite, Bounds DEF NeverUnderCounted, TypeOK
  <2>3. ASSUME UNCHANGED << used, life, seat >> PROVE NeverUnderCounted'
    BY <1>2, <2>3 DEF NeverUnderCounted, Seats
  <2>4. ASSUME seat' = WithoutMonthSeats, used' = 0, life' = life PROVE NeverUnderCounted'
    BY <1>2, <2>2, <2>4, MonthSeatsGone DEF NeverUnderCounted
  <2>5. ASSUME Tick \/ \E t \in Tiers : ChangeTier(t) PROVE NeverUnderCounted'
    BY <2>3, <2>5 DEF Tick, ChangeTier, counters
  <2>6. ASSUME NEW l \in Launches,
               \/ \E u \in Users : Claim(l, u)
               \/ CheckUser(l) \/ Compensate(l) \/ Complete(l) \/ DeleteStudy(l)
        PROVE  NeverUnderCounted'
    BY <2>3, <2>6 DEF Claim, CheckUser, Compensate, Complete, DeleteStudy, counters
  <2>7. ASSUME NEW l \in Launches, Roll(l) PROVE NeverUnderCounted'
    BY <2>3, <2>4, <2>7 DEF Roll
  <2>8. ASSUME NEW l \in Launches, Increment(l) PROVE NeverUnderCounted'
    <3>1. seat[l] = "none"
      BY <1>2, <2>8 DEF Increment, SeatRules, SeatRule
    <3>2. \/ UNCHANGED << used, life, seat >>
          \/ seat' = [seat EXCEPT ![l] = "life"] /\ life' = life + 1 /\ used' = used
          \/ seat' = [seat EXCEPT ![l] = "month"] /\ used' = used + 1 /\ life' = life
      BY <2>8 DEF Increment, counters
    <3>3. CASE seat' = [seat EXCEPT ![l] = "life"] /\ life' = life + 1 /\ used' = used
      <4>1. Seats("life")' = Seats("life") + 1 /\ Seats("month")' = Seats("month")
        BY <1>2, <3>1, <3>3, SeatGiven
      <4>. QED
        BY <2>2, <3>3, <4>1 DEF NeverUnderCounted
    <3>4. CASE seat' = [seat EXCEPT ![l] = "month"] /\ used' = used + 1 /\ life' = life
      <4>1. Seats("month")' = Seats("month") + 1 /\ Seats("life")' = Seats("life")
        BY <1>2, <3>1, <3>4, SeatGiven
      <4>. QED
        BY <2>2, <3>4, <4>1 DEF NeverUnderCounted
    <3>. QED
      BY <2>3, <3>2, <3>3, <3>4
  <2>9. ASSUME NEW l \in Launches, Fail(l) PROVE NeverUnderCounted'
    <3>1. CASE seat[l] = "life" /\ seat' = [seat EXCEPT ![l] = "none"]
               /\ life' = life - 1 /\ used' = used
      <4>1. Seats("life")' = Seats("life") - 1 /\ Seats("month")' = Seats("month")
        BY <1>2, <3>1, SeatGone
      <4>. QED
        BY <2>2, <3>1, <4>1 DEF NeverUnderCounted
    <3>2. CASE seat[l] = "month" /\ seat' = [seat EXCEPT ![l] = "none"]
               /\ used' = used - 1 /\ life' = life
      <4>1. Seats("month")' = Seats("month") - 1 /\ Seats("life")' = Seats("life")
        BY <1>2, <3>2, SeatGone
      <4>. QED
        BY <2>2, <3>2, <4>1 DEF NeverUnderCounted
    <3>. QED
      BY <1>2, <2>3, <2>9, <3>1, <3>2, FailGivesBack
  <2>10. ASSUME Reset PROVE NeverUnderCounted'
    BY <2>4, <2>10 DEF Reset, LifeAfterReset
  <2>11. ASSUME UNCHANGED vars PROVE NeverUnderCounted'
    BY <2>3, <2>11 DEF vars, counters
  <2>12. NeverUnderCounted'
    BY <1>2, <2>5, <2>6, <2>7, <2>8, <2>9, <2>10, <2>11
       DEF Next, LaunchStep, MonthlyReset, ResetAccountQuota
  <2>. QED
    BY <2>1, <2>12
<1>3. ~ TierRaces
  BY DEF Punctual
<1>. QED
  BY <1>1, <1>2, <1>3, TierInvariant, TypeCorrect, PTL DEF Spec

=============================================================================
