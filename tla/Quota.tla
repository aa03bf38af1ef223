-------------------------------- MODULE Quota --------------------------------
(***************************************************************************)
(* One account's launch quota (silk_platform/quota.py) over time: the two  *)
(* stored counters, the lazy roll of the monthly one, the count derived    *)
(* per user from the launch stamps, the return of a failed launch, the two *)
(* resets with their watermark, and the tier of the account changing:      *)
(* between any two steps under TierRaces, otherwise with no launch alive.  *)
(*                                                                         *)
(* Every statement of the code is its own step where it commits on its     *)
(* own, and the clock may tick between any two of them.                    *)
(*                                                                         *)
(*   now        the clock, in seconds; MonthLen seconds make a month       *)
(*   tier       accounts.tier: "basic", or "monthly" for all the others    *)
(*   used       accounts.current_month_study_count                         *)
(*   life       accounts.lifetime_study_count                              *)
(*   period     accounts.quota_period                                      *)
(*   watermark  accounts.quota_reset_at                                    *)
(*   pc, user   where each launch is, and who made it                      *)
(*   as         the tier each launch read before it reserved               *)
(*   stamp      studies.launched_at                                        *)
(*   seat       history: the counter each launch has its seat in           *)
(***************************************************************************)
EXTENDS Naturals, FiniteSets

CONSTANTS
    Launches,    \* launches, one study each
    Users,       \* members of the account
    Nobody,      \* SQL NULL for a user
    Limit,       \* effective monthly_studies of the other tiers
    LifeLimit,   \* effective lifetime_studies of the basic tier
    UserLimit,   \* per_user_monthly_studies; 0 is no limit
    MonthLen,    \* bound: seconds in a month
    MaxTime,     \* bound: the clock stops here
    LongRuns,    \* a monthly run may be alive when the month turns
    SameSecond,  \* a monthly launch and a reset may carry the same second
    TierRaces    \* the tier may change while a launch is alive

ASSUME QuotaAssumption ==
    /\ IsFiniteSet(Launches)
    /\ Nobody \notin Users
    /\ {Limit, LifeLimit} \subseteq Nat
    /\ UserLimit \in Nat
    /\ MonthLen \in Nat \ {0}
    /\ MaxTime \in Nat
    /\ {LongRuns, SameSecond, TierRaces} \subseteq BOOLEAN

VARIABLES now, tier, used, life, period, watermark, pc, user, as, stamp, seat

counters == << used, life, period, seat >>
launch   == << user, as, stamp >>
vars == << now, tier, counters, watermark, pc, launch >>

Tiers == {"basic", "monthly"}

(* current_period(); stamps and watermarks are never 0, which is NULL. *)
Month(t) == t \div MonthLen

TypeOK ==
    /\ now \in Nat \ {0}
    /\ tier \in Tiers
    /\ used \in 0..Limit
    /\ life \in 0..LifeLimit
    /\ period \in Nat
    /\ watermark \in Nat
    /\ pc \in [Launches -> {"idle", "claimed", "checked", "rolled", "refused",
                            "closed", "running", "completed", "failed",
                            "deleted"}]
    /\ user \in [Launches -> Users \cup {Nobody}]
    /\ as \in [Launches -> Tiers \cup {"none"}]
    /\ stamp \in [Launches -> Nat]
    /\ seat \in [Launches -> {"none", "month", "life"}]

Init ==
    /\ now = MonthLen
    /\ tier \in Tiers
    /\ used = 0
    /\ life = 0
    /\ period = 0
    /\ watermark = 0
    /\ pc = [l \in Launches |-> "idle"]
    /\ user = [l \in Launches |-> Nobody]
    /\ as = [l \in Launches |-> "none"]
    /\ stamp = [l \in Launches |-> 0]
    /\ seat = [l \in Launches |-> "none"]

InFlight(l) == pc[l] \in {"claimed", "checked", "rolled", "refused", "running"}

Tick ==
    /\ now < MaxTime
    /\ \/ LongRuns
       \/ Month(now + 1) = Month(now)
       \/ \A l \in Launches : pc[l] = "running" => as[l] = "basic"
    /\ now' = now + 1
    /\ UNCHANGED << tier, counters, watermark, pc, launch >>

(* set_account_tier: the counters are left as they are. *)
ChangeTier(t) ==
    /\ t # tier
    /\ TierRaces \/ \A l \in Launches : ~ InFlight(l)
    /\ tier' = t
    /\ UNCHANGED << now, counters, watermark, pc, launch >>

(* The claim of launch_study writes the stamp before anything is checked. *)
Claim(l, u) ==
    /\ pc[l] = "idle"
    /\ SameSecond \/ tier = "basic" \/ watermark < now
    /\ pc' = [pc EXCEPT ![l] = "claimed"]
    /\ user' = [user EXCEPT ![l] = u]
    /\ stamp' = [stamp EXCEPT ![l] = now]
    /\ UNCHANGED << now, tier, counters, watermark, as >>

-----------------------------------------------------------------------------
(* reserve_launch.                                                         *)

(* Mutant: launches that have run already are not counted. *)
Mut_UserLaunches(u) ==
    {l \in Launches : /\ user[l] = u /\ pc[l] \in {"claimed", "checked", "rolled"}
                      /\ Month(stamp[l]) = Month(now) /\ stamp[l] > watermark}

(* user_launches_this_period: the user's stamps of this month, after the  *)
(* watermark; a stamp that was cleared is 0, a deleted study has no row.  *)
UserLaunches(u) ==
    {l \in Launches : /\ user[l] = u /\ stamp[l] # 0 /\ pc[l] # "deleted"
                      /\ Month(stamp[l]) = Month(now) /\ stamp[l] > watermark}

WithinUserLimit(u) == UserLimit = 0 \/ Cardinality(UserLaunches(u)) <= UserLimit

(* The account's row is read once, before the user check: the tier in it  *)
(* decides which counter the launch goes to.                              *)
CheckUser(l) ==
    /\ pc[l] = "claimed"
    /\ as' = [as EXCEPT ![l] = tier]
    /\ pc' = [pc EXCEPT ![l] =
          IF ~ WithinUserLimit(user[l]) THEN "refused"
          ELSE IF tier = "basic" THEN "rolled" ELSE "checked"]
    /\ UNCHANGED << now, tier, counters, watermark, user, stamp >>

MonthIsNew == period # Month(now)

WithoutMonthSeats == [l \in Launches |-> IF seat[l] = "month" THEN "none" ELSE seat[l]]

(* _roll_period_if_needed: one guarded UPDATE, committed on its own. *)
Roll(l) ==
    /\ pc[l] = "checked"
    /\ pc' = [pc EXCEPT ![l] = "rolled"]
    /\ IF MonthIsNew
       THEN used' = 0 /\ period' = Month(now) /\ seat' = WithoutMonthSeats
       ELSE UNCHANGED << used, period, seat >>
    /\ UNCHANGED << now, tier, life, watermark, launch >>

(* Mutant: the guard admits one launch too many. *)
Mut_UnderLimit(l) == IF as[l] = "basic" THEN life < LifeLimit ELSE used <= Limit

UnderLimit(l) == IF as[l] = "basic" THEN life < LifeLimit ELSE used < Limit

(* The guarded increment; the period it writes is read once more. *)
Increment(l) ==
    /\ pc[l] = "rolled"
    /\ \/ /\ ~ UnderLimit(l)
          /\ pc' = [pc EXCEPT ![l] = "refused"]
          /\ UNCHANGED counters
       \/ /\ UnderLimit(l) /\ as[l] = "basic"
          /\ pc' = [pc EXCEPT ![l] = "running"]
          /\ life' = life + 1
          /\ seat' = [seat EXCEPT ![l] = "life"]
          /\ UNCHANGED << used, period >>
       \/ /\ UnderLimit(l) /\ as[l] = "monthly"
          /\ pc' = [pc EXCEPT ![l] = "running"]
          /\ used' = used + 1
          /\ period' = Month(now)
          /\ seat' = [seat EXCEPT ![l] = "month"]
          /\ UNCHANGED life
    /\ UNCHANGED << now, tier, watermark, launch >>

(* The compensation of a refused launch clears the stamp. *)
Compensate(l) ==
    /\ pc[l] = "refused"
    /\ pc' = [pc EXCEPT ![l] = "closed"]
    /\ stamp' = [stamp EXCEPT ![l] = 0]
    /\ UNCHANGED << now, tier, counters, watermark, user, as >>

-----------------------------------------------------------------------------
(* The end of a run: release_launch gives the seat of a failed one back.   *)

Complete(l) ==
    /\ pc[l] = "running"
    /\ pc' = [pc EXCEPT ![l] = "completed"]
    /\ UNCHANGED << now, tier, counters, watermark, launch >>

(* delete_study takes the row, and the stamp in it, away. *)
DeleteStudy(l) ==
    /\ pc[l] = "completed"
    /\ pc' = [pc EXCEPT ![l] = "deleted"]
    /\ UNCHANGED << now, tier, counters, watermark, launch >>

(* Mutant: the watermark is not looked at. *)
Mut_ZeroedByReset(l) == FALSE

(* The launch is older than the last reset, which has zeroed its seat. *)
ZeroedByReset(l) == watermark # 0 /\ stamp[l] < watermark

(* The counter a seat is returned to is that of the tier of today. *)
MayReturn(l, t) ==
    /\ tier = t
    /\ ~ ZeroedByReset(l)
    /\ CASE t = "basic" -> life > 0
         [] t = "monthly" -> used > 0 /\ period \in {0, Month(now)}

Fail(l) ==
    /\ pc[l] = "running"
    /\ pc' = [pc EXCEPT ![l] = "failed"]
    /\ stamp' = [stamp EXCEPT ![l] = 0]
    /\ life' = IF MayReturn(l, "basic") THEN life - 1 ELSE life
    /\ used' = IF MayReturn(l, "monthly") THEN used - 1 ELSE used
    /\ seat' = IF \E t \in Tiers : MayReturn(l, t)
               THEN [seat EXCEPT ![l] = "none"] ELSE seat
    /\ UNCHANGED << now, tier, period, watermark, user, as >>

-----------------------------------------------------------------------------
(* The resets stamp the watermark and zero the monthly counter only.       *)

(* Mutant: the lifetime counter is zeroed with the monthly one. *)
Mut_LifeAfterReset == 0

LifeAfterReset == life

Reset ==
    /\ SameSecond \/ tier = "basic" \/ \A l \in Launches : stamp[l] < now
    /\ watermark' = now
    /\ period' = Month(now)
    /\ used' = 0
    /\ life' = LifeAfterReset
    /\ seat' = WithoutMonthSeats
    /\ UNCHANGED << now, tier, pc, launch >>

(* monthly_reset: the scheduler's job, idle on accounts already rolled. *)
MonthlyReset ==
    /\ tier = "monthly"
    /\ MonthIsNew
    /\ Reset

(* reset_account_quota: the administrator's, at any time and tier. *)
ResetAccountQuota ==
    /\ watermark # now
    /\ Reset

-----------------------------------------------------------------------------
LaunchStep(l) ==
    \/ \E u \in Users : Claim(l, u)
    \/ CheckUser(l)
    \/ Roll(l)
    \/ Increment(l)
    \/ Compensate(l)
    \/ Complete(l)
    \/ DeleteStudy(l)
    \/ Fail(l)

Next ==
    \/ Tick
    \/ \E t \in Tiers : ChangeTier(t)
    \/ MonthlyReset
    \/ ResetAccountQuota
    \/ \E l \in Launches : LaunchStep(l)

Spec == Init /\ [][Next]_vars

-----------------------------------------------------------------------------
Seats(c) == Cardinality({l \in Launches : seat[l] = c})

(* The package is never under-enforced: every launch that has its seat in *)
(* a counter is counted there, whatever rolls, resets, returns and tier   *)
(* changes interleave, so no launch is admitted on the seat of another.   *)
NeverUnderCounted == Seats("month") <= used /\ Seats("life") <= life

(* The user's launches that were admitted in the current window. *)
AdmittedNow(u) ==
    {l \in Launches :
        /\ user[l] = u /\ pc[l] \in {"checked", "rolled", "running", "completed"}
        /\ Month(stamp[l]) = Month(now) /\ stamp[l] > watermark}

(* A user never has more launches admitted since the start of the month   *)
(* and the last reset than the user limit: the stamp is written before    *)
(* the count is read, so two concurrent launches cannot both slip in.     *)
UserNeverOver ==
    UserLimit # 0 =>
        \A u \in Users : Cardinality(AdmittedNow(u)) <= UserLimit

(* The basic package is for life: no new month, no reset and no detour    *)
(* over another tier lets an account have more basic launches, over all   *)
(* time, than its lifetime limit.                                         *)
LifetimeNeverOver ==
    Cardinality({l \in Launches :
        as[l] = "basic" /\ pc[l] \in {"running", "completed", "deleted"}}) <= LifeLimit

=============================================================================
