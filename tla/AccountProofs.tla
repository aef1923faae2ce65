----------------------------- MODULE AccountProofs -----------------------------
(***************************************************************************)
(* Theorems about Account, for every set of tiers and every number of      *)
(* verification timers.                                                    *)
(***************************************************************************)
EXTENDS Account, TLAPS

USE AccountAssumption

--------------------------------------------------------------------------------
(* The role in force and the stored one.                                        *)

\* RoleIsStored is inductive as it stands: whoever changes the role in force stores it in
\* the same step, and the two events that do not are the exceptions it names.
LEMMA RoleIsStoredStep == RoleIsStored /\ [AccountNext]_accountVars => RoleIsStored'
<1> SUFFICES ASSUME RoleIsStored, [AccountNext]_accountVars PROVE RoleIsStored'
  OBVIOUS
<1> USE DEF RoleIsStored
<1>1. ASSUME NEW user \in Users, SignIn(user) PROVE RoleIsStored'
  BY <1>1 DEF SignIn
<1>2. ASSUME NEW r \in Roles, ChangeUserRole(r) PROVE RoleIsStored'
  BY <1>2 DEF ChangeUserRole, PickedLate, Synchronised
<1>3. ASSUME NEW user \in Users \union {None}, NEW r \in Roles, OtherTab(user, r)
      PROVE  RoleIsStored'
  BY <1>3 DEF OtherTab
<1>4. ASSUME NEW admin \in BOOLEAN,
             SaveChanges(admin) \/ DowngradeToFree(admin) \/ CommitPaymentSuccessUpgrade(admin)
      PROVE  RoleIsStored'
  BY <1>4 DEF SaveChanges, DowngradeToFree, CommitPaymentSuccessUpgrade, Upgraded, Synchronised
<1>5. ASSUME NEW p \in Plans, StartPaymentCheckout(p) \/ VerificationEnds(p)
      PROVE  RoleIsStored'
  BY <1>5 DEF StartPaymentCheckout, VerificationEnds, Others, storage
<1>6. CASE Logout
  BY <1>6 DEF Logout
<1>7. CASE StorageEvent
  BY <1>7 DEF StorageEvent, Synchronised
<1>8. CASE OpenProfile \/ OpenHome \/ OpenAdmin
  BY <1>8 DEF OpenProfile, OpenHome, OpenAdmin, Leaves, storage
<1>9. CASE CancelCheckout \/ Continue \/ TriggerVerifySimulation
  BY <1>9 DEF CancelCheckout, Continue, TriggerVerifySimulation, Others, storage
<1>10. CASE ReloadAccount
  BY <1>10 DEF ReloadAccount, StartsFrom, storage
<1>11. CASE UNCHANGED accountVars
  BY <1>11 DEF accountVars
<1> QED
  BY <1>1, <1>2, <1>3, <1>4, <1>5, <1>6, <1>7, <1>8, <1>9, <1>10, <1>11 DEF AccountNext

\* The tier that App applies and the one stored for the indicators window and for the next
\* page load are the same, for any set of tiers: through sign-ins, picks in the role menu,
\* upgrades, other tabs and reloads, but for the two delays RoleIsStored names.
THEOREM RoleIsStoredHolds == AccountSpec => []RoleIsStored
<1>1. AccountInit => RoleIsStored
  BY DEF AccountInit, RoleIsStored
<1> QED
  BY <1>1, RoleIsStoredStep, PTL DEF AccountSpec

--------------------------------------------------------------------------------
(* The role picked in the menu.                                                 *)

\* The copies of the user are users, and a pick is with the stored user at once: the write
\* that comes too late for the event is still part of the same step.
PickInv ==
    /\ role \in Roles
    /\ savedRole \in Roles \union {None}
    /\ saved \in Users \union {None}
    /\ profileUser \in Users \union {None}
    /\ tier \in Roles
    /\ plan \in Plans \union {None}
    /\ wanted # None => saved # None /\ saved.tier = wanted

\* A user made up from a role, or given another one, is a user with that tier.
LEMMA TierOfUser ==
    ASSUME NEW r \in Roles, profileUser \in Users \union {None}
    PROVE  /\ UserFor(r) \in Users /\ UserFor(r).tier = r
           /\ Repriced(r) \in Users /\ Repriced(r).tier = r
           /\ Repriced(r) # None
<1>1. (r = "Admin") \in BOOLEAN
  OBVIOUS
<1>2. UserFor(r) \in Users /\ UserFor(r).tier = r
  BY <1>1 DEF UserFor, Users
<1>3. ASSUME profileUser # None
      PROVE  /\ [profileUser EXCEPT !.tier = r] \in Users
             /\ [profileUser EXCEPT !.tier = r].tier = r
  BY <1>3 DEF Users
<1> QED
  BY <1>2, <1>3 DEF Repriced, Users

\* The event that brings the copies together keeps them users.
LEMMA SynchronisedTypes ==
    ASSUME PickInv, NEW user \in Users \union {None}, NEW r \in Roles, Synchronised(user, r)
    PROVE  /\ role' \in Roles /\ savedRole' \in Roles \union {None} /\ tier' \in Roles
           /\ saved' = user /\ profileUser' = user
  BY DEF PickInv, Synchronised, FormFollows, RoleOf, Users

\* Every step keeps PickInv; the ones that store a user without being a pick forget the pick.
LEMMA PickInvStep == PickInv /\ [AccountNext]_accountVars => PickInv'
<1> SUFFICES ASSUME PickInv, [AccountNext]_accountVars PROVE PickInv'
  OBVIOUS
<1>1. ASSUME NEW user \in Users, SignIn(user) PROVE PickInv'
  BY <1>1 DEF PickInv, SignIn, Stored, checkout
<1>2. ASSUME NEW r \in Roles, ChangeUserRole(r) PROVE PickInv'
  <2>0. plan' = plan /\ wanted' = r
    BY <1>2 DEF ChangeUserRole, checkout
  <2>1. CASE PickedLate(r)
    BY <2>0, <2>1, TierOfUser DEF PickInv, PickedLate, FormFollows, RoleOf, Users
  <2>2. CASE Synchronised(Repriced(r), r)
    BY <2>0, <2>2, TierOfUser, SynchronisedTypes DEF PickInv
  <2> QED
    BY <1>2, <2>1, <2>2 DEF ChangeUserRole
<1>3. ASSUME NEW user \in Users \union {None}, NEW r \in Roles, OtherTab(user, r) PROVE PickInv'
  BY <1>3 DEF PickInv, OtherTab, checkout
<1>4. ASSUME NEW admin \in BOOLEAN, SaveChanges(admin) PROVE PickInv'
  <2>1. [admin |-> admin, tier |-> tier] \in Users
    BY DEF PickInv, Users
  <2> QED
    BY <1>4, <2>1 DEF PickInv, SaveChanges, checkout
<1>5. ASSUME NEW admin \in BOOLEAN, NEW t \in Roles, Upgraded(t, admin),
             plan' \in Plans \union {None}
      PROVE  PickInv'
  <2>1. [admin |-> admin, tier |-> t] \in Users
    BY DEF Users
  <2> QED
    BY <1>5, <2>1, SynchronisedTypes DEF PickInv, Upgraded
<1>6. ASSUME NEW admin \in BOOLEAN, DowngradeToFree(admin) \/ CommitPaymentSuccessUpgrade(admin)
      PROVE  PickInv'
  BY <1>5, <1>6 DEF DowngradeToFree, CommitPaymentSuccessUpgrade, PickInv, checkout, Plans
<1>7. ASSUME NEW p \in Plans, StartPaymentCheckout(p) \/ VerificationEnds(p)
      PROVE  PickInv'
  BY <1>7 DEF PickInv, StartPaymentCheckout, VerificationEnds, Others, storage
<1>8. CASE Logout
  BY <1>8 DEF PickInv, Logout, checkout
<1>9. CASE StorageEvent
  <2>1. CASE saved # None
    BY <1>9, <2>1, SynchronisedTypes DEF StorageEvent, PickInv, checkout
  <2>2. CASE saved = None
    BY <1>9, <2>2 DEF StorageEvent, PickInv, checkout
  <2> QED
    BY <2>1, <2>2
<1>10. CASE OpenProfile \/ OpenHome \/ OpenAdmin
  BY <1>10 DEF PickInv, OpenProfile, OpenHome, OpenAdmin, Leaves, storage, Users
<1>11. CASE CancelCheckout \/ Continue \/ TriggerVerifySimulation
  BY <1>11 DEF PickInv, CancelCheckout, Continue, TriggerVerifySimulation, Others, storage
<1>12. CASE ReloadAccount
  BY <1>12, TierOfUser DEF PickInv, ReloadAccount, StartsFrom, storage, RoleOf, Users, UserFor
<1>13. CASE UNCHANGED accountVars
  BY <1>13 DEF PickInv, accountVars
<1> QED
  BY <1>1, <1>2, <1>3, <1>4, <1>6, <1>7, <1>8, <1>9, <1>10, <1>11, <1>12, <1>13 DEF AccountNext

\* A role picked in the menu is not lost, whatever the tiers and however picks, storage
\* events, other tabs and reloads follow one another: until something else sets the role,
\* it is in force or with the stored user (handleUserRoleChange, App.tsx:463).
THEOREM PickNotLostHolds == AccountSpec => []PickNotLost
<1>1. AccountInit => PickInv
  BY TierOfUser DEF AccountInit, PickInv, UserFor, Users
<1>2. PickInv => PickNotLost
  BY DEF PickInv, PickNotLost, RoleOf
<1> QED
  BY <1>1, <1>2, PickInvStep, PTL DEF AccountSpec

--------------------------------------------------------------------------------
(* The plan that was paid for.                                                  *)

\* In a checkout that was opened with no timer running, the timers that run are of its own
\* plan: it is the only plan a verification can be started for until the dialog closes.
CheckoutInv ==
    /\ timers \in [Plans -> Nat]
    /\ plan \in Plans \union {None}
    /\ (plan # None /\ ~crossed) => \A p \in Plans \ {plan} : timers[p] = 0
    /\ PlanPaidFor

\* Every step keeps CheckoutInv: opening a checkout goes back to the choice, and only a timer
\* leads on to success.
LEMMA CheckoutInvStep == CheckoutInv /\ [AccountNext]_accountVars => CheckoutInv'
<1> SUFFICES ASSUME CheckoutInv, [AccountNext]_accountVars PROVE CheckoutInv'
  OBVIOUS
<1> None \notin Plans
  BY DEF Plans
<1> USE DEF CheckoutInv, PlanPaidFor
<1>1. CASE UNCHANGED checkout
  BY <1>1 DEF checkout
<1>2. ASSUME plan' = None, timers' = [p \in Plans |-> 0] PROVE CheckoutInv'
  BY <1>2
<1>3. ASSUME NEW p \in Plans, StartPaymentCheckout(p) PROVE CheckoutInv'
  BY <1>3 DEF StartPaymentCheckout
<1>4. ASSUME NEW p \in Plans, VerificationEnds(p) PROVE CheckoutInv'
  <2>1. timers' \in [Plans -> Nat] /\ plan' = plan /\ crossed' = crossed /\ paid' = p
    BY <1>4 DEF VerificationEnds
  <2>2. timers[p] > 0 /\ \A q \in Plans \ {p} : timers'[q] = timers[q]
    BY <1>4 DEF VerificationEnds
  <2>3. ASSUME plan # None, ~crossed PROVE p = plan
    BY <2>2, <2>3
  <2> QED
    BY <2>1, <2>2, <2>3
<1>5. CASE CancelCheckout \/ \E admin \in BOOLEAN : CommitPaymentSuccessUpgrade(admin)
  BY <1>5 DEF CancelCheckout, CommitPaymentSuccessUpgrade
<1>6. CASE Continue
  BY <1>6 DEF Continue
<1>7. CASE TriggerVerifySimulation
  BY <1>7 DEF TriggerVerifySimulation
<1>8. \/ UNCHANGED checkout
      \/ plan' = None /\ timers' = [p \in Plans |-> 0]
      \/ \E p \in Plans : StartPaymentCheckout(p) \/ VerificationEnds(p)
      \/ CancelCheckout \/ Continue \/ TriggerVerifySimulation
      \/ \E admin \in BOOLEAN : CommitPaymentSuccessUpgrade(admin)
  BY DEF AccountNext, accountVars, checkout, SignIn, ChangeUserRole, OtherTab, SaveChanges,
         DowngradeToFree, Logout, StorageEvent, OpenProfile, OpenHome, OpenAdmin, Leaves,
         ReloadAccount
<1> QED
  BY <1>1, <1>2, <1>3, <1>4, <1>5, <1>6, <1>7, <1>8

\* The plan a success page activates is the one that was verified, for any number of timers
\* still running, unless the checkout was opened while an earlier timer was running
\* (triggerVerifySimulation, UserProfile.tsx:475).
THEOREM PlanPaidForHolds == AccountSpec => []PlanPaidFor
<1>1. AccountInit => CheckoutInv
  BY DEF AccountInit, CheckoutInv, PlanPaidFor
<1>2. CheckoutInv => PlanPaidFor
  BY DEF CheckoutInv
<1> QED
  BY <1>1, <1>2, CheckoutInvStep, PTL DEF AccountSpec
================================================================================
