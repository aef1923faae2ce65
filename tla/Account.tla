-------------------------------- MODULE Account --------------------------------
(***************************************************************************)
(* The account of the browser session: the user and the role localStorage  *)
(* holds, and the copies App.tsx, Header.tsx and UserProfile.tsx keep of   *)
(* them (with auth/stubs.ts).  The copies are brought together by the      *)
(* event procluster_user_updated, which some of the writers dispatch, and  *)
(* by the storage event the browser sends for another tab's writes.        *)
(*                                                                         *)
(* A user is the flag that it is the administrator's (by name or e-mail)   *)
(* and a tier; role and subscriptionLevel are the tier wherever a writer   *)
(* sets them.                                                              *)
(***************************************************************************)
EXTENDS Tiers

CONSTANTS
    None,      \* nothing stored, nobody signed in, no plan
    MaxTimers  \* bound: verification timers running at once, per plan

ASSUME AccountAssumption ==
    /\ {"Free", "Pro", "VIP", "Admin"} \subseteq Roles
    /\ None \notin Roles \union [admin : BOOLEAN, tier : Roles]
    /\ MaxTimers \in Nat

VARIABLES
    saved, savedRole,  \* procluster_user and procluster_role of localStorage
    profileUser,       \* App's copy of the user
    headerUser,        \* Header's copy: whether someone is signed in, and as administrator
    currentView,       \* terminal, admin or profile
    tier,              \* tier of the profile form
    plan, step,        \* activePaymentPlan and paymentStep
    timers,            \* verification timers that have not fired, per plan they were started for
    unseen,            \* another tab wrote and its storage event is still to come
    paid,              \* history: the plan whose verification was the last to succeed
    crossed,           \* history: the checkout was opened with a timer still running
    missed,            \* history: a storage event found no user to take the role from
    wanted             \* history: the role last picked in the menu, until something else sets it

accountVars == <<role, saved, savedRole, profileUser, headerUser, currentView, tier, plan, step,
                 timers, unseen, paid, crossed, missed, wanted>>

Plans == {"Pro", "VIP"}
Users == [admin : BOOLEAN, tier : Roles]
storage == <<saved, savedRole>>
checkout == <<plan, step, timers, paid, crossed>>

(* The role of a stored user, as App.tsx derives it. *)
RoleOf(user) == user.tier

(* What getCurrentUser gives the header. *)
HeaderOf(user) == IF user = None THEN None ELSE [admin |-> user.admin]

(* A user made up from a role, when none is stored. *)
UserFor(r) == [admin |-> r = "Admin", tier |-> r]

(* The states App.tsx and Header.tsx start from. *)
StartsFrom(user, r) ==
    /\ role' = IF r # None THEN r ELSE IF user # None THEN RoleOf(user) ELSE "Admin"
    /\ profileUser' = IF user # None THEN user ELSE UserFor(IF r # None THEN r ELSE "Admin")
    /\ headerUser' = HeaderOf(user)
--------------------------------------------------------------------------------
(* The profile form follows App's user; without one it keeps what it has. *)
FormFollows(user) ==
    tier' = IF currentView = "profile" /\ user # None THEN user.tier ELSE tier

SynchronisedUnstored(user, r) ==
    /\ saved' = user
    /\ profileUser' = user
    /\ role' = IF user # None THEN RoleOf(user) ELSE r
    /\ savedRole' = savedRole
    /\ headerUser' = HeaderOf(user)
    /\ FormFollows(user)
    /\ missed' = FALSE

(* handleUpdate of App and of Header, for a stored user and role. *)
Synchronised(user, r) ==
    /\ saved' = user
    /\ profileUser' = user
    /\ role' = IF user # None THEN RoleOf(user) ELSE r
    /\ savedRole' = role'
    /\ headerUser' = HeaderOf(user)
    /\ FormFollows(user)
    /\ missed' = FALSE

(* What loginUser, registerUser and the two authenticate functions store. *)
Stored(user) == user.tier \in {"Admin", "Free"} /\ saved' = user

(* Sign in, register, Google or the administrator's button: the user is stored, the event *)
(* is not dispatched. *)
SignIn(user) ==
    /\ headerUser = None
    /\ Stored(user)
    /\ headerUser' = HeaderOf(user)
    /\ wanted' = None
    /\ UNCHANGED <<role, savedRole, profileUser, currentView, tier, checkout, unseen, missed>>

Logout ==
    /\ headerUser # None
    /\ saved' = None /\ headerUser' = None
    /\ wanted' = None
    /\ UNCHANGED <<role, savedRole, profileUser, currentView, tier, checkout, unseen, missed>>

(* handleUserRoleChange.  The event is dispatched, and handled, before React runs the *)
(* updater that stores the new tier: the handlers still read the old user, and the menu *)
(* is one pick behind.  Picking the role that is shown may let React run the updater at *)
(* once; whether it does depends on what it last rendered.  The menu is there for the role *)
(* Admin only. *)
Options == IF headerUser.admin THEN Roles ELSE Roles \intersect {"Guest", "VIP", "Admin"}

Repriced(r) == IF profileUser # None THEN [profileUser EXCEPT !.tier = r] ELSE UserFor(r)

PickedUnsaved(r) ==
    /\ saved' = saved
    /\ profileUser' = saved
    /\ role' = IF saved # None THEN RoleOf(saved) ELSE r
    /\ savedRole' = role'
    /\ headerUser' = HeaderOf(saved)
    /\ FormFollows(saved)
    /\ missed' = FALSE

PickedLate(r) ==
    /\ saved' = Repriced(r)
    /\ profileUser' = saved
    /\ role' = IF saved # None THEN RoleOf(saved) ELSE r
    /\ savedRole' = role'
    /\ headerUser' = HeaderOf(saved)
    /\ FormFollows(saved)
    /\ missed' = FALSE

ChangeUserRole(r) ==
    /\ headerUser # None /\ role = "Admin" /\ r \in Options
    /\ PickedLate(r) \/ (r = role /\ Synchronised(Repriced(r), r))
    /\ wanted' = r
    /\ UNCHANGED <<currentView, checkout, unseen>>

(* Another tab signs in or out, picks a role or buys a plan: any of it may be stored by *)
(* the time its event is handled here. *)
OtherTab(user, r) ==
    /\ ~unseen
    /\ saved' = user
    /\ savedRole' \in {savedRole, r}
    /\ unseen' = TRUE
    /\ wanted' = None
    /\ UNCHANGED <<role, profileUser, headerUser, currentView, tier, checkout, missed>>

(* A user that is gone leaves the role, stored or not, as it is. *)
StorageEvent ==
    /\ unseen
    /\ unseen' = FALSE
    /\ IF saved # None
         THEN Synchronised(saved, role)
         ELSE /\ profileUser' = None /\ headerUser' = None /\ missed' = TRUE
              /\ UNCHANGED <<role, saved, savedRole, tier>>
    /\ UNCHANGED <<currentView, checkout, wanted>>
--------------------------------------------------------------------------------
(* Mounting the profile page starts its state afresh; timers of an earlier one no longer *)
(* reach anything. *)
OpenProfile ==
    /\ headerUser # None /\ currentView # "profile"
    /\ currentView' = "profile"
    /\ tier' = IF profileUser # None THEN profileUser.tier ELSE "Pro"
    /\ plan' = None /\ step' = "choose" /\ timers' = [p \in Plans |-> 0]
    /\ paid' = None /\ crossed' = FALSE
    /\ UNCHANGED <<role, storage, profileUser, headerUser, unseen, missed, wanted>>

(* The page that is left loses its state; tier is back at what a form starts from. *)
Leaves(view) ==
    /\ currentView' = view
    /\ plan' = None /\ step' = "choose" /\ timers' = [p \in Plans |-> 0]
    /\ paid' = None /\ crossed' = FALSE /\ tier' = "Pro"
    /\ UNCHANGED <<role, storage, profileUser, headerUser, unseen, missed, wanted>>

OpenHome == currentView # "terminal" /\ Leaves("terminal")

OpenAdmin ==
    /\ headerUser # None /\ headerUser.admin
    /\ Leaves(IF currentView = "admin" THEN "terminal" ELSE "admin")

(* The name in the form is free text, so the user saved may be the administrator or not. *)
SaveChanges(admin) ==
    /\ currentView = "profile"
    /\ saved' = [admin |-> admin, tier |-> tier]
    /\ profileUser' = saved'
    /\ wanted' = None
    /\ UNCHANGED <<role, savedRole, headerUser, currentView, tier, checkout, unseen, missed>>

(* executeDirectUpgrade: the user and the role are stored before the event is dispatched. *)
Upgraded(t, admin) ==
    /\ Synchronised([admin |-> admin, tier |-> t], t)
    /\ wanted' = None
    /\ UNCHANGED <<currentView, unseen>>

DowngradeToFree(admin) ==
    /\ currentView = "profile" /\ plan = None /\ tier # "Free"
    /\ Upgraded("Free", admin)
    /\ UNCHANGED checkout
--------------------------------------------------------------------------------
StartPaymentCheckoutWhereItWas(p) ==
    /\ currentView = "profile" /\ plan = None /\ tier # p
    /\ plan' = p
    /\ crossed' = \E q \in Plans : timers[q] > 0
    /\ UNCHANGED <<role, storage, profileUser, headerUser, currentView, tier, step, timers,
                   unseen, paid, missed, wanted>>

StartPaymentCheckout(p) ==
    /\ currentView = "profile" /\ plan = None /\ tier # p
    /\ plan' = p /\ step' = "choose"
    /\ crossed' = \E q \in Plans : timers[q] > 0
    /\ UNCHANGED <<role, storage, profileUser, headerUser, currentView, tier, timers,
                   unseen, paid, missed, wanted>>

Others == <<role, storage, profileUser, headerUser, currentView, tier, unseen, missed, wanted>>

CancelCheckout ==
    /\ plan # None
    /\ plan' = None
    /\ UNCHANGED <<step, timers, paid, crossed, Others>>

Continue ==
    /\ plan # None /\ step = "choose"
    /\ step' = "deposit"
    /\ UNCHANGED <<plan, timers, paid, crossed, Others>>

(* The simulated verification; closing the dialog does not cancel its timer. *)
TriggerVerifySimulation ==
    /\ plan # None /\ step = "deposit" /\ timers[plan] < MaxTimers
    /\ step' = "verifying"
    /\ timers' = [timers EXCEPT ![plan] = @ + 1]
    /\ UNCHANGED <<plan, paid, crossed, Others>>

VerificationEnds(p) ==
    /\ currentView = "profile" /\ timers[p] > 0
    /\ step' = "success" /\ paid' = p
    /\ timers' = [timers EXCEPT ![p] = @ - 1]
    /\ UNCHANGED <<plan, crossed, Others>>

CommitPaymentSuccessUpgrade(admin) ==
    /\ plan # None /\ step = "success"
    /\ Upgraded(plan, admin)
    /\ plan' = None
    /\ UNCHANGED <<step, timers, paid, crossed>>

ReloadAccount ==
    /\ StartsFrom(saved, savedRole)
    /\ currentView' = "terminal" /\ unseen' = FALSE /\ missed' = FALSE
    /\ plan' = None /\ step' = "choose" /\ timers' = [p \in Plans |-> 0]
    /\ paid' = None /\ crossed' = FALSE /\ tier' = "Pro"
    /\ UNCHANGED <<storage, wanted>>
--------------------------------------------------------------------------------
(* A browser that has never been here. *)
AccountInit ==
    /\ saved = None /\ savedRole = None
    /\ role = "Admin" /\ profileUser = UserFor("Admin") /\ headerUser = None
    /\ currentView = "terminal" /\ tier = "Pro"
    /\ plan = None /\ step = "choose" /\ timers = [p \in Plans |-> 0]
    /\ unseen = FALSE /\ paid = None /\ crossed = FALSE /\ missed = FALSE /\ wanted = None

AccountNext ==
    \/ \E user \in Users : SignIn(user)
    \/ \E r \in Roles : ChangeUserRole(r)
    \/ \E user \in Users \union {None}, r \in Roles : OtherTab(user, r)
    \/ \E admin \in BOOLEAN :
         SaveChanges(admin) \/ DowngradeToFree(admin) \/ CommitPaymentSuccessUpgrade(admin)
    \/ \E p \in Plans : StartPaymentCheckout(p) \/ VerificationEnds(p)
    \/ Logout \/ StorageEvent \/ OpenProfile \/ OpenHome \/ OpenAdmin
    \/ CancelCheckout \/ Continue \/ TriggerVerifySimulation \/ ReloadAccount

AccountSpec == AccountInit /\ [][AccountNext]_accountVars
--------------------------------------------------------------------------------
(* Once a role is stored it is the role in force: App (which is given the   *)
(* role) and the indicators window (which reads the stored one) apply the   *)
(* same limits, and a reload keeps them (App.tsx:599, tierLimits.ts:117).   *)
(* The exceptions are another tab's write whose event is still to come, and *)
(* one whose event came when no user was stored: handleUpdate takes a role  *)
(* from a stored user only.                                                 *)
RoleIsStored == (savedRole # None /\ ~unseen /\ ~missed) => role = savedRole

(* A role picked in the menu is in force or stored with the user: the late *)
(* write of handleUserRoleChange delays a pick, it does not lose one, over *)
(* further picks, storage events and reloads (App.tsx:463, App.tsx:573).   *)
PickNotLost == wanted # None => (role = wanted \/ (saved # None /\ RoleOf(saved) = wanted))

(* The plan a success page is about to activate is the plan that was       *)
(* verified, unless the checkout was opened again while an earlier         *)
(* verification was running: its timer is not cancelled and moves the new  *)
(* checkout to success (UserProfile.tsx:475).                              *)
PlanPaidFor == (plan # None /\ step = "success" /\ ~crossed) => paid = plan
================================================================================
