# Remnashop in TLA+

A formal model of the parts of Remnashop (a Telegram bot, a web API and a task
worker that sell VPN subscriptions through the Remnawave panel) whose
correctness depends on the order of things: payments, promo codes, broadcasts,
the access settings with their waiting list, subscriptions kept both in the
database and on the panel, referral rewards, roles and blocking, the accounts of
the web cabinet, and the windows of the bot. TLC checks the models on small
instances; TLAPS proves the safety properties of eight of them, all but the
windows, for all values of the constants, and that four of them implement an
abstract specification.
Paths below are relative to `src/` of the repository.

## 1. The system

Two processes run the same code: the web process (uvicorn: bot updates,
webhooks of gateways and panel, public API) and one task worker
(`docker-compose.prod.internal.yml:104`: one process, tasks acknowledged when
received). Each is an asyncio event loop, so every `await` is a point where
other work runs. They share PostgreSQL (READ COMMITTED; a `UnitOfWork` is a
transaction that commits when told to and rolls back otherwise), Redis (the task
stream, cached settings, the waiting list, refresh tokens), the panel, the
payment gateways and Telegram. None of these is in a transaction with another:
nearly every hazard below is a write to one of them before or after the commit
of another.

| Component | State it keeps | Operations | Hard because |
|---|---|---|---|
| Payment processing | `transactions`, gateway invoices, task stream | create (paid, free, test), webhook, ProcessPayment, cancel old, refund | duplicated and late webhooks, concurrent runs, crash after ack |
| Purchase | `subscriptions`, `users.current_subscription_id`, discount, panel user | new, renew, change, trial | panel call before commit, stale reads |
| Promo codes | `promocodes`, `promocode_activations`, reward rows, panel user | create, edit, delete, validate, activate | limits under concurrency, panel before commit, row lock |
| Broadcasts | `broadcasts`, `broadcast_messages`, chats | start, send in batches, cancel, delete | two tasks and an administrator writing one status |
| Access control | settings row, its Redis copy, waiting list | change mode, toggle registration / payments, check an update | cache and commit, list read then cleared |
| Subscription management | subscription rows, current pointer, panel users | toggle, delete, limits, squads, duration, set plan, two syncs | the panel also writes, through webhooks |
| Panel client and events | panel users, local rows | user webhooks, status, delete, torrent report, link reset | events out of order with local commits |
| Referrals | `referrals`, `referral_rewards`, points, settings | attach, assign, create, give, mark; change points and settings | a reward in several transactions, points read and written back |
| Users, roles, blacklist | `users`, blocked ids | register (bot, web), transfer owner, roles, block, sync the blacklist | read-then-write in READ COMMITTED, a list written whole |
| Web authentication | refresh tokens in Redis, email codes | log in, refresh, log out, change password, change and verify the address | three Redis calls, partial writes of a user |
| Telegram dialogs | one dialog stack per user in Redis | the buttons, inputs and getters of 157 windows | data a window expects from an earlier one, roles that change meanwhile |
| Plans, gateway configuration | `plans`, `payment_gateways` | edit, move up, delete | renumbering from a stale read |
| Notifications | in-memory queue | enqueue, send a batch, drain | shutdown during a batch |
| Task stream, scheduler | Redis stream | publish, receive | bounded length |
| Pricing, permissions | none | pure functions | rounding, order of discounts |
| Gateway adapters, panel HTTP, backups, import, blacklist downloads, statistics, menu, translations | rows or files of their own | input and output | - |

How they interact: a dialog or the web API creates a payment; the gateway calls
the webhook, which queues a task; the worker runs `ProcessPayment`, which calls
the purchase, then the referral rewards; the purchase and the promo codes call
the panel and write subscriptions; the panel calls back with webhooks. Every bot
update first passes the access check, which reads the cached settings and may
put the user on the waiting list; toggling payments empties it and queues a task
that writes to its members. Administrators' broadcasts are tasks that read and
write the broadcast's rows. Registration reads the blacklist that administrators
and a scheduled sync write; a change of a role sends its user to the main menu
and closes the windows the new role may not see. The web cabinet shares the user
rows with the bot. What each component must get right is the list of properties
in section 3; for components without a module it is in section 7.

## 2. Modules

| Module | What it is |
|---|---|
| `Payments` | orders, gateway, webhook, stream, runs of ProcessPayment, purchase, cancellation of old orders |
| `PaymentLedger` | the abstract specification: the statuses a payment may go through, one purchase per payment |
| `Promocodes` | administration and activation of promo codes |
| `PromocodeLedger` | the abstract specification: an activation is one step that consumes the code and gives the reward |
| `Broadcast` | one broadcast: sending task, cancel request, deletion tasks |
| `BroadcastPromise` | the abstract specification: a recipient is taken up once and gets one message or none; only delivered messages are taken back |
| `Access` | access settings, their cached copy, the access check and the waiting list |
| `Subscriptions` | one user's subscription rows against the panel user: operations, trial, webhooks, synchronisations |
| `Referrals` | registration with a code, orders, the reward task of an order over two levels, changes of points and of the referral settings |
| `RewardLedger` | the abstract specification: a reward is made once, granted in one step for what it was made, then marked |
| `Accounts` | user rows: registration, the owner's role, changes of roles, blocking and the blacklist |
| `WebAccounts` | sessions of the web cabinet, passwords, e-mail addresses and their codes |
| `Dialogs` | one user's dialog stack: what aiogram-dialog and the error middleware make of the tables |
| `Widgets` | the vocabulary of the tables |
| `MenuDialogs`, `SubscriptionDialogs`, `UserDialogs`, `PlanDialogs`, `PromocodeDialogs`, `EditorDialogs`, `SettingsDialogs`, `PanelDialogs` | every window of the bot: its buttons, handlers and getter |
| `PaymentsProofs`, `PromocodesProofs`, `BroadcastProofs`, `AccessProofs`, `SubscriptionsProofs`, `AccountsProofs`, `ReferralsProofs`, `WebAccountsProofs` | inductive invariants and theorems |
| `MCPayments`, `MCPromocodes`, `MCBroadcast`, `MCAccess`, `MCSubscriptions`, `MCReferrals`, `MCAccounts`, `MCWebAccounts`, `MCDialogs` | values for the small instances |

In all of them a transaction that only touches rows is one step, a call to
another system is a step of its own, and whatever code holds in memory between
two awaits is a field of the task's record, so stale reads are in the models. A
process that dies forgets its tasks. A name with an underscore and the comment
"mutant" is a plausible mistake in the definition that follows it: it is not part
of the specification, and the property named beside it in `PROJECT.json` fails
when it is put in the place of that definition.

### Payments

State: `status`, `kind`, `grantOf` are the transaction rows (with the purchase
type, or "TEST" for `is_test`, and the one-time discount in the price);
`invoice` and `hooks` the gateway, `queue` the stream; `run` the records of
ProcessPayment in progress; `rows`, `current`, `discount` the subscriptions and
users; `panel` the panel user, as periods paid. `credit`, `stale`, `lost` are
history.

- `CreatePayment`, `CreateFreePayment`, `CreateTestPayment`: the invoice, then
  the row. `ChoosePurchaseType` is the menu, which may be out of date when the
  order is made.
- `BuyerPays`, `InvoiceExpires`, `GatewayRefunds`, `GatewayResends`: the gateway;
  every change is a notification that stays in `hooks` until accepted.
- `AcceptWebhook` queues the task; `SwallowWebhook` is the webhook whose
  processing raises and is answered with a success all the same.
- `ReceiveTask` / `ConfirmFreePayment` start a run; its steps are
  `TransitionStatus` (the conditional UPDATE), `ReadCurrentSubscription`,
  `CallPanel` or `PanelFails`, `CommitPurchase` or `CommitFails`, `MarkFailed`,
  `FinishRun`; `Crash` at any point.
- `CancelOldTransactions`: one UPDATE of any set of pending orders (no clock: any
  of them may be 30 minutes old).

`Ledger == INSTANCE PaymentLedger` maps a payment's purchase to
`credit[p] # NoRow` and the payments that buy nothing to `Test`.

Not in it: trial plans sold for money, a gateway other than the transaction's,
notifications for unknown payments (the code returns), the 503 when the task
cannot be queued (the gateway repeats), Telegram Stars (the same ProcessPayment
without the stream, and the owner's own refund, which cancels), what referral
rewards do, the length of the stream.

### Promocodes

State: `promo` (whether it is open, and its rules: limit, reuse, reward and
audience, all of which an edit may change), `acts` the activations, `lock`
the row lock, `sub`, `panel`, `discount` what a user has in the database, on the
panel and as discount, `task` the requests with what each looked up and read.
A request goes `LookUp`, `Validate`, `ReadSubscription`, `ApplyRewardRemote` (or
`PanelRefuses`), `LockPromocode`, `CheckActivation`, `CommitActivation` (or
`CodeIsGone`), and may `Fail` at any await. Administrators create, edit and
delete; an edit that closes a code stands for its expiry too.
`Ledger == INSTANCE PromocodeLedger` maps the ledger's terms to the history of
the codes (`peak`, `reused`, `kinds`), its redemptions to `acts` and what a user
has to `sub`: of the eight steps of a request only the commit is a step of the
ledger. Left out: the audience INVITED (a fixed fact of a user), the refusal to add to an unlimited
resource, the other writers of the subscription (were it deleted between `Validate` and
`ReadSubscription`, the code would be consumed and give nothing).

### Broadcast

State: `status`, `row`, `stats` the tables, `received`, `removed` the chats,
`send` the sending task, `del` the deletion tasks with the rows each has read,
`cancel` the request between its check and its write. Messages of a batch are
sent concurrently (`SendOne`, or `SendLost` when Telegram's answer is lost); the
batch is recorded by `UpdateStatuses`; `NextBatch` reads the status again.
Deletion: `DeleteBroadcast`, `NextDeletion`, `DeleteOne`, `RecordDeletions`,
`FinishDeletion`. `SendingFails`, `DeletionFails` and `WorkerDies` are the
failures. `Promise == INSTANCE BroadcastPromise` maps who may still be taken up to
`ToCome` (everybody until the audience is read, then the batches to come, nobody when the
sending has ended), the batch in hand to who `Awaits` an answer, and the messages taken
back to `removed`. Left out: the weekly clean-up of old broadcasts, the audience query,
the branch for a task that finds its rows initialised (tasks are not
redelivered).

### Access

State: `db` and `lock` the settings row, `cache` its copy, `waitlist` the Redis
set, `task` the operations of administrators and the checks of users.
`ReadCache`, `SelectSettings`, `FillCache` are `SettingsDao.get`;
`UpdateSettings`, `InvalidateCache`, `CommitSettings` an operation, in the
code's order (the copy is deleted before the commit). `GetMembers`,
`NotifyRestored`, `ClearWaitlist` follow when payments are allowed again.
`CheckAccess`, `FindOnWaitlist`, `AddToWaitlist` are a user's check. `ExpireCache`,
failures of each step and `ProcessDies` complete it. Left out: what becomes of
an admitted update, the delivery of the queued message, the other settings
(which are written the same way).

### Subscriptions

State: `rows`, `current`, `trial_available` the database; `panel` the user on the
panel, `created` the panel users so far, `hooks` the webhooks under way; `task`
the operations and the webhook's handler, each with the row it read (`base`),
the row it wants (`dto`) and the panel user it was answered or told (`snap`);
`locks` whose transaction has updated its row; `overruled`, `blurred` history.
A subscription is its end and one limit, which stands for traffic, devices,
squads and tag: they are edited, sent and copied in the same way.

- `StartOperation` reads the current row and checks what the command checks
  (`Applies`, `Intended`): an edit, an extension, a toggle, a deletion, a plan
  set by an administrator, a renewal, a trial, the pause of a trial when its user
  leaves the channel and its return, and both synchronisations.
- `UpdateRow` (only the edits update before they call the panel, and hold the
  row's lock meanwhile), `CallPanel` or `PanelRefuses`, `CommitOperation` or
  `CommitFails`.
- `HandleHook` takes any webhook under way; `SyncRead` and `SyncApply` are
  `SyncRemnaUser`, for webhooks and synchronisations; `ProcessDelete` is the
  webhook of a deletion; `HookFails` the 503.
- `EditPanel`, `PanelExpires` and `Tick` are the panel and time.

`Written` is `TrackableMixin` with `update`: only fields that differ from what
was read are written. About the panel, which is not in the repository, the model
assumes that it reports every change with the user as it was then, refuses an
end in the past, and has one user of a name. Left out: the bulk
synchronisations, resets of devices, links and traffic, traffic used up, panel
users the bot has no user for, a change of plan (the same as a plan that is set), an
administrator who makes the trial available again (`ToggleUserTrialAvailable`),
webhooks that only notify.

### Referrals

State: `user` (the row with its referrer, points and days), `settings` of the
program, `order` the purchases, each with the record of its reward task,
`reward` the rows by order and level, `change` what administrators who change
points have read.

- `CreateUser`, then `AttachReferral` in a transaction of its own (or
  `RegistrationFails` between the two).
- `OpenOrder` fixes the purchase type of the moment; `CompletePurchase` delivers.
- The task of an order: `AssignRewards` reads the settings and the chain of
  referrers; for each level `CreateReward`, then `ReadPoints` and `WritePoints`,
  or `GrantDays`, then `MarkIssued`. `LevelFails` is an error at one level,
  `WorkerDies` the end of all tasks.
- `ReadForChange` and `WriteChange` are `ChangeUserPoints`; `ChangeSettings` the
  six commands of the settings. `UpdateReferralRewardStrategy` keeps a value over
  100 when it switches to percent, as the code does.

`Ledger == INSTANCE RewardLedger` takes the referrers, points and days out of the user
rows and the buyers out of the orders: of the steps of a task, `CreateReward` earns,
`WritePoints` and `GrantDays` grant, `MarkIssued` issues, and the others change nothing
the ledger sees. Settings, chains, failures and what is read meanwhile are not in it.

Left out: the days are granted in one step (`Subscriptions` has the steps of an
extension), notifications, and the code a user has, which never changes here.
`AttachReferral` records every referral with level FIRST, so that the statistics
of level two are always 0: no property is about them.

### Accounts

State: `row` the users (role and `is_blocked`), `owner_id` the configuration,
`blacklist` the ids of the settings, `task` the requests, each with its actor, the
role the actor was loaded with, and what it has read.

- `CheckAccess` admits who is not blocked; `LoadUser` loads the actor or goes on
  to `ReadBlacklist` and `InsertUser`; `ReadOwners` and `TransferOwnerRole` follow
  when the configured owner has another role. `ChatMemberUpdate` comes to the
  transfer without the access check, `WebLogin` registers without it.
- `ReadForRole` / `SetUserRole`, `ReadForRevoke` / `RevokeRole`, `ReadForToggle` /
  `ToggleUserBlockedStatus`: a check of what was read, and the write; `UnblockAllUsers`,
  `ClearBlockedIds`.
- `ReadForBlock`, `BlockRegistered`, `AddToBlacklist`: an administrator's command
  or the sync of a source; the list of ids is read and written whole.
- `SyncRemnaUser` imports a user of the panel, `LinkTelegram` gives the row of somebody
  registered by e-mail a Telegram id: two ways in that do not read the blacklist.
  `missed` notes whom it should have kept out.
- `Restart` loses all requests and may change the configured owner.

Left out: names, languages, discounts. A row without a Telegram id is in the model once
it is linked; what was done to it before might as well be done after, except that it may
be blocked. Nothing in the code deletes a user.

### WebAccounts

State: `row` (password, address, whether it is verified, pending address, code),
`keys` and `listed` the two places a refresh token has in Redis, `task` the
requests with the user as loaded. Login and refresh create a key and then list
it; logout and the change of a password unlist and delete, the latter reading
the set, deleting the keys and then the set. A change of address sends a code;
verification compares it with the row that was loaded. `Fault` ends any request
between two steps. Left out: expiry of tokens and codes and the limits on
requests (they only refuse), linking a Telegram account (it is in
`Accounts`).

### Dialogs

A context is a place (states group and state) and the set of keys of its
start_data and dialog_data; the machine has the one on top of the stack, and the
stack's depth. `Widgets` defines an outcome of a handler: the keys that must be
there or absent for a branch, those it reads without a default, writes and pops,
where it goes (stay, switch, push, reset), and the permission that shows the
button and the one the use case asks for; `Needing` says what a getter looks up and
raises without: the target's current subscription, the panel (or the panel's user),
a plan, a promo code, a broadcast. Rows of users, payments and gateways are never
deleted. What else a branch asks of the database is
left open, so every outcome may happen. The tables list every window with the
source's names: `getter`, `buttons`, and `back`, the buttons labelled back, cancel or menu.

`Press`, `Back` and `Entered` are an update: handler, then the getter of the window
that is shown; the context is saved only if both succeed. `Vanish` is another
administrator, the user, the weekly cleanup or the panel removing what this dialog
looks up (`gone`), and `Return` its coming back. A getter that misses something, or a
key, ends in `Crash`, the error middleware, which sends an ordinary user to the main
menu (`to_main_menu`, later) and a privileged one nowhere; a getter without its
permission in `Refused`, which only notifies. After either, a window reached by switch or
push leaves the old context, but a reset has already removed it: the depth is then 0
and every button is `Dead` (UnknownIntent). `Fail` is any other error, at any moment,
also while the user is leaving. `on_role_select` is another administrator changing the role or blocking
the user; `shown` is the role the buttons on the screen were rendered for. The
values behind the keys, texts, layout, and contexts below the top of the stack
(neither `done` nor `Cancel` is used, so nothing returns to them) are not
part of it.

## 3. Properties

Payments:
`BuysOnce` no purchase is
committed twice for one payment; `DeliveredIsConfirmed` what has been delivered
is COMPLETED or REFUNDED; `NoSilentLoss` a confirmed payment without purchase has
a run or met a fault; `PeriodsAddUp` the rows hold what was paid;
`CurrentIsOnlyLive` one live row and it is the current one; `PanelAgrees` panel
and database agree when nobody is between the two; `LedgerSpec` the refinement;
`PaidIsSettled` (liveness) a paid invoice ends delivered, FAILED or cancelled.

Promocodes:
`WithinTerms` the limit (`LimitHolds`) and the one activation per user (`OncePerUser`)
hold whatever requests and edits overlap; `PanelAgrees`
panel and database agree between requests; `ExtensionsAddUp` the row counts every
extension recorded; `RedeemedAtOnce` the refinement; `RequestsEnd` (liveness).
`AddsUnderLock` (activations are added by the lock's holder) is
proved.

Broadcast:
`PromiseKept` the refinement; `StatsMatchRows` the counters are the rows';
`StillDeletable` what sits in a chat has a SENT row; `BroadcastEnds` (liveness).
`OneMessageEach` and `CancelHolds`, which say in Broadcast's own terms what the
refinement says of messages and cancel requests, are proved.

Access:
`StaleOnlyByOverlap` (a copy is older than the row only
after an overlapping read or a failed invalidation), `OwnFieldOnly` (concurrent
administrators never write each other's fields back), `WaitersKept`,
`RestoredAreTold` (liveness).

Subscriptions:
`AgreeAtRest` with no operation and no webhook under way the current row and the
panel user are equal, or neither exists, also after commits that failed when the
panel had been changed; `OnlyCurrentIsLive` the current row and no other is not
DELETED; `TrialOnce` the trial is given once.

Referrals:
`IssuedWasGranted` a reward is marked issued after it was granted, once; one that
is granted and not marked met an error; `RewardsGoUp` rewards go to who invited
the buyer and to who invited that one, never round a circle; `PointsAddUp` no
points are lost; `FirstPaymentOnce` a reward for the first payment is given once
per buyer and level; `LevelsIndependent` a failure at one level does not cost the
other; `RewardedOnce` the refinement.

Accounts:
`SingleOwner` two users never have the owner's role; `BlockedStay` who was blocked
stays so, also when registering later, but for whom overlaps and the two ways in that
do not read the list have missed; `OwnerIsBack` (liveness) the configured
owner gets the role back from whatever administrators did; `CheckedIsReplaced` the role a
command replaces is the one it checked (violated).

WebAccounts:
`VerifiedByCode` an address is verified only by the code sent to it;
`OldSessionsEnd` after a change of password the older sessions are over;
`KeysAreListed` a token that works is one a revocation would find.

Dialogs:
`NothingMissing` no path reads a key that no window stored; `OnlyWhoMaySees` no
path leads into a section the role does not show; `ListsHoldNoDraft` the lists
start without the draft of an item edited before; `BackLeadsHome` (liveness) the
buttons that lead back reach the main menu, also after errors and when what a window
looks up is gone, unless the user is `Stuck` again and again: every way back leads to a
window whose getter refuses the user (PREVIEW: a search for a payment opens it in the
editor of users, and the way back asks for a permission PREVIEW does not have) or, for a
privileged user, raises, or the context of a privileged user was lost. The latter are
losses of the code, which skips the redirect for privileged users: from TRAFFIC_LIMIT,
say, an administrator cannot go back once the subscription is deleted, and /start is the
way out. A user of role USER is never set aside.

Several properties set aside a case in which they are false of the code, by a
history variable. In Payments `stale` is a purchase committed on a read another
purchase had made old; in Promocodes `mixed` are users of whose rewards two
overlapped, `excess` those of whom a request failed after the panel had rewarded
them; in Broadcast `blurred` and `unsure` are rows a deletion or a fault hid; in
Access, Referrals, Accounts and WebAccounts `overlap`, `late` and `missed` are reads
another write has overtaken; `missed` of Accounts also has the ids on the blacklist whose
row an import from the panel or the linking of an account made, which do not read it. In Subscriptions the kinds of `blurred` are

- `stale`: a commit when another row had become the current one,
- `swapped`: a commit over a current row that had been given another panel user
  since it was read,
- `behind`: a commit when the panel user was no longer as the task's call left it,
- `vanished`: a panel user was deleted while an operation worked,
- `late`: a webhook was overtaken,
- `shared`: a panel user several rows refer to was deleted on the panel,
- `orphan`: a panel user was created and the commit failed,
- `lost`: a webhook's handler failed.

They are the hazards of the code that remain, stated exactly: nothing else the
modules model breaks the property.

## 4. Runs

| Run | Instance | What it shows |
|---|---|---|
| `payments_concurrent` | two orders of one trial buyer, two runs, one repeated notification | the safety properties and the refinement under every interleaving |
| `payments_settle` | an order to pay and a free one, one fault, one repetition, one discount | faults, and that paid invoices are settled |
| `promocodes_limit` | one code with one of seven sets of rules (one lets a subscriber extend twice), a subscriber and a newcomer, two tasks, three requests, one edit, one fault | limit, reuse, rewards and audiences, panel refusals, bookkeeping, the refinement, end of requests |
| `broadcast_all` | three recipients in batches of two, one deletion, one cancel request, two faults | the refinement, counters and rows, that the broadcast ends |
| `broadcast_resumes` | three recipients one by one | finding: a canceled broadcast goes on |
| `access_all` | two administrators, one user, three events (operations or faults), fairness | all properties of access |
| `subscriptions_all` | two operators, two operations, one event (a change on the panel, a failure, a webhook that overtakes another), one period | all properties of subscriptions |
| `referrals_all` | three users, two paid orders, one administrator, two events (settings, points, a deletion, an error, a death) | all properties of referrals and the refinement |
| `accounts_all` | two users, two requests at once, three events, fairness | the owner's role and blocking |
| `accounts_window` | three users, two requests | finding: a role is replaced that was not checked |
| `web_all` | two users, three addresses, two requests at once, three in all, one fault | all properties of the web accounts |
| `dialogs_all` | a user who may be USER, PREVIEW, ADMIN and OWNER in turn, three contexts on the stack, fairness | all properties of the dialogs |

Bounds. `MaxFaults`, `MaxResends`, `MaxGrants`, `MaxRequests`, `MaxEdits`,
`MaxCancels`, `MaxOps`, `MaxEvents`, `MaxTime` cap the events that could go on
for ever (in Access `MaxEvents` counts operations and faults together); each is only a
guard of the event it counts. Two of everything that competes are enough for the
races: the conditional UPDATE, the row lock and the cache each involve two
parties, and a third would meet one of the two. Two batches, one of them with
two messages, give a cancel request a batch to stop before and a batch to miss.
Three operations let one administrator read before the second commits and after
the third. In `subscriptions_all` two operations and an event give a failure or a
change by the panel between any two steps; operators are interchangeable, so
they are a symmetry set (no liveness is checked there). Three users are a chain of
two levels of referrers, and two orders the competition for one referrer's
points; a free order starts no reward task, so the run leaves free orders to the
proofs. Two requests at once are what each of the races of Accounts and WebAccounts
takes; the third request of `web_all` finds what the two left behind.
DEV has the permissions of OWNER, so the dialogs have four roles; a
stack of three is the menu, the dashboard's section and one more, and the limit
itself is reached. One thing at a time is gone from under a dialog, and roles change
while nothing is (`Quiet`): which thing is missing decides whether a getter raises, and
two missing raise as one. The proved invariants (section 6) need none of these bounds. `CHECK_DEADLOCK
FALSE`: when the bounded events are used up the system may rest.

The findings:

- `broadcast_resumes` (`CancelStopsSending`): a canceled broadcast may be deleted
  while a batch is in flight; the task then finds DELETED, not CANCELED, and
  sends to everyone who is left.
- `accounts_window` (`CheckedIsReplaced`): `SetUserRole` reads and writes in one
  transaction "to close the TOCTOU window between the role check and the update",
  but at READ COMMITTED and without a row lock: of two administrators the later
  replaces a role it never compared with its own.

Four more configurations are not among the runs, and are checked by hand when the
code they are about changes. Each ends in a counterexample of its property:

- `PaymentsDiscount.cfg` (`DiscountUsedOnce`): the discount on the next purchase is
  in the price of every order opened before it is cleared.
- `BroadcastLeftovers.cfg` (`DeletedMeansRemoved`): a message Telegram refuses to
  delete does not keep the broadcast from being DELETED.
- `AccessDropped.cfg` (`NobodyDropped`): who joins the waiting list between reading
  and clearing it is dropped without a message.
- `SubscriptionsPaused.cfg` (`RestoresOnlyOwn`): a return to the channel enables
  a trial an administrator disabled.

The properties also show, by what they set aside, that two changes of a user's
points at once lose one (`overlap` of Referrals), that a deletion of the
subscription earns the referrer a second "first payment" (`again`), that the
blacklist loses ids when two writers overlap, and does not hold for users imported from
the panel or linked to an account of the web cabinet (`missed` of Accounts), that a
blocked configured owner is locked out of messages, and that a session begun
while a password is changed outlives the revocation (`missed`).

## 5. Fairness

- Payments: weak fairness of each webhook (gateways repeat until a 200), strong
  fairness of receiving each queued task (the stream is read in order, but a
  slot for it is not free all the time), weak fairness of every run's next step
  (the event loop resumes what is ready; HTTP and database calls have
  timeouts). Nothing makes buyers pay or clocks run.
- Promocodes: strong fairness of each request's next step: PostgreSQL grants a
  row lock to waiters in turn, though it is taken again and again.
- Broadcast: weak fairness of the sending task and of each deletion task.
- Access: weak fairness of each administrator's operation once started.
- Accounts: weak fairness of each request once started, and strong fairness of the
  configured owner's updates: `OwnerIsBack` is about an owner who goes on using the bot.
- Dialogs: weak fairness of a redirect that was sent, and of `Back` while the user
  wants to leave, which is the user's decision (`Leave`). A press that changes nothing
  is no step, so a user whose one button fails tries another when there is one.

No failure, death or user action is fair anywhere.

## 6. Proofs

Each proof module states an inductive invariant `IInv`: the type invariant, the
properties to prove, and what the steps in progress rely on. One lemma shows that
`Init` implies it, one per group of actions that a step keeps it, and a theorem
`Invariance == Spec => []IInv` follows; each property is a consequence. Where a
property needs much more than the others, a further invariant is proved inductive given
the first (`Books`, `Sums`, `Promised`, `News`, `Faithful`). A refinement is proved by showing that
`Init` implies the abstract initial states and that every step, under these
invariants, is a step of the abstract specification or leaves what it sees unchanged.

- `PaymentsProofs`: `InFlight` (a run past the conditional UPDATE has a payment that is
  confirmed, undelivered and no test) and `Exclusive` (it is alone with it) are
  why the UPDATE is enough: a status that lets a run confirm is one no run in a
  purchase leaves. `Books`, on top of it, says what a run between its read and its commit
  may count on: the row it read is still as read, or another purchase committed and is
  noted in `stale`; what the rows hold is what was credited. Proved: TypeOK, OneDelivery,
  DeliveredIsConfirmed, NoSilentLoss, BuysOnce, PeriodsAddUp, CurrentIsOnlyLive,
  PanelAgrees, and that Payments implements PaymentLedger.
- `PromocodesProofs`: the invariant relates what a request past its second check
  knows to the activations: while it holds the lock, nobody adds. `Sums` adds that what it
  read of the subscription is still there, or requests overlapped, so that each commit of an
  extension adds one to the row and one to the activations. `Promised` adds that its reward
  is one the code was offered with, that who is to be extended has a subscription, and that a discount is
  the trace of a recorded activation: with these a commit is a redemption of
  PromocodeLedger, and every other step changes nothing the ledger sees, or is an administrator's
  or a purchase's. Proved: TypeOK, WithinTerms, AddsUnderLock, PanelAgrees,
  ExtensionsAddUp, and that Promocodes implements PromocodeLedger.
- `BroadcastProofs`: the invariant partitions the recipients into those whose
  batch is recorded, in flight and still to come. `SentOnce` says that who has not
  been answered has no message, `Answered` that a result of the batch that says SENT is true,
  and `Known` that a row, or a deletion's copy of it, is: with these an answer is a delivery of
  BroadcastPromise or passes over its recipient, and a deletion takes back what was delivered. Proved: TypeOK, OneMessageEach,
  StatsMatchRows, StillDeletable, CancelHolds, and that Broadcast implements
  BroadcastPromise.
- `AccessProofs`: what a reader holds was committed, and equals the row unless a
  commit overlapped; who is owed a message is on the list or being added to it
  or among the members read. Proved: TypeOK, CacheWasCommitted,
  StaleOnlyByOverlap, WaitersKept, OwnFieldOnly.

- `SubscriptionsProofs`: `Aims` says what a task may write by itself (the status it
  read, one that is not DELETED, or DELETED if it deletes), `ReadLive` that the
  row it read was live. `TrialGuarded` is the argument for the trial: nothing
  checks it again at the commit, and two requests may both be admitted; who has
  created the panel user is alone, since the panel has one user of a name, and
  whoever waits finds that user there once a trial has been given. Only a
  deletion on the panel in between breaks it.
  `News` is the argument for `AgreeAtRest`, under every sequence of webhooks: `Known`,
  the panel user is the current row's, or is on its way there, in a webhook, with its
  handler, or with the operation that created it; `Carried`, so is what the panel user
  has become; `Linked`, the panel user of the current row is there, or a webhook of its
  deletion or of another user is on its way; `Told`, `Follows` and `Heard` say that the
  newest webhook tells of the panel user as it is, and that who is told of earlier is
  told of last, or of the deletion. When no webhook and no operation is left,
  only the row itself remains. What tasks are about to write (`Plans`) holds without
  exception, the rest while nothing is set aside. The proof showed that the property is
  false of a deletion that commits over a row that got another panel user after it was
  read, beyond the bounds of the run: hence `swapped`. Proved: TypeOK,
  OnlyCurrentIsLive, TrialOnce, AgreeAtRest.
- `AccountsProofs`: `Relies` is what a request relies on between its steps, whatever
  the others do: a transfer under way has read every owner but the configured
  user, a role to be set is below the owner's, whoever is being listed was
  unregistered when read or is noted in `missed`, and a registration has read the
  list with everyone who is held to be on it. `Considerate` is what
  a step of one request must not do to the others. Proved: TypeOK, SingleOwner,
  BlockedStay, across restarts with other owners.
- `ReferralsProofs`: the argument follows one task through its levels. `RewardsHold`
  says how far its rewards are: nothing at the levels ahead, nothing granted before the
  points are written, granted and about to be marked after. `ReadsHold` is what it has
  read of the chain, which stays true because who has a referrer keeps that one, and
  `Earlier` why the chain cannot come round: whoever invites was registered first.
  `Balanced` says that points read and not yet written are still those of the row,
  or two were between reading and writing, which `overlap` notes. `Faithful` says that
  what a task is about to grant is the row it made, unchanged since, with its user,
  type and amount; with it a write of points or a grant of days is the one step of
  RewardLedger that grants this reward, whatever came since it was made. Proved: TypeOK, the five
  invariants of the run, and that Referrals implements RewardLedger.
- `WebAccountsProofs`: `Sessions` says that a token, or a session about to get one, that a
  change of password left behind is in the way of a revocation, from the moment the new
  password is in the row until the tokens are deleted, unless `missed` notes that the
  revocation could not see it. `Mail` says that a code belongs to one request and was sent to the
  address the row has pending, and that what a request is about to write is still about
  the address of the row, or two requests of the user overlapped, which `overlap` notes. Proved:
  TypeOK, OldSessionsEnd, KeysAreListed, VerifiedByCode.

Assumptions are those on the constants (`PaymentsAssumption`,
`PromocodesAssumption`, `BroadcastAssumption`, `AccessAssumption`,
`SubscriptionsAssumption`, `AccountsAssumption`, `ReferralsAssumption`,
`WebAssumption`), which TLC evaluates on every run.

Every invariant and action property of the passing runs is proved, those of Dialogs
aside. Only model-checked: the liveness properties (fairness and ENABLED are beyond the
prover) `PaidIsSettled`, `RequestsEnd`, `BroadcastEnds`, `RestoredAreTold`,
`OwnerIsBack` and `BackLeadsHome`; and `NothingMissing`, `OnlyWhoMaySees` and
`ListsHoldNoDraft` of Dialogs, which have no constant to generalise over but the depth of the
stack: they are about tables of 157 windows, and TLC visits every context the tables
can reach.

## 7. Not modelled, and the plan

What remains, most important first:

1. An abstract specification of the subscription and its panel user, and that
   `Subscriptions` implements it.
2. The bulk synchronisations of all users, and the steps of granting days to a
   referrer as an operation of `Subscriptions`.
3. Positions of plans and gateways under concurrent moves.
4. The notification queue at shutdown and the bounded task stream.
5. Prices: discounts and rounding as functions against a definition.

Left out for good: gateway adapters and panel HTTP (input and output; only their
verdicts matter and are modelled), backups, the import from other bots (a
sequential one-off), downloads of blacklists, queries for statistics,
translations, start-up. Of the menu, advertising links, plans and gateways the
windows are in `Dialogs`; their commands write single rows. `PROJECT.json` lists
every component with its files and the hazards with their lines, those no
property covers yet with the reason.
