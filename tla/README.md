# Verification of the payment and story-request backend

TLA+ models, TLC runs and TLAPS proofs for the Django project in `src/`: users
order stories for their children, pay through a gateway, an app store or a coin
wallet, and staff take the paid and free requests through production.

## 1. The system

| Part | State | Operations | Talks to |
|---|---|---|---|
| `billing` payments | `Payment`, `IdempotencyKey`, `ProviderTransaction` (a log) | `create_payment`, `apply_success`, `apply_fail`, `mark_consumed`, gateway callback, Bazaar verification, admin marks | providers (HTTP), requests (`mark_paid`, attached payment), wallets |
| `billing` wallets | `Wallet`, `WalletTransaction`, `ProviderCoinRate` | `_credit_wallet_from_payment`, `pay_with_wallet` | payments, requests |
| `billing` refunds | `Refund` | `refund_full`, `refund_partial` | providers, `consumed_at` of the payment |
| `story_requests` | `StoryRequest`, `RequestTransition` | create + `enqueue_request`, `transition`, `mark_paid`, positions, update/delete (inherited), admin actions, editor workspace | payments (`mark_consumed`), signal `story_ready` |
| `stories` | `Story`, `Scene` | draft from a request, upsert/reorder scenes, publish, hide | requests, signals |
| `accounts` | `User`, `PhoneVerification`, `Child` | send code, verify code, get-or-create user | SMS service |
| `config` | settings | - | - |

Everything runs in web processes over one PostgreSQL database at READ COMMITTED;
there is no other shared state and no background worker that touches these
tables. The hard behaviour is therefore where transactions of different
processes interleave, where an outside party repeats or reorders its calls, and
where a handler fails half way:

* a gateway may call back any number of times, with any outcome, at any time;
* handlers read rows without a lock and use them after a lock or another read
  (`create_payment`, the admin actions, `mark_paid`, PUT/PATCH);
* locks are taken in different orders (request then payment when work starts,
  payment then request in a callback), so deadlocks happen and one of them is
  swallowed by an `except Exception`;
* unique constraints (success per intent, provider reference, idempotency key, one
  wallet per user, one story per request, one scene per page) are what makes some
  races end well;
* limits and positions are counted first and used later, and `save(update_fields)`
  writes columns of an object read long before.

`PROJECT.json` lists each of these hazards at its line, with the properties that
would catch it, or the reason why none does.

What makes each part correct:

* payments: a success settles whole or not at all; it never coexists with a
  request that was not queued in the same step; a key stands for one payment;
* wallets: the ledger adds up to the balance, which is never negative; a payment
  is booked once; coins move only for a request that was paid; a request is
  charged once; a user with enough coins can pay;
* requests: the status follows the table and the log tells how; the paid queue is
  entered only by a success; started work has consumed its payment; every request
  that is registered is enqueued, in the queue of its plan with its priority, and
  nobody registers more than the limits;
* stories: a published story is public and dated, a story taken off the shelf stays
  off once the handlers that had read it before are done, pages are unique, a story
  always has a scene and no scene outlives it, a replacement stores the list it was
  sent and a reordering every move of its list, or nothing;
* accounts: a new code ends the old ones, none is lost without a reason, the owner
  of the phone and nobody else logs in, and whoever typed the right code gets an
  account;
* refunds: what is recorded as refunded was moved and the other way round, the
  events tell the refunds, and no full refund follows a partial one;
* every handler ends.

## 2. Modules

| Module | What it is | Code |
|---|---|---|
| `Transactions` | rows, READ COMMITTED reads, row locks, commit, rollback, rings of waiting workers | PostgreSQL as the services use it (external) |
| `RequestStatus` | statuses, the transition table, what `transition` writes | `story_requests/services.py`, `models.py` |
| `CoinRates` | which rate applies and the coins it gives | `_resolve_coin_rate`, `coins_for_amount` |
| `Ledger` | a wallet with its entries, booking, the deposit check | `Wallet`, `WalletTransaction` |
| `Billing` | the component: handlers of several workers, statement by statement | `billing/services.py`, `api/views.py`, `admin.py`, `story_requests/services.py`, `views.py`, `admin.py` |
| `Checkout` | the abstract specification: every handler one indivisible action, no workers, locks, keys or attached payments | what billing promises |
| `BillingProperties` | types, invariants, action properties, liveness, the refinement to `Checkout` | |
| `MCBilling` | constants of the runs | |
| `BillingProofs`, `BookingProofs`, `CheckoutProofs` | theorems for every value of the constants: rows, ledger and log, and what holds serially; what the entries of a wallet stand for; the refinement of `Checkout` | |
| `RequestQueue` | creation with its limits, enqueueing, transitions, positions, deletion | `story_requests/serializers.py`, `views.py`, `services.py`, `admin.py` |
| `MCRequestQueue`, `RequestQueueProofs` | symmetry for the runs; theorems | |
| `Publishing` | the life of one story on the shelf | `stories/services.py`, `api/views.py`, `admin.py`, `models.py` |
| `PublishingProofs` | theorems | |
| `StoryPages` | the scenes of one story: drafting, bulk replacement, reordering, deletion with the request | `stories/services.py`, `api/views.py`, `api/serializers.py`, `models.py`, `story_requests/views.py` |
| `StoryPagesProofs` | theorems | |
| `MCStories` | one run of `StoryPages` or `Publishing` | |
| `PhoneNumbers` | phone normalisation on digits | `accounts/managers.py` |
| `Accounts` | one-time passwords and the accounts they open | `accounts/services.py`, `managers.py`, `models.py`, `api/views.py`, `api/serializers.py`, `admin.py`, `integrations/kavenegar.py` |
| `MCAccounts`, `AccountsProofs` | the phone numbers of the run; theorems | |
| `Refunds` | full and partial refunds through a provider | `billing/services.py`, `models.py`, `api/views.py`, `api/serializers.py` |
| `MCRefunds`, `RefundsProofs` | symmetry for the run; theorems | |

`Billing`, `RequestQueue`, `StoryPages` and `Accounts` are four components over one
`Transactions`; `Billing` and `RequestQueue` share `RequestStatus` and look at the
same row from two sides, the money and the queue. They are not composed into one
state space: the only thing payments do to the queue is the move to `QUEUED_PAID`,
which `RequestQueue` lets the environment do at any time the table allows (event
`"pay"`). `Refunds` reads one fact of a payment, whether it is consumed, which nothing
ever takes back, so `Consume` is its environment. `StoryPages` and `Publishing` look
at the same story from two sides, too: no handler of one reads what the other
writes, except that a story that is deleted can no longer be saved.

### State

`Transactions` keeps three images of the database: `db` (committed), `work`
(with the uncommitted writes of the row's owner) and `owner` (who holds the row
lock). A worker sees `Seen(w, x)`: its own uncommitted value, or the committed
one. A row that does not exist yet is a row too (status `absent`, `open = FALSE`,
key bound to `NoPayment`), so an insert of a unique value waits for a concurrent
one as it does in PostgreSQL.

`Billing` adds `pc` (the next statement of each worker's handler, or `idle`) and
`job` (the handler's local variables: intent, request, provider, amount, key,
payment, the provider's answer, the image an update read). A payment is status,
intent, provider, amount, reference and the consumed mark; a request is status,
attached payment and the log of `RequestTransition` rows; a wallet is balance and
entries, with the balance it was created with.

### Actions

An action is one or more consecutive statements of a handler. Statements are
joined only when no other worker can tell: the second one touches rows the first
already locked, or only rows nobody else reads. Every `transaction.atomic` ends
in `Return` (commit) or `Raise` (rollback), both of which release every lock.

| Handler | Actions |
|---|---|
| `create_payment` | `InitBegin` (success check, 88), `InitLockKey` (93-100), `InitRefused` / `InitInsert` (105-137), `InitBindKey` / `InitKeyTaken` (139-146), `InitAttach` (148), `InitProvider` (150-161) |
| gateway callback, Bazaar verification | `CallbackBegin`, `VerifyBegin` (choose the latest payment), `LockPayment`, `RefuseSku`, then as below |
| `apply_success` | `ApplySuccess` / `ApplyClash` (178-182), `MarkPaid` (mark_paid's own write), `PaidTransition` / `PaidTransitionRefused`, `Credit`, `CreditNothing`, `CreditNoWallet` + `CreateWallet` |
| `apply_fail`, `mark_failed` | `ApplyFail`, `AdminMarkFailed` |
| `mark_success`, `mark_consumed` (admin) | `AdminMarkSuccess` (no lock, a stale reference) and on as above, `AdminMarkConsumed` |
| `pay_with_wallet` | `WalletBegin`, `WalletRequest`, `WalletDebit`, `WalletPay` / `WalletPayRefused` |
| `enqueue_request`, admin transitions | `Enqueue`, `StaffMove`, `StaffStartWork` + `Consume` |
| PUT/PATCH of a request | `UpdateBegin`, `UpdateSave` |
| failures | `Crash` (a process, connection or provider fails between two statements), `DeadlockVictim` |

`Wanted`, `IndexWait` and `WaitsFor` say which row or unique value the next
statement of a worker waits for; a ring of such workers loses one of them, which
rolls its handler back, except inside `mark_consumed`, whose error `transition`
swallows.

`RequestQueue` keeps the request rows with user, plan, time, priority and stored
position, and a clock of ticks that tells only whether 24 hours have passed:

| Handler | Actions |
|---|---|
| `StoryRequestCreateSerializer` | `CreateBegin` (open limit), `CreateCheckFree` (daily limit), `CreateInsert` (its own commit), `Enqueue` / `EnqueueRefused` + `TransitionCommit` |
| `transition` by a payment or the admin | `Move` + `TransitionCommit` |
| `retrieve` | `RetrieveBegin` (row), `RetrieveCount`, `RetrieveSave` (update by key) |
| `destroy` (inherited) | `Delete` |
| failures, time | `Crash`, `Tick` |

`Publishing` keeps one committed story row and, per editor, the service it is in
and the object it read: `Read`, `Save` (the object is cleaned, the named columns
are written over the row as it is now), `MoveDraft`, `Archive` (bulk updates) and
`Dies` (the editor's process). No transactions are needed: each service writes once.

`StoryPages` keeps a page per scene row and the story row (none yet, made, deleted):

| Handler | Actions |
|---|---|
| `create_story_from_request` | `DraftBegin`, `Draft` / `DraftRefused` |
| `upsert_scenes` | `UpsertBegin` (snapshot of the locking SELECT), `SelectScenes` (its locks), per item `UpsertUpdate` / `UpsertInsert` / `UpsertRefused`, `UpsertDelete` (with the commit) / `UpsertCommitRefused` |
| `reorder_scenes` | `ReorderBegin`, `SelectScenes`, per item `Move` (the last one commits) / `MoveFails` |
| `destroy` of the request (inherited) | `DestroyBegin` (what the collector finds), `DestroyScenes`, `DestroyCommit` / `DestroyRefused` |
| failures | `Crash`, `DeadlockVictim` |

No handler locks the story, so a draft, a replacement and a deletion of the request
run side by side. What keeps scenes from outliving their story is the foreign key,
which Django declares `DEFERRABLE INITIALLY DEFERRED`: `StoryHolds` and `LeftBehind`
are its checks at the two commits.

`Accounts` keeps the rows of `PhoneVerification` (as `Transactions` rows), the
committed accounts, which codes have expired, and what the outside saw: the messages
that arrived and the logins. `create_verification_code` is a transaction;
`verify_login_code` is not (there is no `ATOMIC_REQUESTS`), and each of its
statements commits on its own:

| Handler | Actions |
|---|---|
| `RequestVerificationCodeView` | `RequestBegin` (snapshot of the UPDATE), `Supersede`, `InsertCode` / `InsertCodeRefused`, `CommitCode`, `Dispatch` / `DispatchLost` |
| `verify_login_code` | `VerifyBegin`, `SelectNone` / `SelectNewest`, `BurnExpired`, `Check`, `MarkUsed` |
| `get_or_create_by_phone` | `FindUser` / `FindNobody`, `NameTaken`\*, `NameFree`, `InsertUser` / `InsertUserRefused` |
| `UserAdmin` | `StaffAdd`, `StaffChange`, `StaffDelete` |
| time, failures | `Expire`, `Crash` |

A phone number is normalised by the serializer, the service, the manager and the
model, one after the other; the model normalises as often. The fields `before` of a
code, `spoiled` and `logins` are history, for the properties only.

`Refunds` keeps which payments are consumed, the committed refunds, the events of
each payment, and what the provider moved, which no rollback takes back. It takes no
lock, because the code takes none: `Read` (the payment as the view reads it),
`Refuse` / `Request` (the rules, the row, the first event), `Call` / `CallRaises`
(the provider, inside the transaction), `Settle` / `SettleRaises`, `Finish` (the
commit), `Crash` and `Consume`.

### Composition and refinement

`Checkout` has the variables `payment`, `request` and `wallet`, and the actions
`Open`, `Fail`, `Settle`, `Charge` and `Advance`. `BillingProperties` instantiates
it over what it shows of the *committed* rows (`PaymentsShown`, `RequestsShown`,
`WalletsShown`); `KeepsPromise` says that every commit of `Billing`
is one `Checkout` step or invisible. Events that break this on purpose (stale
updates) are left out of the runs that check it.

## 3. Runs

The runs of `Billing` instantiate it through `MCBilling`. `Events` chooses which
handlers and failures the environment provides: each run asks one question and
includes the handlers that bear on it. The bounds are `MaxPayments` (an insert
begins only when there is room for it and every insert under way) and `MaxLog`
(an update begins on a log of at most that length, otherwise stale saves let the
log grow for ever). `CHECK_DEADLOCK FALSE` because a system whose requests are
done and whose payments are used up may rightly stop; that nobody waits for ever
is `HandlersFinish`.

| Run | Instance | Checks | Shows |
|---|---|---|---|
| `aliases` | 2 workers, 2 requests of one user, 2 intents for the first, references `"a"` and `""`, wallet absent or with 1 or 2 coins, price 1 | `ChargedOnce`, `TypeOK`, `LedgerAddsUp`, `OneEntryPerPayment`, `EntriesArePaidFor`, `KeepsPromise`, `PaidQueueNeedsSuccess` | no lost update, no negative balance, one wallet, one entry per payment and none without a queued request; the per-intent success check is not what protects a request, its status under the lock is; every commit is a `Checkout` step |
| `keys` | 2 workers, 1 key, expected amount 2, amounts 1 and 2, a SKU, administrator's success | `AuditTrail`, `SuccessQueuesRequest`, `KeepsPromise` | retries and verifications against staff, marks and consumption |
| `serial` | 1 worker, 3 payments, every handler but the administrator's mark of consumption (in `keys`) | `WorkIsConsumed`, `KeyIsStable` | two facts that hold when handlers do not overlap |
| `handlers_finish` | 2 workers, fairness | `HandlersFinish`, `WalletPays` | every handler ends; with a lock the database accepts, a client with enough coins who retries does not wait |
| `wallet_postgres` | 1 worker, fairness | `WalletPays` (violated) | on PostgreSQL it does |
| `key_rebound` | 2 workers, 1 key | `KeyIsStable` (violated) | one key, two payments |
| `stale_update` | 2 workers, PUT | `AuditTrail` (violated) | a status with no trail |

Queues (`RequestQueue`; `MAX_OPEN_REQUESTS` and `MAX_FREE_REQUESTS_PER_DAY` as in
the code unless said otherwise; a request is created only while `MaxRequests`
leaves room):

| Run | Instance | Checks | Shows |
|---|---|---|---|
| `limits` | 1 worker, 4 requests, 3 instants, a day of one tick | `OpenLimit`, `DailyLimit`, `PlaceOnlyImproves` | when handlers do not overlap and nothing is deleted, the limits hold and nobody is overtaken in the free queue |
| `settles` | 2 workers, 2 requests, fairness, no crash | `TypeOK`, `QueueFits`, `RegisteredIsEnqueued`, `HintsSettle` | queue, plan and priority agree whatever interleaves, no request stays in SUBMITTED, stored positions end up right |

Stories:

| Run | Instance | Checks | Shows |
|---|---|---|---|
| `stories` | pages: 2 workers, 4 scenes, pages 1 and 2 (reordering: 2, 3 or none given), lists to 2, one known identifier (reordering: two); shelf: 3 editors | `ShelfTypeOK`, `PagesTypeOK`, `AlwaysAScene`, `NoOrphans`, `ReplacesFound`, `ReorderIsWhole`, `ShelfIsConsistent`, `StaleReadsRunOut` | pages are unique, a scene remains, none is orphaned, a replacement commits its list and nothing it found besides, a reordering all of its moves, among deadlocks and crashes; partial saves of stale objects never break the row, and what they undo ends with the publishing and unpublishing handlers under way |

A behaviour of `stories` is one of `StoryPages` or one of `Publishing`
(`MCStories`): the two share no variable, so running them side by side would only
multiply their states.

Accounts and refunds:

| Run | Instance | Checks | Shows |
|---|---|---|---|
| `accounts` | 2 workers, 2 codes, one number in two spellings and one too long for the column, at most one account added by staff, fairness | `TypeOK`, `SupersededIsUsed`, `BurnedForAReason`, `OwnerLogsIn`, `UsedCodeIsRefused`, `CodeGivesAccount` | codes end and are used up for a reason, whoever dies; the right code leads to the account of its phone |
| `refunds` | 2 workers, 2 payments (one paid by wallet, whose provider is not registered), price 2, 3 refunds | `TypeOK`, `RecordedIsMoved`, `MovedIsRecorded`, `FullNeverAfterPartial`, `LogTellsRefunds` | database and provider agree except where a handler broke off after the call |

Why the bounds are enough to see the hard cases: two workers are what every race
of this code needs (a lock ring has two members, a stale read one reader and one
writer); two payments give the latest-payment choice, both unique constraints
and a key to rebind; three rates exercise the ordering of rates, the amount above
every base and the inactive rate. Workers are interchangeable, so the safety runs
use symmetry; the runs with liveness do not. Two requests
are a queue with a first and a second place, four are one more than the daily
limit; lists of two items swap, drop and reuse pages; four scenes
let a replacement follow a draft with another one in between, or two replacements
insert at once; pages to three let a reordering step over a page. Two codes are one and the one that ends it, and one
account of staff is enough to take the phone or the name somebody is about to get;
three refunds are a partial one, a full one and one more that is lost. The proofs below lift the bounds for
what they cover.

Fairness. `Statement(w)` is strongly fair: PostgreSQL's lock queues are first come
first served, so a statement whose lock becomes free again and again gets it, and
a statement that waits for nothing simply runs. `DeadlockVictim` is weakly fair:
`deadlock_timeout` breaks a ring that lasts. Nothing makes callbacks, clients or
staff act, and crashes are never required. In `RequestQueue` and
`Accounts`, `FairSpec` is strong fairness of `Statement(w)` for the same reason. That a client
tries again is an assumption about the app and not about this code, so it is no
part of a specification but the premise of two properties: `WalletPays` (the
refused wallet payment is retried) and `HintsSettle` (the owner of every request
looks at it again and again; creations are used up and every request moves only
forward, so the queues do get quiet).

### Findings

1. `pay_with_wallet` cannot succeed on PostgreSQL (`wallet_postgres`):
   `select_for_update().select_related("product", "payment")` joins two nullable
   relations, and PostgreSQL refuses `FOR UPDATE` on the nullable side of an outer
   join. The tests run on SQLite, which ignores the lock.
2. An idempotency key can end up with a second payment (`key_rebound`): the lookup
   locks nothing when the key is not there, and `update_or_create` rebinds it.
3. PUT and PATCH of a request exist (`ModelViewSet`) although the docstring says
   create, list and retrieve, and overwrite a concurrent transition without a log
   row (`stale_update`).

Worth knowing, though no run of its own states it:

* with two workers `WorkIsConsumed` fails, either because `create_payment` attaches
  its payment after another one was paid and started, or because a deadlock inside
  `mark_consumed` is swallowed;
* the Bazaar product id is not compared when a newer payment was attached meanwhile;
* with two workers `OpenLimit` and `DailyLimit` fail (both count before either
  inserts), and with DELETE, which exists because the view is a `ModelViewSet`,
  `DailyLimit` fails with one worker: the deleted request no longer counts;
* with two workers a request enqueued late but created early overtakes;
* a story hidden between the read and the save of `publish_story` is published
  while hidden; the public views filter `is_hidden` too, so it shows only when it
  is unhidden;
* the last writer wins among editors: a publish that read the story before it was
  archived, moved to draft or unpublished puts it back on the shelf, an unpublish
  makes it READY again, and an unhide shows a story that was hidden once more
  meanwhile. `StaleReadsRunOut` says when this ends for a story in draft, archived
  or hidden; one that was only unpublished may be published again by anybody, and
  nothing keeps an unhide from a later hiding;
* two concurrent replacements of scenes both succeed and mix, because the scenes
  are locked and the story is not: `ReplacesFound` says what is left of the promise;
* a draft without scenes is always refused: the placeholder (`services.py:51`) has a
  blank text, which `full_clean` rejects (`DraftAccepted`);
* a replacement that swaps two pages, or puts a new scene on the page of one it
  leaves out, is refused, because left-out scenes are deleted last (`ItemRefused`);
  `reorder_scenes` can not swap two scenes either (`MoveRefused`), and no view calls it;
* deleting a request while a draft or a replacement is under way ends in an
  `IntegrityError` of one of the two, not in a message (`DestroyRefused`,
  `UpsertCommitRefused`);
* two verifications that overlap both log in with one code, and two requests for a
  code that overlap leave two codes that both work (`SupersededIsUsed` says what is
  left of the promise);
* a phone number of nineteen or twenty digits without its country code passes the
  serializer and fails in the column (`InsertCodeRefused`); digits of other scripts are
  kept by `str.isdigit`, so the same number typed in Persian digits is another account;
* the code is used up before the account is made: when a username or phone is
  taken in between, the client gets an error and needs a new code (`InsertUserRefused`);
* refunds of one payment are not summed, and its status is not looked at: two
  partial refunds may exceed the price, and a pending payment can be refunded in
  full; PROCESSING is never left; a provider that raises after it paid leaves nothing
  behind, and staff who try again refund twice (`CallRaises`).

A creation that dies between the insert and `enqueue_request` leaves a request in
SUBMITTED that counts against its owner's limit and that no handler moves on
(`settles` therefore has no crashes). A creation with an empty list of characters is
refused by `full_clean`, before anything is written.

## 4. Proofs

`BillingProofs` proves, for any number of workers, users, requests, payments,
keys and rates, from `ConstantsOk` alone:

* `Inductive`: `Spec => []IInv`;
* `TypeCorrect`: `Spec => []TypeOK`, so no balance is ever negative;
* `LedgerCorrect`: `Spec => []LedgerAddsUp`, no update of a balance is lost;
* `TrailCorrect`: without the update endpoint, `Spec => []AuditTrail`;
* for one worker, `WorkIsConsumedSerial`: `Spec => []WorkIsConsumed`, and
  `KeyIsStableSerial`: `Spec => KeyIsStable`, the two properties of the run `serial`,
  which fail as soon as two handlers overlap.

The invariant. `TypeOK` is not inductive: that a debit leaves a natural number
rests on the comparison made one statement earlier, under a lock that is still
held. `IInv` therefore says of a worker about to pay (`CoversPrice`) that it owns
the wallet row and that the row's *uncommitted* balance covers the price. It also
states every row property for `work` as well as `db`, since rollback copies one
way and commit the other, and of every handler that it has the arguments of its
next statement (`JobOk`).

The argument. A step of worker `w` satisfies `StepOk(w)`: good rows in both
images, the rows other workers own untouched (`OthersKeep`), a typed job that
fits the next statement. `StepKeepsIInv` turns that into the invariant; that other
workers' `CoversPrice` survives is exactly `OthersKeep`. The transaction lemmas
(`PutStep`, `LockStep`, `CommitStep`, `RollbackStep`) give the rows, the handler
lemmas (`ReturnStep`, `RaiseStep`, `NextStep`, `StartStep`) the job, and the value
lemmas say what is written: `MovedKeeps` for a transition, `BookedKeeps` for a
ledger entry, `CoinsPositive` for a rate. There is one lemma per handler, with a
step per action, gathered by `ArrivalOk`, `StatementOk` and `FailureOk`.

The two theorems for one worker have an invariant of their own on top (`Alone`). A
request may be in progress with a payment that is not consumed in the middle of a
handler: between the move and `Consume`, and where `mark_paid` attaches a payment that
`transition` then refuses. `HandlerAlone` names these two statements, and what the
handlers on the way to them know: an accepted request is still payable when its
payment is attached, a key is still unbound when it is bound, an update saves what
was and is true. `RowsAlone` says that requests point to payments that exist, that
a payment not inserted yet is not consumed, and that an open transaction takes no mark
and no key back. The only worker sees the uncommitted image (`SeenAlone`), a commit
makes it the database (`ReturnAlone`), and a ring has two members (`NoRing`), so no
consumption is swallowed.

`BookingProofs` builds on it and proves, for the same constants,

* `BookedOnceCorrect`: `Spec => []OneEntryPerPayment`;
* `EntriesPaidCorrect`: `Spec => []EntriesArePaidFor`;
* `ChargedOnceCorrect`: without the update endpoint, `Spec => []ChargedOnce`.

None of the three is inductive: that no entry is written twice rests on facts about
payments and requests that the wallet does not show. `BInv` (`BooksInductive`)
says that

* every value of a row, committed or not, makes sense (`RowGood`: a payment has an
  intent, a request in the paid queue has a log that says so, a wallet not yet open
  has no entries), and the uncommitted value follows the committed one (`RowFits`:
  identity, intent, provider and amount of a payment never change, and a request
  that has been queued as paid keeps that in its log);
* every entry stands for a payment that exists and whose request has been in the paid
  queue, and only one that pays by wallet takes coins or adds none (`BookOk`);
* a handler on its way to an entry knows its payment, and, once it has moved the
  request, owns the request's row, whose uncommitted log shows the move (`BookJob`).

A second entry for a payment, or a second debit for a request, then meets a committed
log that has been through the paid queue: from there no move of the table leads
back to a status that can be paid, which is what the handler found under its lock. A
stale update could lead back, so `ChargedOnceCorrect` assumes there is none.
`BooksGrow` says when one more entry keeps the books in order.

`CheckoutProofs` proves, without the update endpoint,

* `PromiseKept`: `Spec => KeepsPromise`, the refinement;
* `SuccessCorrect`: `Spec => SuccessQueuesRequest`, and `PaidQueueCorrect`:
  `Spec => PaidQueueNeedsSuccess`, which follow from it: of the actions of `Checkout`
  only `Settle` and `Charge` make a success, and only they enter the paid queue
  (`PaidOrNot`).

A commit publishes what several statements wrote, so the refinement needs to know
what an open transaction has done so far. `PInv` (`RowsInductive`) says that

* the uncommitted image follows the committed one (`Follows`: a success in sight of
  others is not taken back before its commit, a row nobody owns is committed, and an
  absent payment has no columns), and holds one success per intent (`SuccessIsUnique`:
  the tests `Clash` and `IndexWait` see every uncommitted success of another worker);
* a worker owns no row between two handlers, and an open transaction has changed what
  is shown of at most one payment and one request, each only in the statements after
  the write (`RowsTouched`): a request by one move of the table;
* the payment a handler inserts is not committed yet, and one that is being settled is
  locked and marked until the handler ends, with its request in the paid queue from
  the credit on (`HandlerKnows`).

The argument. `CommitShows` turns this into what a commit changes in sight of others:
the rows it writes, and the touched ones. Each committing action is then matched with
its step: `InitProvider` with `Open` (`InitProviderShows`), `ApplyFail` and
`AdminMarkFailed` with `Fail`, the end of `apply_success` with `Settle` (`SettleShows`,
from the credit, the missing rate and the new wallet alike), `WalletPay` with `Charge`,
moves and the start of work with `Advance`; every other step shows nothing
(`SilentShows`, `MarkConsumedShows`). A stale full save would be none of these, hence
the assumption.

`PublishingProofs` proves for any number of editors

* `ShelfTypes` and `ShelfCorrect`: `ShelfSpec => []ShelfTypeOK` and
  `ShelfSpec => []ShelfIsConsistent`, inductive together as they stand: every write
  of the row sets the columns the conjuncts relate together, whatever object they
  come from. Were one of them missing from `update_fields`, the
  proof and the run fail (see the mutant `SavedWithoutVisibility`);
* `StaleReadsCorrect`: `ShelfSpec => StaleReadsRunOut`, from the types alone, a step at
  a time: `Read` starts no publish or unpublish of a withdrawn story, and a save of
  hiding columns leaves the publication columns as they are (`SaveKeeps`), so only a
  handler that is under way can bring the story back. `SavedWhole` lets any save do it.

`RequestQueueProofs` proves from `QueueConstantsOk`, for any workers, users, limits
and number of requests

* `QueueTypes`: `Spec => []TypeOK`; that a position is a natural number rests on
  the cardinality of a subset of a finite interval (`PositionNat`);
* `QueueCorrect`: `Spec => []QueueFits`;
* `OpenOvershoot` and `DailyOvershoot`, for any finite set of workers: a user never
  has more than `MAX_OPEN_REQUESTS + n - 1` open requests and
  `MAX_FREE_REQUESTS_PER_DAY + n - 1` free ones of the last 24 hours, where `n` is
  the number of workers;
* for one worker, `OpenLimitSerial`, `DailyLimitSerial` (without deletions, which
  free a place of the day in the count and not in fact) and
  `PlaceOnlyImprovesSerial` (of the free queue: the paid one is entered in the order
  of payment and ordered by creation, so there one is overtaken): the three
  properties of the run `limits`, which fail as soon as two handlers overlap.

`QueueFits` is not inductive: `Enqueue` chooses the queue by the plan the *handler*
remembers and not by the row, and a rollback or a commit moves rows between the two
images. `IInv` adds that both images fit, that no open transaction changes the plan
of a row or unmakes it (`RowsOk`), and that a handler about to enqueue names a
request that exists with the plan the handler remembers (`JobOk`). `MoveFits` says
that a legal move of a fitting row fits; `WriteStep`, `CommitStep` and
`RollbackStep` carry `RowsOk` and that plans are kept (`PlansKept`), which is what
the `JobOk` of the *other* workers needs.

`AccountsProofs` proves from `AccountConstantsOk`, for any phones, workers and bounds

* `NormalizeTwice`: normalising a number twice is normalising it once, for digits of
  any script and any length. It is what lets the other proofs follow a number through
  the four layers (`PhoneKept`): without it, the code would be looked for under
  another number than it was stored under;
* `AccountTypes`, `SupersededCorrect`, `BurnedCorrect`, `OwnerCorrect`: the four
  invariants of the run;
* `UsedCodeCorrect`: `Spec => UsedCodeIsRefused`.

The invariant adds to the properties that both images of a code agree on everything
but `used`, and on that too unless a transaction that is superseding codes owns the
row; that such a transaction has inserted nothing yet, or has inserted a code whose
`before` holds every code it ended; that `before` of a handler is what its
snapshot saw; and what each handler about to mark or log in knows of its code. That a
rolled back request costs nobody a code is the part that a property of the committed
image alone does not see.

`RefundsProofs` proves from `RefundConstantsOk` `RefundTypes`, `RecordedCorrect`,
`MovedCorrect`, `FullCorrect` and `LogCorrect`. The invariant says of each open
handler what its answer, its row and its events have to do with each other and that
no two handlers, nor a handler and a committed row, share an identifier; that the
payment of a partial refund is consumed is what a later full one contradicts. The
counts of `LogTellsRefunds` rest on the cardinality of a set with one more element.

`StoryPagesProofs` proves from `BookConstantsOk`, for any workers, scenes, pages and
lengths of lists

* `PagesTypes`: `Spec => []PagesTypeOK`;
* `AlwaysASceneCorrect` and `NoOrphansCorrect`: the two invariants of the run;
* `ReplacesFoundCorrect`: `Spec => ReplacesFound`, and `ReorderCorrect`:
  `Spec => ReorderIsWhole`.

What a commit publishes was written in several steps, over rows that other handlers
look at, so the invariant has two halves. `RowsOk` is about the two images: a row
nobody owns is committed (`Settled`), one that somebody owns is one of a
scene that is or was (`Written`), and before the story is made there is nothing (`NothingYet`).
`PagesApart` says that pages are unique among the committed scenes and in the image
with the uncommitted writes, and, the part that makes it inductive, that an uncommitted page is never
the committed page of a row that another worker holds: that is what the wait on the
unique index (`PageWait`) buys, and without it two commits in a row could put two
scenes on a page. `StoreKeepsApart` and `DeletesKeepApart` carry it over a write and
over a commit, and `ChangeOk` says what a handler may write at all.

`HandlerOk` is about each open handler. A replacement (`Replacing`) owns every scene it
found and every one it stored, and no other; `Placed` tells what it has written
so far, item by item, when no identifier comes twice. A reordering (`Moving`) has
written exactly `Reordered` of the moves up to now. From the first, the commit deletes
what was found and not kept while at least one stored scene stays, which is
`AlwaysAScene` and `ReplacesFound`; from the second follows `ReorderIsWhole`.
`NoOrphans` rests on the deferred foreign key alone: a commit that leaves a story
behind, or a scene without one, is refused. A draft is any list of scenes `IsDraft`
accepts and `Reordered` names the last move given to a scene, so nothing here needs
induction over a list.

Model-checked only: liveness (`HandlersFinish`, `WalletPays`, `RegisteredIsEnqueued`,
`HintsSettle`, `CodeGivesAccount`), which is out of the prover's reach.

## 5. What is abstracted or left out

* Authentication, ownership and staff checks refuse before anything is written;
  callers are assumed to have passed them.
* There is one currency, and a description, note, error text, `meta_json` and the
  `ProviderTransaction` log are not kept; priority and position are `RequestQueue`'s.
* A provider that raises, a client that is cut off and a process that dies are one
  action, `Crash`: in each case the open transaction is rolled back. Locks on user
  rows (`select_related("user")`, foreign keys) only add rings whose victim is
  rolled back the same way.
* Payment identifiers stand for `created_at`, which the code orders by.
* Free-form change forms of the Django admin are not modelled; PUT/PATCH, which is in
  `Billing` only, shows the shape of a stale full save. The form of a story edits its
  status too and saves every column, so what `Publishing` shows is about the services
  and the bulk actions: staff may bring an archived story back by that form. DELETE of a request is in
  `RequestQueue`, and, with the story and the scenes it takes along, in `StoryPages`.
* `RequestQueue` numbers requests in the order of `created_at`; its clock tells days
  apart and nothing finer. A deleted row keeps its values for the properties to look
  at, no action reads them.
* The row locks of one SELECT, UPDATE or DELETE are taken at once.
  `create_story_from_request` reads `request_obj.story_id`, which does not exist: with
  a story there, that is an error and not the message written for it, and refuses
  all the same. Texts, URLs and slugs (whose uniqueness is tested before the insert)
  are left out.
* `"canceled"` payments: the choice exists, no code writes it.
* `Wallet` rows may exist from the start with any balance of `OpeningBalances`, as
  an administrator creates them.
* The editor workspace saves `meta_json`, free data that nothing tests, from a stale
  object and then runs an ordinary transition; what it may lose is listed as a hazard.
  The `story_ready` signal has no receiver in the repository.
* `Accounts` takes a wrong code for one that never matches (a guess of six digits is
  not modelled), and hashes, tokens and the generated password are left out. The
  password login only reads; `Child` rows, `create_superuser` and codes edited by hand
  are plain storage. `make_random_password` in `_create_user` is never reached from a
  login, which gives a password.
* `Refunds` takes every answer the code distinguishes although the providers in the
  repository say "unsupported". Refund rows edited by hand in the admin are left out.

## 6. State of the plan

Done: `Transactions`, `RequestStatus`, `CoinRates`, `Ledger`, `Billing`, `Checkout`;
`RequestQueue`; `Publishing`, `StoryPages` with reordering and deletion;
`PhoneNumbers`, `Accounts`; `Refunds`; their runs, and the theorems of section 4.

What a next version would add: an abstract queue (registered, queued, in work,
delivered, gone) that `RequestQueue` implements.
