# Selino, specified

Selino is the backend of a marketplace: a NestJS application over PostgreSQL, RabbitMQ and an
S3 object store. This directory holds TLA+ modules of its core, the TLC configurations that
check them, and the proofs TLAPS checks. Paths such as `src/src/...` are those of the
repository; `PROJECT.json` maps every definition to the lines it stands for.

## Inventory

| Component | State it keeps | Operations | What is hard | What makes it correct |
|---|---|---|---|---|
| purchase-requests | `purchase_requests`, `purchase_request_items`, `invoices`, `invoice_items`, the flag `isRunningExpiry` of each instance | addItem, removeItem, confirm, cancel, getActive, the expiry timer | reads before the transaction and decisions on them inside it, row locks in different orders, a worker beside the handlers, failures half way | stock is never oversold, reservations are what open carts hold, what is sold is invoiced, one invoice per request, stale carts are closed |
| inventories | `store_inventories` (stock, reserved_stock, price, max_order_qty), `store_inventory_transactions` | create, update, restock; the reserve, release and consume statements the carts use | guarded UPDATEs that race, a ledger kept by separate statements | reserved between 0 and stock, stock is what the ledger adds up to |
| auth: refresh tokens | `refresh_tokens` with their links `replaced_by` | create, rotate, revoke, revokeAllForUser | rotate reads, then writes by id in a transaction; reuse detection and logout race with it | a token has one successor, after a revocation of all no token is live |
| auth: login and users of a login | rows of `users` | sendPhoneOtp, verifyPhoneOtp, sendEmailOtp, verifyEmailOtp, handleGoogleLogin, refreshTokens, logout, logoutAll | the OTP is consumed before the user exists, first logins race | a code yields one login, a phone one user |
| auth: CASL abilities and guards | none | createForUser, user enrichment | rules that combine | a member acts on the stores he manages only |
| otp | `auth_otps`: code, expiry, consumed | sendOtp, sendEmailOtp, verifyOtp, verifyEmailOtp | older codes stay valid, verifications race between find and markConsumed | a code is accepted once, and not after its expiry |
| notification | `notifications`, `notification_deliveries`, one queue per channel | send, publish, handleSms, handleEmail | published before COMMIT, redelivery, a crash between sending and recording it | every delivery is answered, and sent means sent |
| notification channels and providers | none | send by SMS or mail | external calls | — |
| files | `files` (pending, ready, failed; deleted_at), objects in the store | createUploadIntent, confirmUpload, uploadFromBuffer, resolveUrl, softDelete | two stores without a common transaction | a ready file has its object |
| storage | objects | upload, exists, delete, presigned URLs | external | — |
| products | `products`, `product_images` with positions, the default image | create, update, softDelete, addImage, reorderImages | positions read outside the transaction, lists of ids | positions differ, the default image is one of the product's |
| stores | `stores`, `store_members`, the logo file | create, update, softDelete, addMember, removeMember | test and insert in two statements, an old logo deleted inside a transaction | a store keeps its owner |
| users | `users`, the profile picture | create, update, markPhoneVerified, markEmailVerified | an OTP is sent and a file replaced inside one transaction | the picture of a user exists, an address is verified only by its code |
| categories | `categories` with parent links and spec schemas | create, update, replaceSpecSchema, listHierarchy | the parent can change at any time | the hierarchy is a forest with every category in it |
| brands | `brands` | list, create, update | — | unique slug |
| common, schema, configuration, messaging, shell | — | transaction wrapper, slugs, error filter, wiring | — | — |

How they interact: purchase-requests calls InventoriesRepository inside its own transactions; the ledger
is written by InventoriesService and by confirm; users, stores and products call FilesService, auth
calls otp, users and refresh tokens, users calls auth for the code of a new address, otp calls
notification, which publishes to RabbitMQ and consumes from it. Everything else is shared through
PostgreSQL.

The hazards of the code, at their lines and with the properties that watch them, are listed in
`PROJECT.json` under `hazards`; those that no property watches say why.

## Plan

1. `StoreInventories`, `PurchaseRequests`, `StockAccount`: the cart workflow. **Done.**
2. `RefreshTokens`: rotation, reuse detection, logout, and their races. **Done.**
3. `Accounts`: one-time codes, first logins by phone and by Google, proven addresses. **Done.**
4. `Notifications`: codes on their way, publication before COMMIT, a queue that redelivers. **Done.**
5. `Files`: rows and objects without a common transaction, and the callers that replace pictures and
   logos inside theirs. **Done.**
6. `Categories`, `Products`: the tree, `validateSpecs`, image positions. **Done.**
7. Theorems about `Products` and the hierarchy, `AcceptedInOneRound` of `Accounts`, and about the cart
   workflow what adds up quantities: the refinement of `StockAccount`, and sales against invoices. **Done.**
8. Inventory creation and update, with negative initial stocks and changing limits, added to the
   stock modules; the default image of a product; the members of a store.

## Modules

| Module | What it models |
|---|---|
| `StoreInventories` | One row of `store_inventories` with the sums of its ledger, and the UPDATE statements of `InventoriesRepository` as a test and a new row each. |
| `PurchaseRequests` | The handlers of `PurchaseRequestsService`, the expiry pass and `InventoriesService.restock`, one action per SQL statement, against the tables, their row locks, crashes and the deadlock detector. Its last sections state the properties. |
| `StockAccount` | The abstract specification: a stock account and the items of requests. A process lists the items of a request and then releases or sells exactly these, all at a time, or gives up; putting an item in a cart and taking it out move its quantity once. |
| `MCPurchaseRequests` | The instances TLC checks. |
| `PurchaseRequestsProofs` | The inductive invariant of stock, ledger and drafts, and its proof. |
| `PurchaseRequestsLocks` | What the row locks of addItem and of the expiry pass secure, and that only overdue requests expire and none of them is sold. |
| `PurchaseRequestsSums` | What quantities add up to, under every interleaving: that each COMMIT is one booking of `StockAccount`, and that sales are what invoices list. |
| `RefreshTokens` | `RefreshTokenService` and what `AuthService` does with it: create, rotate, detect reuse, log out of one device or of all. |
| `MCRefreshTokens` | Its instances. |
| `RefreshTokensProofs` | Types, the links of rotations, what logins keep, and that spent tokens are refused. |
| `Accounts` | `AuthService` on `OtpService` and `UsersRepository`: codes, logins, accounts, and the change of an address in `UsersService.update`. |
| `MCAccounts` | Its instances. |
| `AccountsProofs` | Types, that what is verified was proven, that a login by phone ends with tokens for the account that has it, and which handlers accept a code. |
| `Notifications` | `OtpService` and `NotificationService` with a code for a phone or an address, the job in RabbitMQ, `NotificationConsumer` and the outcomes of the providers. |
| `MCNotifications`, `NotificationsProofs` | Its instance; what a delivery row says and how often a message arrives, for any number of calls. |
| `Files` | `FilesService` on its table and the object store, with the updates of users and stores that replace a picture. |
| `MCFiles`, `FilesProofs` | Its instance; ready files, their objects, and the pictures of owners, for any number of requests. |
| `Categories` | The category tree, and `listHierarchy` against a reference that follows the parents upward. |
| `Products` | `ProductsService` with the categories: specs against a schema that may be replaced, image positions, reorders that lock images one by one. |
| `MCProducts`, `ProductsProofs` | Its instances; types, positions and specs of products, and what becomes of the hierarchy, for any number of requests, products, images and categories. |

`StoreInventories`, `PurchaseRequests` and `StockAccount` are one composition; `RefreshTokens` and
`Accounts` touch at one point, where a login that has its account creates a token (`GenerateTokens` in
one, `Create` in the other), and share no table. `Products` extends `Categories`: one run has both change.
`Accounts` and `Notifications` look at the two halves of a code: `Accounts` at what it is good for once
it is stored, `Notifications` at how its row, its delivery row and its message keep step. `Files` has
`addImage` up to the row it inserts, `Products` the position of that row.

### State and code

`inv` is `store_inventories` as committed, `invDraft` the newest version of every row and
`invLock` the transaction it belongs to. `req`, `item` and `invoices` are the committed rows of
their tables, `reqLock` and `itemLock` the row locks on them, `lastReq` the sequence behind the
request ids. `proc` holds, for each session (a handler in progress) and each worker (the timer of
one application instance), which statement comes next (`at`) and the JavaScript variables the
rest of the handler uses: the request found, the items listed, the total computed, the expiry
chosen at the start. A handler's reads outside its transaction are steps of their own, so
everything can happen between them and the transaction. `crossed` and `hurried` are history: the
requests on which two handlers or passes have met, and the users of whom two calls of addItem have
overlapped. Nothing in the code prevents either; the properties that a race can spoil name them to say
how far its damage goes.

In `RefreshTokens`, `token` is the table; a token is the id of its row, and raw value and hash stand
for each other. `held` are the tokens a client was answered with, which are those it can present.
`from`, `login`, `ended` and `wasLive` are history: the token a rotation read, the first token of the
login it belongs to, the logins that were ended, and whether a handler read its token unrevoked. A
rotation whose token was revoked between its read and its write is counted as the beginning of another
login: the code gives that client a new token whatever became of its login, so what can be said of logins
(`OneLivePerLogin`, `EndedLoginsAreDead`) is said of chains of rotations that met no such race, and the
races themselves have properties of their own: `NoLateRefresh` says that only a refresh that had read its token
before can take part, and `OneSuccessor` and `LoggedOutEverywhere` show what it can then do. `Lifetime` is in
the unit of the clock.

In `Accounts`, `user` and `otp` are the tables; the address of a code is a phone or an e-mail address,
which the table keeps in two columns. `accepted` counts how often a code was returned as valid, and
`vouched` collects what Google signed in with, and `mistaken` the accounts whose address changed while a
code for the old one was being verified, so that the mark went to the new one; all three are history.
Codes are chosen freely, as random numbers may be equal. No operation deletes a user, so `deleted_at` is
left out, as `last_login_at` is.

In `Notifications` a call makes one job, so rows and job have the name of the call: `rows[c]` are those it
inserted and has not rolled back, `open[c]` says whether its transaction is still to end, and `Visible`
is what an UPDATE of the consumer meets. `job[c]` is where the job is, at the broker or in
`processJob`. `arrivals`, `redelivered` and `early` are history: how often a provider took the message, how
often the job was put back, and for which calls the consumer wrote the outcome last while their transaction
was open, so that its UPDATE met no row. Both queues have the same handler, and a consumer takes jobs in any order, so there is one set
of jobs. A provider may take a message and answer with an error, which is why a
failed delivery may have arrived.

In `Files`, `file` is the table and `object` the set of files whose object is in the store: the key of an
object is made for its row and given to no other. `picture` is the reference of a user or a store to its
picture, `attached` the files that products show. Any file may be deleted at any time, also the one that an
update has uploaded and not yet made the picture. `uploaded`, `undone`, `requested` and `rewritten` are history:
the files that were in the store at some time, those whose object was deleted and whose row was not, those a
client asked to delete, and the owners whose logo an update without a logo has changed back to the one it had
read. What a statement waits for, a connection of the pool or the lock of a row, only delays its step and is
left out, so `Files` says what requests leave behind, and not whether they end.

In `Products`, `lock` are the row locks on images that a reorder collects in the order of the client's
list. `stale` and `suspect` are history, and make the promises exact: `stale` is what a request has read and
others have changed since, `suspect` the products of whose positions nothing is promised, because an image
was put at a place of the client's choice, because a list named an image twice, or because an update or
reorder worked on positions that were stale. An undisturbed reorder ends that. `Categories` leaves out
names, slugs and `is_active`, which nothing reads.

### How statements interleave

PostgreSQL runs the application at READ COMMITTED. A read sees what is committed and what its own
transaction wrote. An UPDATE or DELETE whose WHERE clause fails on the committed row returns no
rows at once; otherwise it waits for the lock of the row, tests the newest version again and holds
the lock to the end of its transaction (`Visible`, `FreeFor`, `WriteInventory`). An UPDATE by id
without further test waits and overwrites. The foreign key of an invoice shares a lock of the
request that only FOR UPDATE conflicts with (`KeyShared`, `CreateInvoice`); that lock is what makes
an expiry pass skip a request that is being invoiced.

Two neighbouring statements are one action where no other process can tell the difference: the last
statement of a transaction with its COMMIT, and an INSERT nothing conflicts with with the statement
next to it (`SellItem`, `CreateItem`, `RestockInventory`). Writes to requests, items and invoices
are applied at COMMIT, because nobody else sees them earlier and the writer's own reads of them are
modelled (`Remaining`, `TotalWith`); the locks they need are taken by the statement that writes.

`CreateInvoice` may also fail when the request has an invoice: the number is made of the id and the
millisecond, and unique.

addItem reads a clock for its search for the active cart before the query is run, and one for the expiry after it:
the search may compare with any moment since the handler began (`clock`). verifyOtp reads its clock in the step
of its search for the code.
The transactions of rotate, of first logins and of `UsersService.update` are single steps: what they
insert is unseen before COMMIT, and their one UPDATE waits for no lock that another step of these modules
keeps. A revocation that runs into an uncommitted rotation waits for it, then finds the old row
revoked, and does not see the new one: the result is that of the revocation before the rotation.

### Data

Money is abstracted to sets of items: a total is the set of the items it adds up, so that two totals
are equal only when they count the same items. Prices are constants of the items. The ledger is two
sums per inventory, which is what append-only lines under the row lock amount to. Times are the
minutes of the active window; a tick is one of them.

### Failure

An exception in a handler rolls its transaction back and is an HTTP error (`Throw`). One in an
expiry pass rejects a promise that `setInterval` discards, and an unhandled rejection ends a Node
process: `Throw` of a worker takes the handlers of its instance with it, like `Crash`, which may
happen at any time to an instance that is doing something. Locks and drafts go, the tables stay,
and the restarted instance has a fresh flag `isRunningExpiry`. `DeadlockDetected` ends a transaction
that is on a cycle of transactions which wait for each other. In `RefreshTokens` and `Accounts`, `Fail` ends a
handler between any two statements: an exception, the death of the process, or an answer that is lost.

In `Notifications`, API and consumer are one process: `Crash` ends every call, rolls back its transaction and
puts every job without an acknowledgement back. A statement, the COMMIT or a publish may fail
(`CallThrows`), the update of a delivery row as well: then `markFailed` is tried, and when that fails too
the job is put back. In `Files`, `HeadObject` answers "no" to an error, a failed DELETE of an object is
logged only, a `softDelete` whose read of the old picture fails leaves it as it is and lets the update go on
(`KeepOld`), any other failure ends the request (`Throw`), and `Crash` ends all of them; what they had
halfway is recorded in `undone`. In `Products` a failure (`Throw`) gives up the request and its locks.

## Runs

| Run | Question | Answer |
|---|---|---|
| `concurrent` | Two sessions and the worker on one cart and two inventories, every interleaving: is stock ever oversold, the ledger ever wrong, a part of what a transaction listed ever committed without the rest? | No: `TypeOK`, `NoOversell`, `StockMatchesLedger`, and the refinement `ImplementsStockAccount`: a cancel, an expiry or a sale books exactly the items it listed, or nothing. |
| `shared_stock` | Two carts compete for one inventory while two sessions and the worker cancel, confirm, expire and fill them, every interleaving. | What is sold is invoiced (`SoldMatchesInvoices`), only overdue requests expire (`ExpiryOnlyStale`), and expired and invoiced exclude each other (`ExpiredHasNoInvoice`), even where a request is invoiced twice. The races on a request spoil no more than that request and the inventories of its items: all other reservations, totals, carts and invoices agree (`ReservedMatchesOpenItems`, `TotalsMatch`, `OpenRequestHasItems`, `InvoicedOnce`), and a user has one active cart in a store unless two of his calls of addItem have overlapped (`OneActiveRequest`). |
| `carts` | Two users, each of whom may add, remove, confirm and cancel in two sessions, while carts pass the time up to which they are active. | The limit of an inventory holds for every user of whom no two calls of addItem have overlapped, whatever else overlaps (`MaxOrderQtyRespected`). |
| `handlers_finish` | Do two handlers that lock in different orders finish? | Yes, with the deadlock detector. |
| `expiry_finish` | Does every expiry pass end beside a handler that touches its batch? | Yes. |
| `expiry_liveness` | Are stale carts closed in the end, when handlers do not overlap with passes? | Yes, unless instances keep dying for other reasons than the pass. |
| `invoiced_twice` | At most one invoice per request? | No: two confirmations that read the status before either writes. |
| `tokens` | Two users, two handlers, every interleaving of refreshes, replays, logouts, lost answers. | Rotated tokens are revoked and linked (`RotationLinks`), also when many rows are revoked at once; a login has one live token (`OneLivePerLogin`) and stays dead when it was ended (`EndedLoginsAreDead`); and no refresh that begins after a token was rotated or its login ended issues a successor (`NoLateRefresh`). |
| `accounts` | Two handlers, a phone, two addresses that pass between accounts, Google accounts, every interleaving. | A verified phone or address was proven (`PhoneWasProven`, `EmailWasProven`), tokens go to the account that has the phone (`TokensForProvenPhone`), and once a code is accepted no other verification comes to hold it (`AcceptedInOneRound`). |
| `notifications` | Two codes for a phone, an address or a profile, a consumer, two failures or crashes, every interleaving. | "Sent" means taken (`SentWasTaken`); a code that arrived is stored, unless its profile update was rolled back (`ArrivedCodeIsStored`); a delivery whose job is over is not pending, unless the consumer wrote the outcome before that update's COMMIT (`PendingOnlyBeforeCommit`); one arrival per delivery of the job (`ArrivesOncePerDelivery`); every job is done in the end (`JobsAreDone`). |
| `pictures` | Two requests on the files of a store, a failure or crash. | A ready or shown file was uploaded (`ShownWasUploaded`), and has its object unless a deletion was left halfway (`ReadyHasObject`); a picture is a deleted file only if a client asked for its deletion or a logo was written back, never by what replacements delete (`PictureIsLive`). |
| `products` | Two requests on products while categories are created, moved and given other schemas. | Positions differ (`PositionsDistinct`), specs go on to fit their category (`SpecsStayFit`), and a category leaves the hierarchy only for a cycle (`HierarchyLosesOnlyCycles`), each but for the cases its comment names. |

`invoiced_twice` checks what the error message of `confirm` promises; it is a finding in `PROJECT.json` with
that line. Some of what the code intends its guarded UPDATEs and row locks secure, under every interleaving; the rest it
tests before its transactions only, and two handlers that meet can break it. For the latter `shared_stock` and
`carts` check how far the damage goes: they let everything overlap, and exempt the request on which two handlers
have met (`crossed`), with the inventories of its items, or the user of whom two calls of addItem have overlapped
(`hurried`), and nothing else. An expiry pass over other carts, a restock, a crash half way, carts that compete for
the same stock cannot spoil the sums. That is also all they claim: what can happen to a crossed request, or to the limit of a hurried user, is what
`invoiced_twice` and the counterexamples below show.

The exceptions in the properties of the runs `notifications`, `pictures` and `products` are what the code
allows today: a profile update sends its code before it commits, an update of a store writes back the logo it read, `softDelete` removes
an object before its row and takes any file, positions and schemas are read outside the transaction that relies on them, and
nothing keeps a category from becoming its own ancestor. Each exception is stated as narrowly as it holds.

Further configurations show more of what the code only tests before its transactions. Each checks one
property and ends with a counterexample; most repeat the pattern of the runs above, a read that is stale
when it is acted on, and they are kept as documentation of each place (`tlc -config X.cfg M`):

| Configuration | Module | Property | The counterexample |
|---|---|---|---|
| `never_expires.cfg` | `MCPurchaseRequests` | `StaleRequestsExpire` | A cancel that races a pass releases the stock of a request twice; the pass throws each time it comes to the cart whose reservation that was, which never expires, while `src/README.md` says that the worker periodically expires stale open requests. |
| `rotated_twice.cfg` | `MCRefreshTokens` | `OneSuccessor` | Two refreshes read a token before either writes, and reuse is not detected. |
| `google_sign_up.cfg` | `MCAccounts` | `GoogleCanSignUp` | The second Google account gets the phone `''` of the first, and is refused. |
| `leaked_reservation.cfg` | `MCPurchaseRequests` | `ClosedRequestsHoldNothing` | addItem puts an item in a cart that is closed meanwhile; its stock stays reserved. |
| `over_max_order_qty.cfg` | `MCPurchaseRequests` | `MaxOrderQtyNeverExceeded` | Two calls of addItem pass the limit before either reserves. |
| `confirmation_undone.cfg` | `MCPurchaseRequests` | `ConfirmedStays` | A cancel that read `new` overwrites `confirmed`. |
| `logout_all_survived.cfg` | `MCRefreshTokens` | `LoggedOutEverywhere` | A rotation that read its token before a logout from all devices leaves a live one after it. |
| `code_accepted_twice.cfg` | `MCAccounts` | `AcceptedOnce` | Two verifications find a code before either consumes it. |
| `unproven_email.cfg` | `MCAccounts` | `MarksProvenEmail` | The account's address changes between the search for it and the mark on it. |

`images.cfg` (`MCProducts`) passes: it is `PositionsDistinct` for three images of one product in three
positions, with two pictures to an update, where `products` has two of each; it takes about five minutes.

### Bounds

`Window` is the number of minutes a cart lives after its last addItem, `MaxTime` the last minute. With
`Window = 1`, `MaxTime = 2` a cart can be fresh, exactly at its expiry and overdue (`concurrent`,
`shared_stock`, `expiry_finish`), and an addItem of a later minute extends a cart that a pass listed as overdue.
`expiry_liveness` has `Window = 2`, `MaxTime = 4`: a cart is touched when it is older, and then goes stale.
`carts` has one tick only: a cart becomes no longer active at its expiry, which is what addItem's search for it
depends on, and no pass closes it.

Two sessions and a worker (`MaxInFlight = 3`) are every pair of handlers with a pass between them; the
guarded UPDATEs and the races found all take two. Two items give a request a loop of more than one
round, hence partial failure, and two inventories give locks in opposite orders; with one inventory
(`shared_stock`) the same loop writes one row twice and two carts compete for it. In `carts` each of two
users has a cart of one inventory with a limit of 1 per user, so that the second unit of each is
refused unless the first has gone, and two handlers at a time are those of one user or of both. A stock of 1 or 2
with quantities of 1 puts every guard at its limit. `MaxRequests`, `MaxItems` and `MaxStock` stand
for the size of the tables: an insert beyond them fails, as an exception of the database does, which
also exercises the rollback at these statements.

The two sessions run the same handlers on the same instance, so `SessionSymmetry` is sound in the runs
without liveness, and so is that of the users of `carts`, whose constants are the same. `HandlersFinish` is
checked without ticks for two sessions (time matters to
none of the locks they wait for) and with ticks for a session beside the worker.

`tokens` has three tokens, two users and two handlers, hence a token rotated twice in a race, a chain of
rotations, or one rotated and one of another login of the same or another user, beside a revocation of
any of them, and one tick, so that a token is at its expiry or extended by a rotation. `accounts` has
two accounts, two codes for a phone and two addresses, and two handlers: two first logins race for the
phone or meet a change of address, and an address proven by one account is taken over by another.
`MaxUsers`, `MaxOtps` and `MaxTokens` bound the tables; an account beyond `MaxUsers` is refused, a code
or token beyond its bound is not asked for. `MaxTime` is such that a code can be found just before it expires and consumed after.
`Symmetry` permutes handlers, users, phones, addresses and codes, none of which is treated apart.

`notifications` has two calls, hence every pair of callers and two jobs that overtake each other, and two
failures: a job put back twice, or put back and then lost to a failed statement. `SmsProviders` holds
Kavenegar only, whose outcomes include those of the others; the mail server is configured or not.

`pictures` has one store, whose update does all that the update of a user does and writes its logo back
besides; two requests, which is what an update and a deletion, two updates or two confirmations of a file
take; three files, the picture at first and two new ones; and one failure. Users are no different from stores but
that nothing writes their picture back.

`products` has three categories for the tree (a chain of three, moved below itself at each level), and two
for the specs, whose schemas ask for nothing or for one of a list of words; two images in three positions,
one of them left for an insert beside a reorder. One thing varies at a time: the constraint
`OneConcern` of `MCProducts` keeps two of the tree, the specs and the images as they are, since the code
never reads one to write another.

Deadlock is checked in every run but `notifications`, `pictures` and `products`: no state is without a step,
since a handler can always be called, or an instance with something in progress always crash; likewise a
user can log out of all devices, and a handler that has started can fail. In `notifications` everything may
be over; in `pictures` every file may be deleted and in `products` every table full, with no failure left.

### Fairness

`HandlerFairness`: strong fairness of each handler and each worker step. Node's event loop runs a
callback that is ready, and PostgreSQL queues the waiters of a row lock, so a statement that can
proceed again and again does. Weak fairness of the deadlock detector, which runs after
`deadlock_timeout`. `TimerFairness`: `setInterval` starts a pass again and again on an instance that
runs. Nothing forces users to call, ticks to happen or instances to crash, and `StaleRequestsExpire`
sets aside the runs in which instances crash for ever for other reasons than the pass's own
exception.

`Fairness` of `Notifications` is weak fairness of the consumer for each job: the broker delivers, an awaited
call comes back, and the handler goes on. Callers owe nothing. The failures are finitely many
(`MaxFaults`), without which a job might be put back for ever.

## Proofs

What follows is proved for any number of sessions, instances, users, inventories, requests, items and
tokens, and any limits and quantities, from the assumptions the modules name: processes are distinct and
every session has an instance (`ProcsAssumption`), quantities are positive and initial stocks natural
numbers, and the limit of an inventory a number or none (`InventoriesAssumption`), and the bounds are
natural numbers (`BoundsAssumption`). For accounts, phones, e-mail addresses, the blank phone and `None`
differ (`AddressesAssumption`). For products, `None` is no category or schema, the rows of `categories`
are finitely many (`CategoriesAssumption`), and the positions run out no sooner than the images.
For files, owners have different pictures at first (`OwnersAssumption`). No theorem has a hypothesis beyond
its specification: none assumes that handlers keep apart, and the bounds on handlers in progress (`MaxInFlight`) play no
part in any proof.

| Theorem | Module | What it says |
|---|---|---|
| `TypeCorrect` | `PurchaseRequestsProofs` | rows, locks and the variables of handlers keep their types |
| `NeverOversold` | `PurchaseRequestsProofs` | `0 <= reserved <= stock` in every committed row, whoever is half way through a transaction |
| `LedgerIsComplete` | `PurchaseRequestsProofs` | at every commit the stock is what the ledger adds up to |
| `LocksAreHeld` | `PurchaseRequestsLocks` | addItem and the passes hold the request they write; what they rely on cannot change under them |
| `OnlyStaleExpire` | `PurchaseRequestsLocks` | a request becomes expired only when it is overdue |
| `NoSaleOfExpired` | `PurchaseRequestsLocks` | no request is expired and has an invoice |
| `ConfirmedIsInvoiced` | `PurchaseRequestsLocks` | a confirmed request has an invoice, under every interleaving |
| `SalesAreInvoiced` | `PurchaseRequestsSums` | at every commit the quantities on invoices are what confirmations took from stock, under every interleaving |
| `Refinement` | `PurchaseRequestsSums` | the handlers implement `StockAccount`: every COMMIT of a cancel, a confirm or a pass books all items it has listed, each once, that of addItem, removeItem or restock its one item; between them the account stays as it is |
| `TypeCorrect`, `LinksAreKept` | `RefreshTokensProofs` | rows and handlers keep their types; a rotated token is revoked for that reason and linked to a successor issued for it |
| `OneLiveToken`, `EndedStayDead` | `RefreshTokensProofs` | a login has at most one live token, and none once it was ended |
| `SpentTokensAreRefused` | `RefreshTokensProofs` | once a token is rotated or its login is ended, no refresh that had not read it before passes the check |
| `TypeCorrect`, `PhonesAreProven`, `EmailsAreProven` | `AccountsProofs` | rows and handlers keep their types; what is marked verified was proven, but for the `mistaken` marks |
| `TokensForTheRightPhone` | `AccountsProofs` | a login by phone ends with tokens for the one account that has the phone |
| `OneRoundPerCode` | `AccountsProofs` | once a code is accepted, no other verification comes to hold it: all that accept it found it before the first of them consumed it |
| `TypeCorrect`, `SentMessagesWereTaken`, `ArrivedCodesAreStored` | `NotificationsProofs` | rows and jobs keep their types; "sent" means taken; a code that arrived is stored or was rolled back |
| `PendingBeforeCommit`, `OncePerRedelivery` | `NotificationsProofs` | a job that is over leaves its delivery pending only if its outcome was written before the COMMIT of the row; one arrival for each delivery of a job |
| `TypeCorrect`, `ReadyFilesWereUploaded`, `ReadyFilesHaveObjects` | `FilesProofs` | rows and requests keep their types; what is ready or shown was uploaded, and has its object unless a deletion was left halfway |
| `PicturesAreLive` | `FilesProofs` | a picture is a deleted file only if a client asked for its deletion, or an update without a logo has brought it back |
| `TypeCorrect`, `ImagesHavePlaces`, `SpecsFit` | `ProductsProofs` | rows and requests keep their types; no two images of a product share a position, and specs fit the schema of their category, but for what a stale read did |
| `HierarchyIsKept` | `ProductsProofs` | a category drops out of `makeTree` only when it, or one above it, is moved to or below a cycle of parents |

`NoOversell` is not inductive: it speaks of rows, and a COMMIT replaces the row by the draft, so
something must be known of drafts while they are open, and the draft of a sale that has consumed the
stock of one item while its ledger line is still to come must be told from that of a restock. The
inductive invariant `Inv` of `PurchaseRequestsProofs` therefore adds to `TypeOK`, `NoOversell` and
`StockMatchesLedger`:

- `WellFormed(p)`: a handler that is past its first step knows a request, an item and an inventory that
  exist, which is what makes the later steps well typed;
- `Booked(i)`: a row nobody has locked is as committed, and the draft of a locked row differs from the
  committed row by its owner's `Booking`: exactly one of reserving, receiving, releasing and selling,
  chosen by the handler and the statement it has come to.

Each kind of step has one lemma (a step of tables only, a write of a draft, a COMMIT, a ROLLBACK), and
each action of `Next` cites the one of its kind; `Booked` holds again after a write because the lock
excludes every other writer, and after a COMMIT because the drafts become rows. `Booked` says which kind of
booking a draft is of; how much it is of needs the items, and sums.

`PurchaseRequestsLocks` adds `LockInv`: addItem, once it has touched its cart, and a pass, once it has
selected a request FOR UPDATE, hold that request's lock, and the request of a pass stays overdue as
long as it does; requests beyond the sequence are neither rows nor locked. Since only a holder of the
lock moves an expiry time, a pass that closes a request closes an overdue one, however many instances
run passes side by side. `NoSaleOfExpired` needs that a request with an invoice is confirmed or cancelled
(`SoldIsClosed`), as the invoice and the status are of one transaction.

`PurchaseRequestsSums` begins with sums. The sum over the items of a request is a fold over a finite set,
which the library defines by recursion, and the induction theorems are out of reach; but that the fold can be
taken apart, a member at a time, follows without one: proper subsets of a finite set are well-founded, so
among the sets for which it could not be there would be a smallest, and `WFMin`, which has no operator
for a parameter, names it. From there on a step of a handler changes a sum by one item.
`BookInv` says how far each transaction has come: what it has reserved, given back and sold so far, row by row, is
the quantity of the item addItem or removeItem works on, or the sum of the items of its list that it has passed
(`Passing`, `Reserving`, `Selling`). A statement moves the sum by its one item, a COMMIT comes only when the list is used
up, and a ROLLBACK drops all of it. The items on a list need not be live any more, and the request need not be open: that
does not matter to the sums, since quantity and inventory of an item never change, and each handler holds the
locks of the rows it has written. So at a COMMIT the account moves by exactly what was listed, which is `Sell` or `Release`
of `StockAccount`, and every step that is not a COMMIT is a listing, a giving up or a stutter there. `SoldMatchesInvoices`
is the same fact about confirmations: the invoice of the COMMIT lists the items that were sold.

`RotationLinks` is inductive together with `TypeOK`: a revocation only touches live rows, so it leaves
the reason `rotate` and the links alone, and a rotation writes both rows of a link in one step. That a
token may be rotated twice is why it speaks of some successor, and not of the only one. `LoginInv` adds to
`OneLivePerLogin` and `EndedLoginsAreDead` that the login of a token is a token of the same user, which is
why revoking all tokens of a user ends whole logins; a rotation of a token that was live when it was read
(`ReadLive`) either finds it live still, and takes its place in the login, or begins another login with a
token that no login has had before. `SpentTokensAreRefused` follows from these: a token that was rotated or whose
login was ended is revoked, and a revoked token does not pass the check of a refresh that starts.

The invariant of `AccountsProofs` adds to `PhoneWasProven` and `EmailWasProven` that phones are unique
(`PhonesDiffer`) and what a handler knows at each of its steps (`WellFormed`): past the code it has found,
the address is proven; past the search for an account, the account exists, and that of a login by phone
has the phone. None of this can be lost to others because accounts, phones, proofs and consumed codes only
accumulate (`Grows`); an account's address does not, and that is why the theorem about addresses has its
exception. For `AcceptedInOneRound` it is enough that a code that was accepted is consumed (`UsedInv`) and stays so (`CodesStay`): a verification finds only codes that are not
consumed, so nobody comes to hold it again (`NoNewHolder`).

`NotificationsProofs` needs no more than facts about one call and its job (`CallOK`): a job comes after the rows
of its call, and has arrived at most once for each time it was put back, one less while it waits to be
sent. A step of another call or job leaves them alone (`OthersKeep`), and a crash is a step of each.

In `FilesProofs` a request knows something of the tables (`LocalOK`), and the file that a replacement uploads
is its own until it is saved: no other update uploads the same and nobody has it as a picture (`Apart`,
`Private`). `Lost` follows an object that is gone to its row: either that is deleted too, or a request is
between the two, or was when it ended. Here `None` is neither a file, an owner nor a status (`NoneAssumption`).
`PictureIsLive` needs to know whose files replacements delete. Two owners never have the same picture, nor has an
update read, or had it as its old one, what is another owner's picture or old one (`OwnInv`). So an update that deletes
its old file deletes what is its own owner's picture, which it replaces in the same COMMIT, or is not a picture any more, and everything
else that is deleted was asked for (`AskedFor`); the file it uploads is deleted, if at all, because a client asked for
that (`NewIsLive`).

`ProductsProofs` has an invariant of the same kind (`Known`): between its read and its write a request knows
a position above all of the product's (`FreshPositions`), the list of all its images (`FreshList`), or that
its specs fit the schema of the category the row will have (`FreshSpecs`), unless the history `stale` says
that another request or an edit has come between. A reorder with a fresh list that names no image twice gives
every image of the product a place of its own, so that a suspect product is in order again after it.

The hierarchy is about reachability, which `makeTree` and `Above` compute by applying a function as often
as there are categories. `IterationEnds` shows that this reaches the least set the function adds nothing
to: as long as it adds something, the set has at least as many members as there were applications. With
that, a shown category that is lost would, were nothing moved on its way up, still be in the least set
that has the roots; and a category that is not shown never comes to a root going up, so that among
finitely many it comes to one it meets again (`RootlessAreBelowCycles`).

Model-checked only: liveness (`JobsAreDone`, `StaleRequestsExpire`, `HandlersFinish`), for which fairness is
needed, which TLAPS does not handle here; and the properties that say how far a race's damage goes
(`ReservedMatchesOpenItems`, `TotalsMatch`, `OpenRequestHasItems`, `InvoicedOnce`, `MaxOrderQtyRespected` and
`OneActiveRequest`), on the instances of `shared_stock` and `carts`.

## Not modelled

`getActive`, `list`, `resolveUrl` and the other endpoints that only read. The price, name and limit of an
inventory are constants; `create` and `update` of inventories come with step 8 of the plan. `NewRow` is the row of
a `create` with a natural number for a stock, which is logged, or is zero and needs no line; the DTO also
lets a negative one through, with which an inventory begins outside of `NoOversell` and `StockMatchesLedger`. `reserveStock`, `releaseReservedStock` and `consumeReservedStockAtomic` of
InventoriesService have no caller. The guards decide who may call, and not what the call does, so any
session may act on any row; CASL's rules are a pure function of what the guard read for the request. In the
auth modules, access tokens (which live on after any revocation until they expire), cookies and the passport
strategies are left out. Of stores, `create` and the members are single statements; of products, the default
image and the texts are left out; brands, configuration and the bootstrap have no behaviour of their own
beyond a row or a start. The texts of messages, the limits of buckets, and the requests to providers and to
the store are outside: only their outcomes are modelled. The components and what is left out of each are
listed in `PROJECT.json`.
