# Verification of torudake-reel

TLA+ modules, TLC instances and TLAPS proofs for torudake-reel, a web application
that edits short videos: people upload or film a video, AI services transcribe it
and write and speak its narration, the browser cuts, joins, captions and exports
it, and saving the result uses up an allowance (a free trial, a monthly plan, a
one-time purchase or, for the operator, a daily quota).

The server runs in Cloudflare Workers over one D1 (SQLite) database. A request is
a Worker invocation that issues a few SQL statements. A statement, or a batch, is
atomic; between two of them any other request may run, the clock may pass a
boundary, or the Worker may be terminated. There are no transactions over several
calls and no locks other than rows with an expiry. The page is one thread of
callbacks: between two `await`s the person may do anything else, the answer of a
request may be lost, and the page may go. The release tools are scripts that call
Cloudflare, which offers no lock either. Almost everything that is hard in this
program comes from that, and it is what the modules model.

1. [Inventory](#inventory)
2. [Modules](#modules)
3. [How the model corresponds to the code](#how-the-model-corresponds-to-the-code)
4. [Runs](#runs)
5. [Proofs](#proofs)
6. [Findings](#findings)
7. [What is not modelled](#what-is-not-modelled)
8. [Plan](#plan)

## Inventory

State on the server is in tables of `db/schema.ts` unless something else is named.

| Component | Code | State | Operations | Modules |
|---|---|---|---|---|
| Usage reservations | `lib/billing-store.ts`, `lib/billing-policy.ts`, `app/api/usage/*` | `usage_reservations`, `usage_release_intents` | reserve, renew, release, complete, settle | `UsageReservation`, `VideoAllowance`, `BillingPolicy` |
| Metered AI | `lib/operator-usage.ts`, `app/api/transcribe`, `app/api/narration/*` | `usage_operation_leases`, `metered_ai_actions`, `usage_observed_durations`, `operator_usage_operations` | acquire and release the lease; begin, continue, succeed and fail an action; record observed seconds | `MeteredAi` |
| Stripe ledger | `lib/billing-store.ts`, `lib/stripe*.ts`, `lib/line-payment-notifications.ts`, `app/api/billing/*` | `billing_subscriptions`, `billing_purchases`, `stripe_events`, sync leases, checkout locks, notifications | claim, finish and abandon an event; refresh a subscription or a purchase; refund; lock the monthly checkout; announce | `StripeLedger` |
| Account deletion | `lib/account-deletion-executor.ts`, `app/api/account/deletion` | `account_deletion_requests` and every table of the user | book, cancel, claim, block, remove media, delete | `AccountDeletion` |
| Trial sessions | `lib/trial-session-store.ts`, `lib/anonymous-trial-account-transfer.ts` | `trial_sessions`, `trial_issuance_fingerprints` | issue, refresh, log out, transfer to an account | `TrialTransfer` |
| Passkeys and sessions | `lib/account-auth.ts`, `lib/external-account-auth.ts` | passkeys, challenges, sessions, identities | sign in, step up, register, link, remove, sign out | `AccountSessions` |
| LINE and Google | `lib/oidc-auth.ts`, `lib/line-deauthorization.ts`, `app/authentication-gate.tsx` | `account_oauth_challenges`, cookies; the dialog's attempt | begin, callback, post, conclude; open, poll, return, close | `ProviderCallback`, `AuthenticationGate` |
| Operator access | `lib/operator-access.ts`, `lib/operator-enrollment-throttle.ts` | `operator_devices`, attempts | enroll, replace, revoke, throttle | `OperatorAccess` |
| Media transfers | `lib/transfers.ts`, `app/api/transfers/*` | `video_transfers`, `video_transfer_parts`, an R2 bucket | init, claim, store and record a part, complete, remove, clean up | `MediaTransfer` |
| Editing page | `app/page.tsx` | the page's refs: video, run, reservation, export | choose, run, narrate again, buy, export, leave | `EditingPage`, `PreviewPlayer`, `PageExport`, `PersonalPreferences` |
| Page that joins videos | `app/video-mix/video-mix-client.tsx` | one reservation, its key, a queue of operations | reserve, narrate, export, confirm, recover, leave | `MixReservation` |
| Photo reel page | `app/photo-reel/photo-reel-client.tsx` | photos, key, reel kept aside | add, export, complete, retry, discard, leave | `PhotoReelPage` |
| Saved videos | `lib/client-video-mix-output.ts` | a file and an IndexedDB record | save, confirm, load, delete, clean up | `DurableOutput` |
| Plans | `lib/edit-plan.ts`, `lib/video-composition.ts`, `lib/video-mix-scene-timeline.ts`, `lib/captions.ts`, `lib/caption-readability.ts`, `lib/narration-alignment.ts`, `lib/photo-reel*.ts`, the schedules of `lib/portable-video-export.ts` | none | functions of ranges, captions, clips, beats | `EditPlan`, `VideoComposition`, `SceneTimeline`, `Captions`, `CaptionDisplay`, `ExportTimeline`, `PhotoReel` |
| Exports | `lib/portable-video-export.ts`, `lib/video-mix-export.ts`, `lib/photo-reel-export.ts`, `app/page.tsx` | decoders, encoders, recorder, muxer, samples, signal | open, schedule, write frames and sound, finalize, undo | `PortableExport`, `VideoMixExport`, `PhotoReelExport`, `PageExport` |
| Services' sessions | `app/api/transcribe`, `app/api/narration/speech`, `lib/transcription-media.ts` | the calls of one request; the pieces of one sound | call, retry, refine; speak; split, send, restart | `TranscriptionCall`, `SpeechSession`, `LargeTranscription` |
| Release tools | `scripts/operations/*.mjs`, `scripts/release-preflight.mjs` | deployments at Cloudflare, records, manifests | capture, upload, verify, activate, roll back | `PagesRelease`, `SchedulerRelease` |
| Others | rate limits, caption profiles, analytics, health, static pages | | | none: see [What is not modelled](#what-is-not-modelled) |

**How they interact.** A page reserves one video under an idempotency key it made
up, renews the reservation when it is resumed or about to export, releases it when
it is left, and completes it when the video is saved. Each request picks the
bucket that pays (`chooseBillingBucket`) from the subscription, the purchases and
the other reservations of the user. AI requests find the reservation, take its
lease, call a provider and give the lease back. Stripe's webhooks change
subscriptions and purchases at any time, and a refund takes back what was not yet
saved. A deletion, or the transfer of a trial, rewrites all of a user's rows. In
the page, the result of a run feeds the plan, the plan the preview and the export,
and the finished file is handed over once its reservation is confirmed.

**What is hard.** The same quota is written to by the INSERT of a new reservation
and by the UPDATE that brings a lapsed one back; both must decide and write in one
statement. A renewal is seven statements with one clock reading. The release of a
page may come before the reservation it is about. An AI call outlives its
reservation and then its lease. A webhook holds a claim that lapses while it
waits for Stripe. An executor of deletions asks Stripe and removes media
between its checks and its last batch, while the customer goes on. A page is told nothing of what the server committed before the answer was
lost. An abort arrives between any two awaits of an export that holds decoders, a
recorder and the preview's own audio graph. `PROJECT.json` lists each hazard with
its line.

## Modules

Each module is one component: its state, one action per handler, statement or
callback, and its properties. Modules that share no state in the code are checked
beside each other in one run, by a module that composes them.

| Module | Code | What it promises |
|---|---|---|
| `VideoAllowance` | the abstract specification: videos, what pays for them, and how much of it there is | the limits; spent stays spent |
| `UsageReservation` | the tables and the requests; `Allowance == INSTANCE VideoAllowance` is its refinement | see below |
| `BillingPolicy` | the buckets, `chooseBillingBucket`, the Tokyo day | |
| `MeteredAi` | actions under a lease, over reservations of one entitlement | `EntitlementWithinLimit`, `AnswersAreCounted`, `TranscribedWithinSource` |
| `StripeLedger` | webhook, purchase and subscription refresh, monthly checkout, LINE message, against Stripe | `OneMonthlyContract`, `BooksNeverGoBack`, `AnnouncedOnce`, liveness `FollowsStripe` |
| `AccountDeletion` | two executors against a customer | `DeletedOnlyWhenSettled`, `NoMediaLeftBehind`, liveness `DueDeletionHappens` |
| `TrialTransfer` | a device's trial and the account it joins | `OneTrialEach`, `NothingStaysBehind` |
| `AccountSessions` | ceremonies of two browsers on one account | `AlwaysAWayIn`, `NoSessionOfARemovedPasskey`, `SignedOutStaysOut` |
| `AuthenticationGate` | the sign-in dialog: popup, tab, poll, return, passkey | `BlockedByItsAttempt`, liveness `NeverStuck` |
| `ProviderCallback` | a provider's callback on the server | `AttemptCountsOnce`, `ConcludesForWhoBegan` |
| `OperatorAccess` | enrollment, throttle, device cap | `CapHolds`, `GuessesAreBounded` |
| `MediaTransfer` | one transfer and its R2 upload | `CompleteIsWhole`, `RemovedLeavesNothing` |
| `DurableOutput` | a saved video in two tabs | `SavedIsKept`, `RecordsHaveBytes`, `FilesAreOwned`, `ConfirmedForGood` |
| `PersonalPreferences` | the usual finish, in the page, the browser and the account | `ApartOnTheDevice`, `DemoIsNotKept`, `EditsAreSaved`, `SettingsAreNotForgotten` |
| `PagesRelease` | two runs of the release script | `NoSilentOverwrite`, `RestoredIsRestored` |
| `SchedulerRelease` | two runs of the Worker's release | `ManifestTellsTheTruth`, `CronStaysInPlace` |
| `EditingPage` | runs, reservation, narration changes, purchase check, export | `NothingElseForgotten`, `ProcessingHasItsRun`, `ResultIsOfItsVideo`, `NotReleasedWhileConfirmed` |
| `MixReservation` | the queue of operations on one reservation | `NoneStranded`, `AtMostOneHeld`, `HandedOverIsPaid`, `PaidIsKept` |
| `PhotoReelPage` | photos, export, reel kept aside | `ReelIsPaid`, `HeldIsKnown`, `KeysAreNotReused`, `NothingIsLeft` |
| `PreviewPlayer` | video and narration of the preview | `SoundsWhatIsPlaying`, `StandsWhenStopped`, `SeeksAreAnswered` |
| `EditPlan` | the cut plan | `RangesAreSound`, `CutIsNotHeard`, `FitsTarget`, `SomethingIsKept`, `ManualIsComplement`, `ClocksAgree` |
| `VideoComposition`, `SceneTimeline` | clips on one timeline; `SceneTimeline` extends it with the scenes of a narration | `WindowsFit`, `FramesAreSound`, `VisualsJoin`, `ScenesPartition`, `LinesFollowScenes` |
| `Captions` | a transcript to captions | `EverythingIsCaptioned`, `CaptionsFitTheLine`, `CaptionsInOrder`, `WordsAreWhole` |
| `CaptionDisplay` | how long each is shown | `OneAtATime`, `NeverAcrossACut`, `ReadableWhenThereIsTime`, `InTheOrderSpoken` |
| `ExportTimeline` | frames, sound and ducking of an export | `FramesAreTheKept`, `AudioIsInSync`, `SpeechIsHeard` |
| `PhotoReel` | the plan, beats, frames and pictures of a reel | `SlidesShareTheReel`, `TransitionsEnd`, `FramesShowTheirSlide`, `PicturesFill` |
| `PortableExport` | an edit encoded in the page | `NothingRunsOn`, `BlobIsComplete`, `AskedIsHeard`, `ChosenIsBest` |
| `VideoMixExport` | joined videos encoded; extends `VideoComposition` | `DecodersAreInOrder`, `NothingIsHeld`, `BlobIsWhole`, `NeverTwoAtFull`, `HardCutsAreAccepted`, `MeasuredIsBounded` |
| `PageExport` | an edit recorded in real time | `PreviewIsGivenBack`, `CutIsNotRecorded`, `RecordedIsWhole`, `FileIsSettled` |
| `PhotoReelExport` | a reel encoded or recorded | `ReelIsLetGo`, `ReelIsWhole` |
| `SpeechSession` | the realtime session of a narration | `FreeWasNotAsked`, `SpokenIsWhole`, `CountedAndClosed` |
| `TranscriptionCall` | the calls of one transcription | `AsksWithinTheLease`, `HeardIsKept` |
| `LargeTranscription` | a large video's sound in pieces | `CaptionsOfTheWhole`, `AskedOncePerPass`, `PiecesFit` |
| `PageReservations` | `EditingPage`, `MixReservation`, `PhotoReelPage` side by side: the pages that hold reservations | groups of the above |
| `Workspace` | extends it with `MediaTransfer`, `ProviderCallback`, `DurableOutput`, `PersonalPreferences`, `PagesRelease`, `SchedulerRelease`: what keeps videos and settings, and what releases the program | groups of the above |
| `SumProofs`, `VideoAllowanceProofs`, `UsageReservationProofs`, `MeteredAiProofs`, `StripeLedgerProofs`, `AccountsProofs`, `WorkspaceProofs`, `PageReservationsProofs` | theorems | see [Proofs](#proofs) |
| `MCAccounts` | `OperatorAccess`, `AccountDeletion`, `TrialTransfer`, `AccountSessions`, `AuthenticationGate` side by side | groups of the above |
| `MCWorkspace` | extends `Workspace` with what plays, plans and exports, each on its small instance | groups of the above |

The comment before every property says what it means of the code; where the code
does less than one would wish, a history variable records the place
(`forgotten`, `late`, `strays`, `overtaken`, `crossed`, `leaked`, `revived`,
`unruly`, `unseen`, `restarts`, `leftOpen`, `astray`) and the property holds of everything else. These
places are listed under [Findings](#findings).

`VideoAllowance` knows a set of keys and, for each, a stage (`none`, `held`,
`spent`, `returned`), the bucket and the purchase that pay, and the second it was
held. Its only interesting action is `Hold`, which needs room in the allowance
beside the other videos; `Spend`, `GiveBack` and `Withdraw` are the rest.
`UsageReservation` is the program. The refinement mapping reads a row: `reserved`
is held, `completed` is spent, `released` is returned, no row is none. Leases,
intents, expiry times, retries, clocks and Workers are invisible to it.

## How the model corresponds to the code

### Usage reservations

`UsageReservation` is one user's part of the database.

| Variable | Code |
|---|---|
| `rows` | `usage_reservations` by idempotency key: status, bucket, `created_at`, `expires_at`, whether `release_requested_at` is set, `billing_purchase_id` |
| `intents` | `usage_release_intents` by idempotency key |
| `leases` | `usage_operation_leases` with operation `metered_ai`, by reservation |
| `sub` | the user's row of `billing_subscriptions`, with `revoked_period_start` |
| `purchases` | whether each purchase exists and has `revoked_at` |
| `h` | the request each Worker serves: its next statement (`pc`) and its local variables |
| `refund` | the webhook that applies a refund: its next statement |
| `now` | `Math.floor(Date.now() / 1000)` |

A request's local `t` is the clock reading it works with. `reserveUsage` reads the
clock again at each attempt and before its INSERT; `renewUsageReservation` reads
it once and uses it to the end; both are modelled as they are, so a statement may
run with a time long past.

| Actions | Code |
|---|---|
| `ReserveBegin`, `ReserveReconcile`, `ReserveMaterialize`, `ReserveSettle`, `ReserveChoose`, `ReserveInsert`, `ReserveRecheck` | `reserveUsage` with `loadReservationAfterReleaseIntent`, `materializeReleasedUsageReservation`, `getBillingStatusForUser` and `insertUsageReservationAtomically`; up to `MaxAttempts` turns |
| `RenewBegin`, `RenewCheckCompleted`, `RenewExtendCompleted`, `RenewSettle`, `RenewChoose`, `RenewExtend`, `RenewCheckLease`, `RenewReactivate` | `renewUsageReservation` with `reactivateUsageReservationAtomically` |
| `ReleaseBegin`, `ReleaseBatch` | `requestUsageRelease` with the batch of `persistUsageReleaseIntentAndReconcile` |
| `CompleteUsage`, `SettleExpired` | `completeUsage`; `settleExpiredUsageReservations` as every billing status request runs it |
| `AiBegin`, `AiAcquire`, `AiBlock`, `AiRelease`, `AiFinalize` | `findOwnedUsageReservation`, `acquireUsageOperationLease`, `blockObservedDuration`, `releaseUsageOperationLease`, `finalizeRequestedUsageRelease` |
| `Subscribe`, `RenewPeriod`, `ChangePlan`, `CancelSubscription` | `upsertSubscription`, with the rows Stripe's events make |
| `RecordPurchase` | `recordOneTimePurchase` |
| `RefundPurchase`, `PublishPurchase`, `StopPurchase`, `RestorePurchase` | `beginPurchaseStateSync`, `finishPurchaseStateSync`, `stopOneTimeReservationsForPurchase` |
| `RefundPeriod`, `RevokePeriod`, `ExpirePeriod`, `ReleasePeriod`, `RestorePeriod` | `setSubscriptionPeriodRevocationState`, one action per statement |
| `RefundDies` | the webhook dies; Stripe delivers it again and it starts over |
| `WorkerDies` | the Worker is terminated: rows and lease stay, locals are gone |

The first half of the module holds the SQL: each definition is the WHERE or SET
clause of a statement as a function of the tables and the bound time, and the
actions of the second half only order them.

Abstractions, and why they are sound for the properties:

- *One user.* Every statement is restricted to a `user_id`; no property relates
  two users. The transfer of a trial, which does, is `TrialTransfer`.
- *One subscription row.* A second active subscription of the same user is what
  the checkout lock prevents (`StripeLedger`).
- *The reads of a billing status are one step.* `getBillingStatusForUser` settles,
  then reads subscription, counts and purchases. The settlement is its own step,
  the reads are one: the INSERT and the UPDATE that use the choice check the
  quotas again, so only the choice of a bucket could differ, and the choice may
  be out of date anyway by the time it is used.
- *Purchases have one credit*, which is what the checkout sells.
- *Webhooks.* One refund is applied at a time and a period is restored only when
  none is; the claims that ensure it are in `StripeLedger`. Subscription changes interleave
  with a refund freely, which is more than the sync lease allows while it is held
  and what happens when it lapses. A purchase may be restored while the webhook
  that revoked it still has its reservations to stop, because its claim on the
  purchase is given up when the refund is published.
- *Any request at any time.* Pages may send any request for any key in any order.
- *Scaled time.* A day, a lifetime, a lease and a period last one to three ticks.
  The order of deadlines and boundaries matters, their length does not.

### The other modules

Each module's header says which functions it is made from, its variables say which
tables, refs or objects they are, and each action is named for the handler,
statement or callback it models. `PROJECT.json` ("map") gives the lines. What is
common to them:

- *A read and the write that uses it are two steps* wherever the code awaits in
  between, and one where it does not: a SQL statement with its subqueries, a batch,
  a synchronous run of a callback.
- *Time.* Only `UsageReservation`, `VideoAllowance` and `MeteredAi` have a clock.
  Elsewhere a lease, claim, grace or window ends by an action of its own
  (`ClaimLapses`, `WindowEnds`, `GracePasses`, `Age`, `Timeout`, ...), at any moment
  the constants of the code allow. In `StripeLedger` the claim on an event or on a purchase and the lease of a
  subscription may each lapse while their holder is stalled, which `MaxFaults` counts:
  the holder then goes on, and what it does depends on whether its next statement
  asks for the token. The writes of a subscription do not, so the module keeps in
  `late` the subscriptions whose row (`late.rows`) or refund mark (`late.marks`) was last
  written by such a holder. Only the lock of the monthly checkout (32 minutes) lapses
  in order, after its session (31 minutes) has ended. In `AccountDeletion` a claim (30 minutes) lapses only when no executor works
  under it, because the scheduler waits 25 seconds for a run;
  `NothingOnStaleGrounds` has a counterexample without that assumption, since the last
  batch does not ask for the token.
- *External services* (Stripe, LINE and Google, R2, Cloudflare, the AI services, the
  browser's codecs and recorders) do whatever the code is prepared for, in any
  order, and are marked external in the map.
- *Faults*: a Worker, tab or script dies between two steps; a call fails before or
  after it took effect; an answer is lost; an event is delivered twice, late or out
  of order. A constant bounds how many.
- *Media and numbers.* A video, a sound or a picture is what the code asks of it: a
  length, a track, a level. Times are whole ticks, with thresholds as constants, so
  that rounding does not occur; where the code halves, the model doubles. Gains and
  pixels are compared, not computed. The choice a heuristic score makes is a free
  choice among the candidates the code admits.

| Module | What its actions are |
|---|---|
| `MeteredAi` | A request: `Transcribe`, `WriteScript` or `Speak`, then `Look`, `Consume`, `Insert` or `Continue`, the call's outcomes, `Succeed`, `FailOverrun`, `Block`, `Abandon`, `Complete`, `Release`. The WHERE clauses are the operators `CanAcquire`, `CanInsert`, `CanContinue`, `CanSucceed`, `CanFail`, `CanRecord` |
| `StripeLedger` | Stripe's own actions (`PayOnce`, `DisputePurchase`, `PaySession`, `ChangeSubscription`, `RefundPeriod`), deliveries, and one action per statement or call of the webhook and the checkout |
| `AccountDeletion` | The customer (`Schedule`, `Cancel`, `OpenCheckout`, `PayCheckout`, `StartUpload`, ...) and an executor: `Claim`, `LookLocally`, `AskStripe`, `ListMedia`, `RemoveMedia`, `Complete`, `GiveBack`, `Fails`, `Dies` |
| `TrialTransfer` | A device's requests in two steps each (`BeginReserve`, `EndReserve`, `BeginRefresh`, `EndRefresh`), the sign-in that reads the trial and the batch that binds it |
| `AccountSessions` | A ceremony: `Start`, `Answer` (rows read, challenge consumed), and the statements that end it: `SignIn`, `SignUp`, `Link`, `Register`, `Remove` with `Purge`; sign-outs beside it |
| `AuthenticationGate` | The dialog's handlers and timers; a window is external |
| `ProviderCallback` | `Begin`, the provider's answer, `Post`, `Find`, `Consume`, `Identify`, `Deauthorize`, `Conclude` |
| `OperatorAccess` | `Enroll` (look at the block), `WrongCode` or `RightCode`, `Activate`, `Replace` |
| `MediaTransfer` | `PutPart`, `Claim`, `StorePart`, `RecordPart`; `Complete`, `Join`, `Inspect`, `Publish`; `Erase`, `Bury` |
| `DurableOutput` | `WriteFile`, `PutRecord`, `MarkRead`, `MarkPut`, `DeleteRead`, `DeletesRecord`, `Unlink`: one per IndexedDB transaction or file operation |
| `PersonalPreferences` | The hydration effect, the save effect with its timer, the PUT and its answers, `Choose` with the file's length read in between, sign-out and switch |
| `PagesRelease`, `SchedulerRelease` | One action per call of the script to Cloudflare, with every check made on what the call answered |
| `EditingPage` | A run is a slot with a generation; every continuation after an `await` is a step that looks at the generation as the code does |
| `MixReservation` | `line` is the promise chain of `withReservationLock`; an operation is a sequence of requests, each with its answer or without |
| `PhotoReelPage` | `export`, `pending` and `settling` are the three ways a reservation is at work |
| `PreviewPlayer` | `player.op` is the operation counter; `task` is what awaits |
| `EditPlan`, `Captions`, `CaptionDisplay`, `ExportTimeline`, `PhotoReel`, `SceneTimeline` | Operators, and one or two steps that apply them in the order the pages do to every input of a bounded set |
| `PortableExport`, `VideoMixExport`, `PhotoReelExport`, `PageExport` | One action per `await` of the export, with the abort signal and the codec's failures between them, and the `catch` and `finally` blocks as actions |
| `SpeechSession` | One action per event of the socket and per timer |
| `TranscriptionCall`, `LargeTranscription` | One action per request and its outcome, and per way of taking the sound out |

## Runs

TLC checks each configuration exhaustively. Numbers are distinct states.

| Run | States | What it asks |
|---|---|---|
| `quota` | 1.5 M | Two Workers reserve and renew two keys, as customer or operator, over two Tokyo days. The real limits of the trial (2 videos, 180 seconds) with an 80 and a 110 second video: each fits, both do not. `FreeSecondsQuota`, `OperatorQuota` |
| `purchases` | 0.3 M | Two Workers, two keys and one purchase that is refunded and restored by a webhook that may die. `PurchaseFundsOneVideo`, `RefundStopsReservations`, and `ImplementsAllowance` as a refinement |
| `trial` | 0.3 M | Two Workers reserve, renew and release two keys on a trial of one video; what the page left is renewed with and without resuming it. `FreeVideoQuota` |
| `plans` | 2.0 M | One Worker, two keys, two plans with different limits, a trial of one video; plan, period and refunds change between its statements. `SubscriptionQuotaOnGrant`, `RefundStopsReservations` |
| `release` | 0.6 M | Two Workers reserve, renew, release, save and do AI work on one key; reservations lapse and leases are taken over. `TypeOK`, `ReleasedKeyStaysReleased`, `LeaseExclusive`, `CompletedIsTerminal`, `LeaseProtectsFunding`, `LeaseDefersRelease` |
| `allowance` | 0.4 M | The abstract specification: four videos, of which three exceed the trial's two and the two long ones its seconds, one purchase, two days |
| `metered_ai` | 1.45 M | Two Workers, two videos of one entitlement, two action ids, three requests: chunks, initial narrations in phases, single speeches. `TypeOK`, `EntitlementWithinLimit`, `AnswersAreCounted`, `TranscribedWithinSource` |
| `ledger` | 0.31 M | Two Workers, two checkouts, two periods, three events, one fault: a Worker dies, or a claim or a lease lapses under it. `TypeOK`, `OneMonthlyContract`, `AnnouncedOnce`, `BooksNeverGoBack`, and the liveness of `FollowsStripe` |
| `accounts` | 0.3 M | `OperatorAccess` (three terminals, a cap of two), `AccountDeletion` (two customers, two executors, three moves, one failure), `TrialTransfer` (two devices, one member, four visits), `AccountSessions` (two browsers, two passkeys, one outside identity), `AuthenticationGate` (two attempts). Six properties, with the liveness of `NothingHangs` |
| `workspace` | 2.0 M | The twenty-three components of the table below, four of them with two or three sets of bounds. Six properties |
| `export_renewal` | violation | An export renewal against a release (see Findings) |
| `preview_charged` | violation | An AI call that charges a paid reservation (see Findings) |

**Compositions.** `MCAccounts` and `MCWorkspace` put side by side components that
share no state in the code as modelled. A behaviour is one of a single component,
chosen at the start (`component`), while the others rest, so the states add up and
do not multiply. `PageReservations`, `Workspace` and `MCWorkspace`, each of which
extends the one before, go one step further and give the components the same
variables `x1`, `x2`, ...: each INSTANCE substitutes them for its own, in the order
its module declares them, and what checks one component never reads another. A
component that is run with more than one set of bounds takes them as the parameter
of its INSTANCE (`Editing(b)`), a record chosen at the start (`bounds`) from a
constant (`EditingBounds`, `MixBounds`, `SettingsBounds`, `PagesBounds`); a theorem
is about every set of such records. A property of these runs is a conjunction of
properties of the modules, each under the component it is about; the types are
conjuncts of the groups. `ReservingSpec` and `KeepingSpec` are the parts of
`WorkspaceSpec` that the two proof modules are about: what `ReservationsAreAccountedFor`,
`StoredWholeAndOnce`, `ReleasesAreSafe` and `ConcludedAsBegun` say of the other
components is nothing.

| Instance | States | Bounds | What happens within them |
|---|---|---|---|
| `Transfer` | 84 k | two parts, two requests at a time, four in all, one death | a part claimed, taken over and stored by two requests; a completion, a removal and a clean-up that meet |
| `Callback` | 615 k | two attempts, two posts, two accounts, three logins | the page posted twice, a second attempt begun, a step-up that concludes, the session ended or taken over by another account in between, a deauthorization |
| `Pages` (two bounds) | 233 k, 12 k | three deployments, one failing call; two runs that look once, or one that looks twice at late lists (`lag`) | two releases overlap at every call, one rolls back, and a person deploys by hand; with `lag` a list may lack the newest deployment, and only `NoSilentOverwrite` can be held of it |
| `Scheduler` | 95 k | two runs, three deployments, one failing call | two releases of the Worker, interrupted anywhere, with recovery |
| `Editing` (three bounds) | 112 k, 50 k, 72 k | two runs at a time, two reservations; four generations, or three and a lost answer, or three and both choices for a silent video under way at once | a run superseded, a purchase that returns, an export, a change of the narration, a silent video's choice answered after the next video was chosen, leaving |
| `Preview` | 38 k | three operations, two of what awaits | play, pause, seek and cut while the video and the narration start late or not |
| `Mix` (two bounds) | 281 k, 23 k | two keys and one fault; or one key, two faults, and the reservation lapses on the server | lost answers, recovery, a second operation queued behind a first, a page that goes and comes back |
| `Durable` | 2 k | two tabs, one output, one crash | save, confirm, load, delete and clean-up cut off at any step |
| `Plan`, `Scenes`, `Lines`, `Display`, `Export`, `Reel` | 34 k, 12 k, 12 k, 5 k, 2 k, 25 k | every input of a bounded set | the algorithms, at and beside their thresholds |
| `MixExport`, `Portable`, `Recording`, `ReelExport` | 29 k, 34 k, 2 k, 24 k | two or three sources, frames or ranges, files that open, break or are silent, every abort and failure | exports that end in every way an `await` allows |
| `ReelPage` | 146 k | two photos, keys, exports; one lost answer | an export, its reservation and the reel kept aside, with answers lost and photos changed |
| `Settings` (two bounds) | 23 k, 40 k | two accounts, one switch, two loads, one fault; or one load and two files, with a demonstration | edits before, during and after the requests that read and write them |
| `Speech`, `Hearing`, `Large` | 0.4 k, 1.5 k, 5.6 k | one session; the calls of one request; sounds of up to seven units | every order of events, answers and timers |

**Properties of the reservations and the allowance.**

- `FreeVideoQuota`, `FreeSecondsQuota`: the trial never pays for more videos, nor
  for more source seconds, than it has.
- `OperatorQuota`: no Tokyo day holds more operator reservations than the limit,
  although a request that read the clock before midnight may insert after it.
- `PurchaseFundsOneVideo`: two reservations never use the credit of one purchase.
- `SubscriptionQuotaOnGrant`: a reservation that a plan comes to fund fits the
  limit of the plan as it is at that moment. (It is not an invariant of the state:
  a downgrade leaves more videos than the new plan has, by design.)
- `RefundStopsReservations`: a refunded purchase or period holds no reservation
  unless the webhook, or its redelivery, still has statements to run.
- `ReleasedKeyStaysReleased`: while a release of a key is on record, its row, if
  reserved, is marked released. Only a renewal that resumes the page takes it back.
- `LeaseExclusive`: a Worker whose lease has not run out is the holder the table
  names. `LeaseProtectsFunding`, `LeaseDefersRelease`: under a live lease the
  reservation neither changes what pays for it nor is given back, except by a
  refund.
- `CompletedIsTerminal`: a saved video stays charged, to the same allowance.
- `ImplementsAllowance`: every step is a step of `VideoAllowance` or a stutter.

**Properties of the metered actions and the ledger.**

- `EntitlementWithinLimit`: the successes of one entitlement stay within its limit
  although each video counts its own and two Workers count at once.
- `AnswersAreCounted`: what the page received is on record as a success for good,
  whatever lapses or dies afterwards. `TranscribedWithinSource`: the chunks of one
  video never add up to more than its declared length and the tolerance.
- `OneMonthlyContract`: two checkouts never both become contracts.
- `BooksNeverGoBack`: no refresh writes a version of Stripe's object older than the
  one on record. Of a purchase this holds in any case, because its writes ask for the
  claim; of a subscription unless a handler that had outlived its lease wrote it
  last, or writes it now (`late`).
- `AnnouncedOnce`: a purchase is not announced to LINE twice.
- `FollowsStripe`: what Stripe says is eventually what the books say, for good. Events
  that arrive twice or out of order, handlers that die, refusals and lapsed claims
  only delay it. Excepted is a subscription that a handler wrote after its lease had
  lapsed, until the next refresh under a lease.

**Properties of accounts and workspace**: named beside their modules above; each is
stated and explained in its module. Four hold with an exception that is worth naming here.

- `NothingElseForgotten`, `ResultIsOfItsVideo` and `NotReleasedWhileConfirmed` of
  `EditingPage`: `forgotten` has the reservations that a continuation drops without looking
  at the generation, the answer of a silent video's release among them, which wipes
  whatever the page holds by then; and `late` has what wrote although it was superseded, a
  silent video's choice that met the other one or came after its video included.
- `KeysAreNotReused` of `PhotoReelPage`: the key of an export that paid is never the key of
  another one, whatever answers are lost; a key whose reservation was given back is used
  again only if an answer was lost.
- `CutIsNotHeard` of `EditPlan`: a removed word that ends exactly where what is kept begins,
  or begins where it ends, is taken by the code for a word of the range, and is heard.
- `FitsTarget`: a natural edit keeps to its target, except where `createNaturalEdit` itself
  gives up: nothing useful is left and all of it stays, or no sentence fits and
  everything useful stays, however long. That a choice is trimmed to nothing, the third
  way out, is in the model and shown not to happen.

**Bounds.** `MaxTime` stops the clock of the three modules that have one; `Kinds`
names the requests and webhooks an instance of `UsageReservation` admits; `Workers`
the concurrent invocations. Two Workers are enough for a read of one to become
stale by any sequence of steps of the other; a third could only add steps that the
second, which serves any number of requests in turn, can make itself. The `plans`
run has one Worker because there the interference comes from the webhooks. Two
keys are enough for one reservation to take the room of another; three matter to
the count of the trial, which is why the abstract specification is checked with
four and the count is proved for any number. Two to four ticks cover: a
reservation lapsing, a lease being taken over, midnight, and the end of a period,
each while a request holds an older reading. `MaxIntents` is never reached: the
eviction of the oldest intents is in the model and not exercised.

In the other modules a bound counts what could go on for ever: requests
(`MaxRequests`), events, moves of a customer, visits, generations of a run
(`MaxGen`), keys, failures and faults. Each is at least one more than its hazard
needs: an answer that comes after the next request was begun needs two, a
superseded run that is itself superseded three, a run that writes after its successor's successor four,
a step-up that is overtaken by a sign-in of another account three logins. Two
tabs, executors, browsers or runs of a script suffice for the reason that two
Workers do. The inputs of the algorithms are chosen around each threshold of the
code: a range just under, at and over the shortest that is kept, a gap that is and
is not bridged, captions that touch, overlap and are out of order, sources without
sound, with several tracks, or unreadable.

**Fairness** is assumed only where liveness is claimed, and only of what the code or
its platform keeps doing.

- `StripeLedger`: a handler that runs goes on (`WF` of `HandlerStep`) unless it dies,
  which `MaxFaults` bounds; Stripe delivers an event until it is acknowledged, a
  delivery finds some Worker again and again (`SF` of `Deliver`); claims, leases and
  locks lapse (`WF`), as time passes, under a handler that still works only as often as
  `MaxFaults` allows; and a waiter takes a lease that
  keeps coming free (`SF` of `AcquireLease`), because it asks forty times a second
  for as long as a request may last.
- `AccountDeletion`: the grace and the claims pass, and the scheduler's Cron keeps
  starting executors (`WF`). `DueDeletionHappens` is about deletions that nothing
  forbids any more.
- `AuthenticationGate`: the browser runs continuations, timers and polls, and
  requests come to an end because they carry a timeout. Not the prompt for a
  passkey, which may stay for as long as the person lets it: the code's own timer
  (`StopPasskey`) is what ends it.

Everywhere else none is assumed and no liveness is claimed: a Worker may die at any
statement, a page may never come back, and the properties are safety properties.

**Symmetry** is over Workers; in `metered_ai` also over reservations and action ids,
which nothing orders; in `workspace` over the two tabs, requests, posts or runs. Keys
and purchases of `UsageReservation` are ordered, as SQLite orders them, and keep
their identity. There is none in the runs that check liveness.

**Deadlock** checking is on in the runs of reservations and the allowance. It is off
in `metered_ai`, `ledger`, `accounts` and `workspace`, whose systems may really stop:
a person leaves, an export is over, a script ends, the bounded requests are used up.

## Proofs

TLAPS checks the following for every set of keys, purchases, reservations, actions,
checkouts, events, Workers, customers, devices, browsers, terminals, tabs, parts of a
video, sign-in attempts, accounts, releases and runs, every plan and mode, and every limit,
duration, lifetime, lease, period and clock bound the named assumptions allow
(`PolicyAssumption`, `ReservationAssumption`, `AllowanceAssumption`,
`MeteredAiAssumption`, `StripeLedgerAssumption`, `OperatorAssumption`,
`AccountsAssumption`, `WorkspaceAssumption`, `ReservationsAssumption`: limits are natural
numbers, sets of keys are finite, a duration is positive, nobody is no Worker, and what
stands for a person at the dashboard, for no account or for what ran before is none of
the runs, releases or accounts). TLC evaluates the assumptions in the runs.

*`SumProofs`.* The source seconds of a trial and of a transcript are sums over a set of
keys, which `Functions` defines by choosing elements one after the other. The
library's induction theorems take an operator as a parameter and cannot be
instantiated, so each fact (`SumsExist`, `SumsAgree`: the order does not matter,
`SumType`, `SumTakesOut`, `SumGrows`, `SumUpdated`, `SumSame`) is proved on a set of the
fewest elements that would contradict it, which exists because `<` on the natural
numbers is well founded (`FewestElements`).

*`VideoAllowanceProofs`.* `AllowanceType`; `FreeTrial`, `FreeSeconds`, `PurchaseOnce` and
`OperatorDay`: each limit is inductive beside the types, because `Hold` counts the
other videos of the allowance, or adds up their seconds, before it adds its own
(lemmas `CountedBeforeAdded`, `SummedBeforeAdded`) and every other action only shrinks
the sets; `Spent`.

*`UsageReservationProofs`.* `Types`: `TypeOK` is inductive. It is stronger than it
looks: that a row funded by a purchase names an existing one needs that the
statement which wrote it found an open purchase (`OldestPurchase`), and that a
request's clock reading lies between 1 and the bound needs its request to have
begun. `Implements`: the initial tables are an empty allowance
and every step of `Next` is a step of the allowance or leaves it unchanged. The
argument sorts the statements by what they do to a row as the allowance sees it:
a row is kept (`Kept`), given back (`Dropped`), funded (lemma `Funding`: the
guards of the INSERT and of the reactivation are the room `Hold` asks for; the
operator's case uses that counting since the start of the day counts at least the
videos of that day), spent (`Spending`) or withdrawn before it existed
(`Withdrawing`). A batch that settles many rows is one `GiveBack`.

From it and the theorems of the allowance, instantiated as `Promise`, follow, in a
few lines each:

- `FreeVideosStayWithinLimit`: `Spec => []FreeVideoQuota`
- `FreeSecondsStayWithinLimit`: `Spec => []FreeSecondsQuota`
- `OnePurchaseOneVideo`: `Spec => []PurchaseFundsOneVideo`
- `OperatorDayStaysWithinLimit`: `Spec => []OperatorQuota`
- `SavedStaysCharged`: `Spec => CompletedIsTerminal`

The rest of the module is about what the allowance does not know of: leases, release
intents, plans and refunds. The inductive invariant is `Standing` beside `TypeOK`: a request's
reading of the clock is never ahead of the clock, a lease is of a row that is there,
a subscription is a whole period, a row a purchase pays for names one, and a refund
in progress knows what it refunds. Then two case analyses over all statements are
made once: `StepMoves` says what a step makes of one request and one lease, and
`StepRows` that what it makes of one row is one of six things (`RowStep`: spared,
extended, given back, funded, withdrawn, saved), each with the guard of the statement
that does it, at a reading of the clock that is past. Every property is proved from
those:

- `LeasesAreExclusive`: `Spec => []LeaseExclusive`. A lease is taken over only when
  it had run out at a reading that is past, so it has run out now.
- `LeasedStaysFunded`, `LeasedIsNotReleased`: `Spec => LeaseProtectsFunding`,
  `Spec => LeaseDefersRelease`. A lease that is live now was live at every
  reading of the clock a statement may still carry (`LiveAtReadings`).
- `GrantsFitThePlan`: `Spec => SubscriptionQuotaOnGrant`.
- `RefundsStop`: `Spec => []RefundStopsReservations`. No statement funds a row from a
  purchase or period that is refunded, and the webhook, however often it dies, has
  statements left for as long as it has stopped none.
- `OnlyRenewalRevives`: the only step that makes a released key hold its allowance
  again is the last statement of a renewal that does not resume the page. It
  assumes nothing, and says that the finding `export_renewal` has no second cause.
- `ReleasedStaysReleased`: `Spec => []ReleasedKeyStaysReleased`, where every renewal
  resumes (`ResumeModes \subseteq {TRUE}`, as in the `release` run).

*`MeteredAiProofs`.* One Worker's step changes one request and one action, and what it
may change is one of four things: it begins, goes on, ends or delivers a request
(`Begins`, `GoesOn`, `Ends`, `Delivers`). `IInv` is proved from those alone: the
tables are sound (`TablesOK`: an action that does not exist has transcribed nothing,
one that does is within its attempts, and what is current lapses with its
reservation), a result is on its way only from an action that succeeded
(`ResultsAreCounted`), and what was delivered together with what the Workers still
carry is no more than what was recorded (`TranscriptsAreRecorded`, a sum over the
Workers). Without the last two the properties are not inductive: the page is
answered several steps after the success is stored. Theorems: `Invariant`, `Types`
(`TypeOK`), `EntitlementsHold` (`EntitlementWithinLimit`), `AnswersCount`
(`AnswersAreCounted`), `TranscriptsFit` (`TranscribedWithinSource`) and
`SuccessIsForGood`, that no step takes a success back. The run's clock stops where the
lifetime of a reservation ends (`MaxTime = Lifetime`), so that none lapses in it; the
proofs cover what comes after.

*`StripeLedgerProofs`.* `IInv` says what the lock, the claims and the leases protect. An event
tells of something that Stripe keeps for good (`EventsAreTold`). The books are behind
Stripe (`BooksAreBehind`). A handler serves an event of the kind its step is for; for as long as it holds
the lease (`HoldsLease`) what it read is not older than the row it will
write, unless the row itself was written late; what it read of a purchase is not older than the purchase for as long as its
claim stands (`RequestsAreServed`). The lock of the monthly checkout is that of the
checkout in progress and of the session that could still be paid, and neither is there
beside a contract (`CheckoutsAreLocked`). Steps are sorted by whose they are: Stripe's
only add events and let versions grow (`Later`), which leaves every request served
(`OthersServed`); a Worker's step leaves what the others claim and lease (`Leaves`);
time may take a claim or a lease from a handler that works on, and what was said of that
handler's reading is then said no more.

- `TablesHold`: `Spec => []TypeOK`.
- `CustomersHaveOneContract`: `Spec => []OneMonthlyContract`. A handler drops the
  lock only of a session that was paid or has expired (lemma `HandlersLock`), so the
  lock of a session that is open, or about to be, stays.
- `PaymentsAreAnnouncedOnce`: `Spec => []AnnouncedOnce`.
- `BooksGoForward`: `Spec => BooksNeverGoBack`. A purchase goes forward by the guard of its
  write, which asks for the claim. A subscription goes forward under the lease; a
  handler that outlived it puts its row into `late`, and the next refresh under a lease takes
  it out again.

One assumption about time remains that no guard of the code makes: that the lock of a
checkout (32 minutes) outlives its session (31 minutes). `OneMonthlyContract` rests on it.

*`AccountsProofs`.* The five components of `MCAccounts`, each with an invariant of its own;
`AccountsIInv` is their conjunction, and a component rests while another moves (the
lemmas named `...Rests`).

- `OperatorIInv`: no more codes are compared than the window counted, so a request
  that is past the look at the block was let in below the limit (`GuessesAreBounded`
  counts the terminals still at it), and a slot is taken below the cap or from a
  terminal that gives it up (`SlotsBounded`).
- `DeletionIInv`: a request that an executor works on is claimed by it and by no
  other (`WorkedOn`); what each of its steps has ruled out is still so
  at the next (`RunSound`): no contract since `AskStripe`, no bytes in time since
  `RemoveMedia`. The steps of the customer leave that standing because a claimed
  request opens no checkout and makes what is uploaded late.
- `TrialIInv`: a video has an owner from its reservation on, what fits where it goes is
  moved reserved and the rest released (`TrialMoves`), and what is reserved by a request
  that began before the binding is late. The sums of seconds are those of `SumProofs`
  (`FewerFit`).
- `SessionsIInv`: what belongs to anybody belongs to an open account
  (`CredentialSound`); a session is of an open account that has a credential, and of the
  owner of its passkey if it still has one (`SessionSound`); a passkey whose sessions
  were purged is removed, and nobody came by it since (`PurgeSound`); what a removal
  has still to sign out is sessions of the account that removed (`RowSound`). It needs
  that a statement looks again at the credential (`MaySignIn`): with the answer's look
  alone (`MaySignInAsRead`) the proof fails, as it does without the count of what
  remains (`KeepsAWayIn`).
- `GateIInv`: a dialog that is settled is closed, and a closed one has no attempt.

Theorems: `AccountsInvariant`; `AccountsTypes` (`AccountsTypeOK`), `NothingIsLeft`
(`NothingLeftBehind`), `WaysInHold` (`WaysIn`), `GateBlocksForItsAttempt`
(`BlockedByItsAttempt`); and the action properties of `NothingOnStaleGrounds`
(`GroundsAreFresh`): `SettledWhenDeleted` and `SignedOutSteps` say them of one step.
The instance of the run has two or three of everything; the theorems have any sets,
caps and windows (`AccountsAssumption`).

*`WorkspaceProofs`.* The six components of `Workspace`, each with an inductive invariant in
its own module; `KeepingIInv` is their conjunction (`KeepingIInvHolds`). For each the
section shows that it holds at first (`...Begins`), that every action keeps it
(`...GoesOn`) and that it says what the run checks (`...Stands`).

- `TransferIInv`: what is joined is what was recorded, until a removal; a completion
  holds the etags that are recorded as long as no removal was asked for
  (`JoinsTheRecorded`), although a claim that is taken over brings new ones; and a removal
  acts on what it saw, unless a completion crossed it (`RemovesWhatItSaw`).
- `CallbackIInv`: a post that took its attempt is the only one that holds it, and the first
  to tell of it (`TakesItsAttempt`); what the checks before the calls to the provider
  found of the session is still so at the end (`ProvedItsSession`).
- `DurableIInv`: an id is saved before any record of it is there (`SavesAnew`); what a
  tab read of a record is still where the bytes are (`ReadsTheRecord`), and two tabs
  at one id agree on where that is (`Agree`).
- `SettingsIInv`: whose each choice is, in the page, in what it reads, in what it sends
  and in both copies (`ShowsItsOwn`, `ReadSound`, `WireSound`, `RowsSound`,
  `LocalSound`), each under the history variable that records the place where the code
  lets it be otherwise; and an edit waits for its timer, is on its way or has arrived
  (`EditsOnTheWay`).
- `PagesIInv`: of any two lists of deployments seen by any two runs one is within the
  other (`InOneOrder`), because what was listed stays listed; a run's list has all its own
  deployments, unless lists are late (`RunLooks`); and what a run may take production
  back from is up already (`RunKnows`).
- `SchedulerIInv`: a version alone in a deployment is of its run's making until
  that run has found its own (`DeploymentSound`), what a run replaces is of a run that found its
  own (`RunSound`), and a Cron out of place was left so by a person or is going to be
  put back by a run in recovery (`CronAccounted`).

Theorems, of every set of parts, requests, tabs, posts, accounts, releases and runs:
`StoredOnce` (`StoredWholeAndOnce`), `ReleasesHold` (`ReleasesAreSafe`) and
`ConcludedForWhoBegan` (`ConcludedAsBegun`), of `KeepingSpec`.

*`PageReservationsProofs`.* The three pages in the same way; `ReservedIInv`
(`ReservedIInvHolds`).

- `EditingIInv` has two parts. `EdCore` holds in any case: a run is aborted exactly when it
  is not the page's own any more (`RunCounts`), and for every held reservation
  there is somebody who answers: a release on its way, the page that will confirm or release
  it, a run, a purchase check, or the record of a place where the code forgets it
  (`Accounted`). `EdTidy` holds until a choice for a silent video goes astray (`Orderly`):
  the run that is the page's own works on the reservation that the page shows (`RunSound`),
  what was reserved and not told of yet is nobody else's (`Untold`), an export that is not
  the page's own has nothing of what the page shows (`ExportSound`), and a choice under
  way is about the video whose panel offered it (`ChoiceSound`).
- `MixIInv`: what the page holds, what its work is about and what waits for its confirmation are
  one reservation, and a key that is kept is its own or a stray's (`OneInUse`); what the
  head of the queue has been answered is still so (`HeadSound`), since
  everything that could change it waits behind it in line; what is encoded is paid and
  what is handed over is confirmed (`LeaseSound`); and every held one is known (`Known`).
- `ReelIInv`: a reel is exported, kept aside or shown, never two of these, and its key is the
  one kept (`OneReel`); what is held has the key the page keeps, unless the
  module's history variable names the place, and a key that paid belongs to the reel kept
  aside (`KeysAreKnown`), which is what keeps it from being used again.

`ReservationsHold`: `ReservingSpec => []ReservationsAreAccountedFor`, of any number of runs,
generations, reservations, keys, photos, exports and lost answers.

The inductive invariants were checked by TLC on small instances before they were
proved; `IInv` of `MeteredAi` also on one whose clock passes the lifetime.

*Only model-checked*: `PlayedAndWrittenWhole` and `PlansAreSound` of the `workspace` run. The second
says what recursive functions (the cut plan, the composition, the captions, the beats)
compute for every input, and so does the part of the first that is about
the joined export and about the pieces of a large sound: an induction over data.
*Out of the prover's reach*: that, unless a smallest counterexample can be found for
it as for the sums, and liveness under fairness and ENABLED (`FollowsStripe`,
`DueDeletionHappens`, `NeverStuck`, and with it `NothingHangs`).

## Findings

Two have a run of their own.

**An AI call charges a paid video that was not saved** (`preview_charged`).
`settleExpiredUsageReservations` documents that "A paid video allowance is
completed only by the explicit save/export confirmation; merely generating a
preview must never consume it." `blockObservedDuration`, which runs when a
transcript is longer than the declared source or cannot be measured, sets any
reserved row to `completed`, whatever pays for it. It may well be intended as a
guard against understated durations; the comment does not allow for it.

**An export renewal revives a released key** (`export_renewal`). The test "export
renewal cannot revive a paid reservation when release wins after the initial read"
and the comment "Export renewals do neither, so a release ordered before this
batch wins" cover a row that is still current when the renewal reads it. When the
row has just lapsed, the renewal settles it to `released` itself; a release that
arrives next records its intent but marks reserved rows only; the renewal then
funds the row anew, because the reactivation looks at `release_requested_at` and
not at the intents. The result is a reservation that nobody uses until it lapses
or its key is reserved again, when the intent is applied. In the `release`
run, where every renewal resumes its page, the property holds.

Four are disagreements of a comment with the code that the models take as the code
has it. **The joined video's key is cleared late**: a comment of
`video-mix-client.tsx` says that a page hidden during a confirmation cannot release
the reservation; only the reservation's reference is cleared before, its key
(2338) after the answer, and the beacon carries the key. **A promoted trial's cookie
can name a trial again**: a refresh that overlaps a logout inserts the row of
`revokeTrialSession` anew, without its account (`trial-session-store.ts` 383).
**A stalled refresh can overwrite a newer one**: the comment of the subscription's lease
(`billing-store.ts` 404) says that it keeps a slower stale refresh from committing after a
newer one. It does so for 120 seconds; the requests to Stripe it covers have no timeout,
and `upsertSubscription` (2163) writes without asking for the token. `StripeLedger` has the
step and records what was so written in `late`; without the exception
`BooksNeverGoBack` and `FollowsStripe` have counterexamples. **A word that was cut may be
heard**: a comment of `edit-plan.ts` (313) says that a range is given a little quiet room; the
words it is measured against (351) are those of removed captions too, so a removed word that
touches a kept range pulls the range over itself. `EditPlan` has the rule (`Touching`), and
`CutIsNotHeard` is about all other words.

While the modules were written the following were noticed. They are kept out of the
properties by a history variable or an assumption that the module names, or lie
outside the models; none has a run, and whether each matters is for those who know
the product. Lines are of the file named last.

*Server*

- `lib/account-deletion-executor.ts`: the requests that can never be settled are
  looked at first, so more of them than a batch holds starve the later ones
  (273–284; `DueDeletionHappens` takes a batch that holds all); an upload aborted in
  a batch that failed makes the next one fail if R2 refuses to abort it twice
  (768–781; `AbortIsRepeatable`); the deletes of the last batch are not themselves
  conditioned on the token (787–947).
- `lib/transfers.ts`: a removal that read `uploading` while a completion publishes
  leaves the object (`MediaTransfer`, `crossed`).
- `lib/billing-store.ts`: a refund of the current period that fails at Stripe makes
  `setSubscriptionPeriodRevocationState` throw at every delivery (2292–2312);
  the only use of an initial narration is consumed before an insert that
  may fail (2960–); an export run again after a paid one finds its reservation
  completed (1207–1212) and ends in 404.
- `lib/oidc-auth.ts`: two attempts with one provider share the state cookie
  (696–731), so the cookie of the later one displaces the earlier's.
- `lib/operator-enrollment-throttle.ts`: a failure written after the window ended
  lifts a block that still runs (92–105).
- `api/transcribe/route.ts`: `cleanup()` runs when the headers have come (334–336),
  so the body is read with neither limit nor signal; a refinement whose body is not
  JSON loses the timed transcript.

*Release tools*

- With late lists (`PagesRelease`, `Lag`) a release reports "previous production was restored"
  and the deployment that was not listed yet goes live; a rollback after the last
  look can displace another's deployment. After an automatic rollback of the
  scheduler the live id differs from the manifest's, so that the next release is
  refused (`scripts/release-preflight.mjs` 869).

*Pages*

- `app/page.tsx`, runs (`EditingPage`, `forgotten`, `late`): continuations that do
  not look at the generation (1800–1868, 2622–2633, 3313–3320, 3436–3465, 3845–3880,
  3987, 4310–4314); the two choices for a silent video (3244–3276) stay offered while the
  first is under way and look at nothing when they are answered: a late answer of the
  release wipes the reservation of a newer video, and a late one of the
  confirmation shows the result, without a transcript, whatever the page shows; both
  chosen, the reservation shown as used may have been released; the crossfade of the preview is tied to no operation
  (8066–8120; `PreviewPlayer`, `overtaken`); `previewPlaybackReadyRef` stays true (8145–8148, 8189–8195);
  `chooseFile` keeps the transcript.
- `app/page.tsx`, export (`PageExport`): a confirmation that fails inside
  the portable attempt (9518) is caught at 9527, recorded again and settled again;
  `waitForRangeEnd` (9916) goes on after a refused `play()`.
- `app/page.tsx`, usual finish (`PersonalPreferences`, `unruly`): an aborted PUT that is handled after its successor leaves the older
  settings (2556–2559); edits made before the GET has answered write defaults over
  the rest (2465–2470, 2508); a GET answered during the demonstration is followed by
  defaults that are saved (2465, 3889–3895); `chooseFile` works with the settings of
  the render before its `await` (2846, 2893–2903); an account changed by another tab
  receives the settings of the first (2510–2554).
- `app/page.tsx`, large videos (`LargeTranscription`, `restarts`): a failure in the
  middle of a pass starts over under the same `aiOperationId` (788–806), and the
  seconds observed then exceed the source; the copied pieces of a sound that begins
  late overlap (`lib/transcription-media.ts` 400–411); a silent video is a result on
  one path and an error on the other.
- `app/video-mix/video-mix-client.tsx` (`MixReservation`, `strays`): the recovery
  effect overwrites the active reservation (1738–1792); `retryFinalize` renews
  outside the lock (4385).
- `app/photo-reel/photo-reel-client.tsx` (`PhotoReelPage`, `forgotten`): an export keeps
  the key of the attempt before (985–993), whose reservation may be settled, and the
  finished reel then stays unconfirmed; a changed length under a kept key is refused
  and the held reservation forgotten (994–998); a discard drops the key although the
  release failed (1046–1050); a page closed while the confirmation is under way
  loses a paid file.
- Account page: answers of `loadStatus` may come out of order.

*Libraries of the browser*

- `lib/edit-plan.ts`: snapping to timed silences (319–400) may exceed the planned length,
  which is measured before it.
- `lib/captions.ts`: `splitCaptionText` leaves crumbs when the longest line is
  shorter than twice the shortest piece.
- `lib/video-mix-export.ts`: under a blend the automation makes calls `AudioParam`
  refuses (886–985; `astray`); inputs that throw between their creation and their list are
  never disposed (1400–1404, 1703–1724).
- `lib/portable-video-export.ts`: an abort before the `try` at 1711 leaves a decoded
  sample open (`leftOpen`); a missing sample draws a black frame (1744); an abort while sound is
  decoded is reported as an error of the sound (1408–1430).
- `lib/photo-reel-export.ts`: a rejected promise of the encoder's registration is
  kept for good (200); a page already hidden when a recording starts is noticed only
  by the rate of its packets (672–673; `unseen`).
- `lib/client-video-mix-output.ts`: a record marked completed by two transactions can
  bring a deleted one back (286–296; `DurableOutput`, `revived`); a crash between the
  file and its record leaves a file no clean-up finds (380–391;
  `leaked`).

## What is not modelled

- Rate limits, caption profiles, analytics, health and static pages: one statement
  or write each, with nothing read before, or no state of their own.
- Of the reservations: rows whose bucket is `one_time` without a purchase (from
  before purchases were assigned) and their ranking by age; purchases of several
  credits; the check for an account deletion at the start of reserving and renewing;
  the refund of a period that is no longer the current one;
  `releaseOrCompleteUsageReservation`, which nothing but tests calls.
- Of the metered actions: the confirmation of the AI disclosure.
- Of the accounts: renaming a passkey, the record of a recovery request, the counters
  of device-bound passkeys, audit rows and purges of expired rows.
- Codecs, pixels, sound levels, prompts, wording and layout; the ranking of equal
  candidates; cryptography and the verification of tokens, which is one yes or no.
- The drafts the pages keep in IndexedDB, and what `release-preflight` checks of
  files and configuration.
- Interactions between components that are modelled apart: a deletion, a transfer or
  a webhook acts on the rows its own module has, and what it does to reservations is
  in `UsageReservation` only for the webhooks.

`PROJECT.json` ("components", "hazards") says the same component by component, and
names the hazards no property covers with the reason.

## Plan

What is left, in this order:

1. Inductive invariants of the components of `PlayedAndWrittenWhole` that compute nothing by
   recursion: `PreviewPlayer`, `PortableExport`, `PageExport`, `PhotoReelExport`,
   `SpeechSession`, `TranscriptionCall`.
2. `UsageReservation` with a deletion and with the binding of a trial as further
   actors; the disclosure of AI use; an instance that reaches `MaxIntents`.
