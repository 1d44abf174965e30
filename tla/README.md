# firewall-live-log: a TLA+ verification project

firewall-live-log is one Python process that receives syslog datagrams from
firewalls, stores the parsed events in SQLite and serves a dashboard. This
directory holds TLA+ models of its concurrent and stateful parts, the TLC
configurations that check them on small instances, and proofs checked by TLAPS.

`PROJECT.json` maps every definition to the source lines it stands for and lists
the runs, the mutants, the findings, the hazards and the theorems. To check a
model: `tlc -config Listener.cfg Listener`; to check a proof:
`tlapm ListenerProofs.tla`. Every safety property that a passing run checks on a small
instance is also proved for all values of the constants.

## 1. Inventory

| part (source) | state | operations | interacts with | what is hard | what makes it correct |
|---|---|---|---|---|---|
| Source filter and resolver thread (`app/sources.py`) | `allowed`, `generation`, addresses per name, retry count, `_kicked` | `resolve_all`, `trigger`, `allows`, `_next_interval`, the wait | listeners read it without a lock and trigger it | two unlocked assignments; a trigger that comes during a round; failing lookups | no trigger lost, known addresses survive, nobody admitted by an empty list, convergence |
| Listener threads (`app/listener.py`) | the remembered generation, the held deque, the datagram in hand | `run`, `_ingest`, `_replay`, `_Held` | filter, queue, shared drop counters | check then act against the resolver; buffers at their limit; counters corrected after the fact | no held datagram is stranded, each datagram counted once |
| Writer thread (`app/writer.py`, `store.py` write side) | two buffers, statistics, transaction | record, flush, prune, final drain | queue, counters, database; main watches it | errors and crashes between any two statements | committed counters agree with rows; a clean stop loses nothing; a dead writer ends the process |
| Process (`app/main.py`) | `stop_event`, threads | start, watch, stop, `_bootstrap_admin`, `_reset_admin` | all | shutdown order | see writer and accounts |
| Read queries (`app/store.py`) | the client's cursor or resume point | `query_range`, `query_live` | the writer commits and prunes between statements | several snapshots per request; ids not in time order; scan caps | no row lost, none twice, paging ends |
| Accounts, sessions, 2FA, reset links (`app/auth.py`, handlers of `app/webserver.py`) | tables `users`, `sessions`, `totp_pending`, `totp_logins`, `password_resets` | sign-in, user administration, 2FA set-up and removal, reset links | request threads; the auth lock covers single blocks only | what was read before the lock is stale after it; crashes between two blocks | always an admin; links single-use; sessions of a 2FA account passed it |
| Lockout (`app/auth.py`) | `login_attempts` | look at three tiers, record, clear | sign-in, code step, re-authentication | the hash runs between the look and the record | the tiers hold up to the requests in flight; a password buys no code guesses |
| Second factor (`app/auth.py`) | secret, last step, recovery codes, `totp_logins` | set-up, confirm, finish, verify, disable, renew | handlers, admin reset | codes are compared on what was read before the lock | a token is good for so many guesses; a recovery code works once; codes fit the account |
| Reset limits (`app/auth.py`, `app/webserver.py`) | `password_resets`, `reset_attempts` | count, create, submit, use, prune | background workers, hourly prune | count and insert are two blocks; prune deletes what is counted | links and submissions within the limits |
| Session deadlines (`app/auth.py`) | `sessions.expires_at` | create, look up, touch, sign out, prune | every request | the clock is read before the lock | a session ends when the latest activity says, and stays ended |
| API keys (`app/auth.py`) | `api_keys` | create, verify, delete | request threads | stale clocks, the cap | the cap holds; last-used trails the latest use by under a minute |
| HTTP server (`app/webserver.py`) | connection slots, forgot slots, completed-minutes cache | accept, serve, statistics, CSV export | store, auth | threads that do not start; late rows | slots are a pool; the cache is at most a minute behind; an export is complete |
| Layout (`app/layout.py`) | `layout.json`, a copy in memory | load, validate, save, resolve | HTTP server | a kill or a failing write in the middle of a save | a durable register; every device shown once |
| Geo (`app/geo.py`, `scripts/build_geo.py`) | tables, cache | compile, lazy load, look up | request threads | look-ups during the load; overlapping delegations | each answer is the delegation's |
| Dashboard client (`app/static/*.html`) | cursor, `fetchGen`, in-flight flags | polling, paging | the API | late answers | its paging and polling loops are the environment of History and LiveTail |
| Parsers, mailer, config, entry point, health check | none of their own | pure functions and one-shot I/O | | regular expressions and I/O, not interleavings | not modelled |

## 2. The modules

    StopEvent -+- Sources --+- Listener -- ListenerProofs
               +- Pipeline -+      |             |
               |            +- Writer            |
               |                   |             |
               +----- Collector = Listener + Writer -- CollectorProofs
               +----- Background = Sources | Writer

    Events -+- History  -- HistoryProofs
            +- LiveTail -- LiveTailProofs

    Requests -+- Accounts -+- MCAccounts
              |            +- AccountsProofs
              +- Totp, Lockout, Resets -- SignInProofs
              +- Sessions, ApiKeys, Geo, Stats        |
              +- Layout  (implements Register)        |
              +- Server  (implements Pool)            |
              +- Web = one of the nine above -+- MCWeb|
                                              +- WebProofs

    Tally (used by Listener, Lockout, Resets) -- TallyProofs (used by the others)

* **StopEvent** declares `stop`, the `stop_event` every thread polls.
* **Sources**. The program counter `pcR` is the resolver's place: a lookup per
  name (`LookupOk`, `LookupFail`), `Settle` (the assignments of `resolve_all` up
  to `allowed`), `Bump` (`generation += 1`, a step of its own because nothing
  locks the pair), and the wait (`Wake`, `MonoTick`). `Trigger` is called by a
  listener. `owed`, `answered` and `latest` are history variables.
* **Pipeline**: the bounded queue and the drop counters that threads share.
* **Listener**: one action per access to shared state. `Reread` takes up the
  generation, `Examine` is one turn of `release()`, `Replay` one `_ingest` of a
  released datagram, `Correct` the correction of `rejected`, `Reject` and `Hold`
  the two halves of a rejection. `Take` stands for the writer when it is absent.
* **Writer**: `db` is the committed database, `txn` what the writer's connection
  sees. `WriterError` is any SQLite call that raises; `Crash` and `Restart` are
  those of the process. `Arrive` stands for the listeners when they are absent.
* **Collector** composes Listener and Writer with no stand-in left, and is shown
  to implement the Listener's specification (`ImplementsListeners`).
* **Background** puts Sources and Writer side by side; `part` says which one moves.
* **Events, History, LiveTail**: the table as readers see it, then one action per
  SELECT of `query_range` and `query_live`, with the client's loop around it. In
  History the loop is the client's paging or `_stream_csv`, chosen by `req.csv`.
* **Accounts**: each block under the auth lock is a step, as is each read before
  it. `task[r]` holds what request `r` has read so far (role, must-change flag,
  route): the stale copy that the handler later acts on. `Lapse` is expiry or
  pruning of a row, `Restart` a crash anywhere, `RestartReset` a start with
  ADMIN_RESET. `Routes` limits which handlers an instance offers.
* **Requests** declares the request threads and client addresses.
* **Tally**: SELECT COUNT over a table that keeps the number of alike rows under a
  key, and every other sum over a finite set, as the size of a set of rows rather
  than by recursion, so that the provers can reason about it.
* **Lockout**: failed attempts counted by pair and age. `Attempt` is the look at
  the tiers, `RecordFailure` and `RecordSuccess` the block after the hash; a task
  grows older with the clock, so a slow request records under an old time.
* **Totp**: one account's second factor. `CodeRead` and `VerifyRead` are the
  locked look-ups, `ConsumeCode`, `ConsumeRecovery`, `ConsumeNothing` the three
  outcomes of `_consume_second_factor`, `CodeRecord`, `Disable`, `Renew` what the
  handler does next. A code is its secret and step, or its set and place.
  `missed` and `crossed` are the history of requests that cross an acceptance.
* **Resets**: links and submissions by age; `CountLinks` and `CreateLink` are the
  two blocks of `_process_forgot`, `SweepResets` is `prune`.
* **Sessions** and **ApiKeys**: the rows with their times. `Arrives`, `TouchRead`,
  `KeyArrives` read the clock, a later step acts on it under the lock.
* **Layout**: file, memory, lock, and one step per system call of a save;
  `WriteFails`, `Kill`, `Start` are its faults. **Register** is the abstract
  specification: a write takes effect at one moment (here `os.replace`) or never.
* **Server**: the two semaphores. **Pool** is the abstract specification of
  either: permits go from free to held and back.
* **Geo**: `Compile` is build_geo.py's sort and overlap rule, `Resolve` the
  bisection, the rest the lazy load and cache under `_LOCK`.
* **Stats**: `_stats` with the clock, the SELECTs and the cache as steps between
  which the writer commits late rows and prunes.
* **Web** chooses one of these nine (`part`) and lets it move while the others
  rest. This checks each by itself, in one run: a module is a view of the tables
  its properties are about, and what other views do to the same table (a session
  deleted by a password change, 2FA turned off by an admin) is an action of the
  view itself (`SignOut`, `AdminDisable`, `ClearLockout`, `UseLink`), possible at
  any moment. Nothing in one view reads the state of another, so letting two move
  at once would add interleavings but no new behaviour of either.

Abstractions. A datagram's text is its parse result (event, unparsed firewall
line, host syslog, line too long). A row keeps its id, its time and its device,
or whether the filter matches. Passwords and TOTP secrets have no value: a wrong
one is a refusal (Totp tells codes apart by what they were made from). Tokens are numbers that never repeat. Time is a bounded count
where the code compares times, otherwise "may happen now".

## 3. What the runs show

| run | question | answer |
|---|---|---|
| background | does the resolver lose a trigger, forget addresses or stall; do committed counters and rows agree wherever the writer crashes; does a clean stop drain the queue; does a dead writer end the process; is what is queued committed? | none of these; yes to the rest |
| listener | can the resolver's two assignments strand a held datagram; are the counters exact with expiry, a full queue and a changing name; does an unresolved list stay closed? | none is stranded, the books balance, it fails closed |
| listener_two | are the counters exact with two listeners correcting them; is a held datagram of an allowed sender replayed? | yes |
| collector | is every datagram accounted for from socket to row; is `Take` a sound view of the writer? | yes |
| history | does paging, or a CSV export, return every row that stays, once, and end, while rows come and go? | yes, while the id/time skew is within the margin |
| live_tail | does the poll work off bursts without sending a row again? | yes |
| accounts | is there always an admin; can an id be reused by a later account; is a reset link single-use, and only the newest valid? | always; never; yes |
| web, lockout | do the tiers hold with look and record apart; can a known password reset the count of code guesses? | up to one more per request in flight; no |
| web, totp | is a recovery code good once, a sign-in token good for its guesses, a TOTP code spent for good unless requests cross; do the codes fit the account? | yes |
| web, resets | do links and submissions stay within their limits between sweeps? | yes |
| web, sessions | is a session's deadline what its latest activity earned, and a refused one refused for good? | yes |
| web, keys | does the last-used time stay within a minute of the latest use? | yes |
| web, layout | is the store a durable register through kills and failed writes; is each device shown once? | yes |
| web, geo | is each answer, cached or not, what the delegations say? | yes |
| web, stats | are the cached bars at most a minute behind? | yes |
| web, server | are slots neither lost nor given back twice? | yes; but a worker that cannot be started keeps its slot |

Four runs expect a violation; each is a finding of `PROJECT.json`:

* **live_tail_skip**: an empty first poll takes its cursor from a second SELECT.
  A row committed between the two is never sent.
* **accounts_second_factor**: a sign-in that read the account before 2FA was
  turned on creates its session after the others were revoked.
* **accounts_gates**: with AUTH_REQUIRE_TOTP covering an account that must change
  its password and has no second factor, each gate refuses the route that would
  satisfy the other.
* **reset_limit**: `create_reset_token` marks the account's earlier links used and
  `prune` deletes used links, which are those `recent_reset_count` counts: after
  the hourly sweep the account is mailed links beyond RESET_MAX_PER_USER.

Observations that have no run of their own:

* `query_range` takes its id floor from the earliest row of the range less
  WINDOW_ID_MARGIN. A held datagram replayed after more than that many newer rows
  is the earliest row with a high id, and older ids of the range are left out:
  History.cfg with `Skew` above `Margin` violates `Complete`.
* The last TOTP step is read before the comparison and not looked at again
  (auth.py:719-726). Two requests that cross can both be let in with the same code,
  or set the last step back, so that the later of two codes works again for a third
  request that crosses nobody. `OnceInTurn` says that this is the only way: a code
  accepted twice is one that an accepted request had `missed` (it read before the
  acceptance and wrote after it), which makes it `crossed`. A finish under way when
  2FA is set up anew is judged by the old secret.
* If `Thread.start()` raises in `_handle_forgot_password`, the slot is never given
  back (`leaked` in Server); after eight of these no reset mail is sent.
* `_completed_minutes` says the buckets "can't change any more"; a replayed
  datagram does change them, and the card shows it up to a minute late
  (`BarsFresh`).
* The lockout window is inclusive (`ts >= now - LOCKOUT_WINDOW_SEC`), so a caller
  who comes back exactly after Retry-After seconds is still locked.
* `record()` assigns `last_seen` unconditionally (writer.py:42), so a replayed
  datagram can set a device's last-seen time back.
* A crash between `totp_confirm` and `revoke_other_sessions` (webserver.py:1035-1038)
  leaves the account's other sessions signed in, as accounts_second_factor shows
  without a crash. `totp_disable` goes by the role its request was authorised with:
  an account promoted meanwhile loses a factor it now must have, and is asked to
  set it up again.
* A truncated table file makes gzip raise EOFError, which `_load` does not catch;
  the model's unreadable tables are missing ones (OSError).

### Bounds

* Sources: two names and two addresses, one DNS change, three failed lookups
  (enough for one name to fail while the other succeeds, and for the doubling to
  meet its cap of three ticks).
* Listener: one device with three datagrams, room for two held and one queued,
  one wall-clock tick and HeldTtl 0, so datagrams expire, are pushed out and are
  dropped at a full queue. Two devices where the counters are shared. Texts are
  spread over the runs: the branch of `_ingest` does not depend on the filter.
  In `listener_two` the wall clock stands still and the buffer is large enough:
  expiry and overflow are the other ways out of the buffer, and HeldReplayed is
  about the replay.
* Background: for the resolver the bounds of Sources, for the writer a batch of two and three items for two devices: flushes by size and by
  time, a partial batch at a crash; one restart; caps of one row, so that pruning
  deletes.
* Collector: one device, two datagrams, one sender that is literal and one behind
  a name, so that both the direct path and the replay meet the writer.
* History, LiveTail: up to five rows, pages of two, a table cap below the number
  of rows, spans and margins of two: pages end by limit, by cap and by exhaustion.
  An export has pages of two and a limit of three, so it ends by its limit in the
  middle of a page as well. Margin 2 stands for WINDOW_ID_MARGIN = 10 000; what
  counts is Skew <= Margin.
* Accounts: two concurrent requests (each hazard is a pair: one acts on what the
  other changed), two accounts, two tokens (`MaxFresh`: sessions, pending sign-ins
  and links together), every route. Threads are symmetric. AtLeastOneAdmin is
  also proved for any number of each.
* Web: two request threads and two addresses, since every hazard is a pair of
  requests. Lockout: thresholds 2, 3, 3 and a window of two ticks, so that each of
  the three tiers is the one that locks. Totp: two steps, secrets and sets, one
  token with one guess (two requests carry it at once). Resets: two links per account
  and one per address, so that each of the two limits is met first somewhere, links
  that expire before the window ends, as in the code. Sessions: an idle time below the absolute one, and a clock that runs past both. ApiKeys: a
  cap of one. Layout: two devices, two categories of two, every file content,
  a damaged one included. Geo: two delegations of any overlap over three addresses. Stats:
  two bars of two ticks, rows up to two ticks late. Server: two slots of each kind.
  Behaviours end where secrets, keys or clocks run out, so deadlock is not checked
  there. Threads and addresses are symmetric.
* ResetLimit: one background thread, to show that no race is needed.

### Fairness

Weak fairness of the resolver and each listener (threads the interpreter
schedules) and of the monotonic clock; failed lookups are finitely many
(`MaxFaults`), since no retry helps with a name that never resolves. For
Background's writer weak fairness of the writer's and main's steps, and strong fairness
of `FlushDue`: the flush interval passes, but the test for it is reached again
and again rather than standing enabled. No fairness of arrivals, errors, crashes,
restarts, the wall clock, or DNS changes. In LiveTail weak fairness of the
client's polls and the server's answers. History needs none: `Descends` bounds
the number of pages whatever the client does.

## 4. What is proved

For every value of the constants, from the named assumptions only. The assumptions
say that sets the code keeps in memory or configuration are finite (threads,
addresses, devices, names, owners, families, countries), that limits are numbers, positive
where the code needs them so, that `sources.py`'s times are ordered as its
constants are, that reset links expire within the rate-limit window, and that the
marks for "no lock holder" are no thread. The bounds that keep TLC's instances
small (`MaxPuts`, `MaxRestarts`, ...) are numbers like any other in the proofs.

Each proof module states the types of what the threads hold, an inductive
invariant, one lemma per group of actions, and the theorems. What the invariants
add, and why the property alone is not inductive:

**ListenerProofs** (resolver and listeners)
* `TypeCorrect` (`ListenerTypeOK`), `NoStrandedDatagram` (`NotStranded`). NotStranded
  speaks of the held deque only; a rejected datagram is in the listener's hands
  between the decision and the append, and in `keep` while a release goes on. `IInv`
  says of each of the three places: if the sender is allowed then the remembered
  generation is out of date or `Bump` is the resolver's next step. The argument is
  the order of two pairs of statements: the resolver writes `allowed` and then
  `generation`, the listener reads `generation` and then `allowed`.
* `RoundsAgree`, the safety part of `ResolverConverges`: unless a name changes its
  address while a round runs, a round without a failed lookup leaves `allowed` with all
  that the DNS says. That rounds keep coming, and their failures end, is the liveness
  part that TLC checks.
* `NoTriggerIsLost`, `AddressesAreKept`: over `FilterSpec`, where any thread may
  trigger at any time. The invariant `NeverForgets` compares the resolver's tables
  with the history variable `latest`, the answer of each name's last successful
  lookup: but for the names already asked in the round now running, each name keeps
  all of it, and `allowed` is the literal addresses and all that the names keep. The
  theorem adds that a list with an address in it never becomes empty. `FilterInv` ties `allowed` to the
  addresses kept, and those to what the DNS once answered.
* `OnlyKnownSenders` (`FailClosed`): what a listener is about to ingest, or has
  released, also came from a known address (`EntryInv`).
* `LedgerBalances` (`Ledger`): for any number of listeners on the shared counters.
  `BooksInv` adds that what all listeners still owe `rejected` (what they hold, look
  through, have released or have ingested without correcting yet) is no more than
  `rejected`, so that the correction's `max(0, ...)` never clips.

**CollectorProofs** (writer, and the path from socket to row)
* `CountersMatchRows` (`Books`), `StopsClean` (`CleanStop`), `NothingUnaccounted`
  (`Conserved`), `WriterTypes`: over `WriterSpec`, with an error, a kill or a restart
  between any two statements. `WriterInv` says what each point of `writer.run` leaves
  in the buffers, in the queue and in the transaction (`WriterFlow`), and that the
  counters it will publish are its own view of the tables plus the buffered events
  (`WriterBooks`).
* `CollectorImplementsListeners`: every step of resolver, listeners, writer and main
  together is a step of `ListenersSpec` or a stutter; the writer's `Get` and drain are
  its `Take`. So `NotStranded`, `Ledger` and the rest hold of the whole collector, and
  with `Conserved` give `SocketToTable` (`EndToEnd`).

**HistoryProofs** and **LiveTailProofs** (the queries, with the writer committing and
pruning between any two statements, for any page, span and table)
* `PagesAreApart` (`NoRepeat`), `ResumesLower` (`Descends`): all that was shown is at or
  above the resume point (`PagingInv`). They need no order of the rows.
* `NothingIsMissed`: `Skew <= Margin => (Spec => []Complete)`. `FoundInv` says that a row
  still awaited is within every bound the next SELECT will use. The hypothesis is
  the condition under which store.py means its margin to be exact: no row trails a
  later receive time by more than WINDOW_ID_MARGIN ids. Without it `Complete` is false
  (see the observations above), so it cannot be dropped; the run has Skew = Margin.
* `NothingIsResent` (`NoResend`). `SkipsOnlyAtTheStart`: the behaviours of
  live_tail_skip are the only ones that skip a row. If no row is committed between
  the first SELECT and its MAX(id) fallback, `NoSkip` holds for ever after.

**AccountsProofs**
* `SomeAdmin` (`AtLeastOneAdmin`): `set_role` and `delete_user` count admins under the
  lock that covers their update; a set of two or more without one member is not
  empty.
* `NoIdComesBack` (`TypeOK`, with "no row refers to an id still to be given"): ids in a
  request's hands are below `nextId` too, also when their account is gone.
* `LinksWorkOnce` (`ResetOnce`), `LastLinkWorks` (the action property
  `NewestLinkSets`): a link that set a password has no unused row left, no token has
  two rows, and of an account's links only the newest may be unused (`LinksInv`), so
  the look-up after the hash finds nothing when a newer link was made meanwhile.
* `OnlyLateSignIns`: `SecondFactorSessions` is violated (run accounts_second_factor), and
  this says by what alone. If no sign-in that read the account without its second
  factor creates its session after the factor was turned on (`LateSignIn`, the run's
  step), and the process does not end between `totp_confirm` and
  `revoke_other_sessions` (`CutOff`, a second way that came up in the proof), the
  property holds for ever. `SecondInv` adds that nobody holds a token still to be
  handed out, and that the session which completed the set-up is marked before the
  others go.

**SignInProofs**
* `RecoveryCodesOnce`, `RecoveryCodesFit`: no accepted code is among the unused ones, and
  no accepted one is of a set still to be generated (`RecoveryInv`).
* `AttemptsAreBounded` (`TriesBounded`): the row's count covers the codes judged and the
  ones being judged (`TriesInv`), because the attempt is counted before the compare.
* `CodesOnceInTurn` (`OnceInTurn`), for all behaviours, crossing ones included. A code
  that was accepted and is not crossed (`Spent`) has a step no later than the last
  step, or a secret that is not the account's any more, and every request at work has
  read as much unless it missed the code (`KnownTo`). Whoever is accepted turns the
  codes it missed into crossed ones, and its step is later than every spent code of
  its secret that it knew (`TurnInv`).
* `LockoutHolds` (`TiersHold`), `GuessesAreBounded` (`CodeGuessesHold`): the attempts being
  judged count towards the tier; a wrong code stays a failure of the account.
* `ResetLimitsHold` (`LimitsHold`): the workers under way count towards their account
  and their address. Both counts are taken of sets of rows that have all links of an
  account at an address or none (`Whole`), which no use of a link, tick or sweep
  makes larger. The attempts on record are those that were made (`tried`), because
  a sweep's horizon is not below the window.
* `OnlySweepsForget`: the positive half of the finding reset_limit. While `prune` deletes
  no row younger than the window, the mails to an account exceed the limit by no more
  than one for each other worker, and with one worker `MailLimit` holds. `MailsInv` says
  it for every age: the mails of the last n ticks are no more than the rows of that
  age, because a tick turns n - 1 into n on both sides.

**WebProofs**
* `DeadlineIsExact`, `RefusedStaysRefused` (`SessionsInv`: a refused token has no row and
  is never issued again, so a late touch finds nothing); `KeysAreFresh`, with
  `KeysTypeOK` (the cap, and no revoked id given again).
* `ServerImplementsPools` (`SlotsArePools`): free and held permits add up; the refinement
  maps each action to a step of Pool or a stutter.
* `StoreImplementsRegister` (`LayoutDurable`): whoever is between the dump and the
  assignment holds the lock, and memory equals the file whenever nobody is between
  the `os.replace` and the assignment. `OverviewIsComplete` (`ShowsEachOnce`).
* `BarsAreFresh` (`BarsFresh`): the cache is right for its minute, and what is right
  for a minute stays right as rows join and go.
* `AnswersGiven` (`AnswersRight`): every country answered or cached is the delegations'.
  Half of it is the load (`GeoInv`): whoever gets past `_LOADED` finds the tables whole.
  The other half is the data. `Compile` is the set of ranges that solves the loop's
  equation, so it has to be shown that there is one (`LoopEnds`: a smallest set
  of delegations without one would have one without its last range), that what the loop writes is disjoint though it
  compares with the last end only (`TableDisjoint`), that it is therefore the set
  `Taken` of the property (`OneChoice`: two such sets differ first at a range they must
  agree on), and that the bisection finds the one range that covers an address
  (`BisectionFinds`).
* `WebIsSafe`: `WebSpec`, which the run checks, implies each part's specification, and
  so all of the above at once.

**TallyProofs**: lemmas about sizes and sums (a row more, a row less, a row that
moves, sums that agree), least and greatest numbers, intervals.

Only model-checked:
* Liveness (`ResolverConverges`, `HeldReplayed`, `DeadWriterExits`, `EventuallyStored`,
  `CatchesUp`): out of this prover's reach.
* The four findings are refutations; TLC shows the behaviours. Of three of them the
  proofs above show that there is no other way to the violation: `OnlyLateSignIns`,
  `OnlySweepsForget` and `SkipsOnlyAtTheStart`. The fourth
  (`ChangePasswordReachable`) is a contradiction between two tests, whatever the steps.

## 5. Not modelled

* Parsers: regular expressions over text, without state. The listener keeps their
  outcomes (event, unparsed, ignored, too long).
* Mailer, configuration, container entry point, health check: one-shot I/O.
* The dashboard's JavaScript beyond its paging and polling loops: rendering in
  one thread.
* E-mail addresses (`set_email`, `find_user_for_reset`): an account has one or not.
* `_RejectLog` and `warn_untrusted_forward`, which only decide what is printed.
* Cookies, headers, static files, CSRF comparison, hashing: stateless.
* The byte format of the country tables, downloads and flag artwork in
  build_geo.py.
* An OSError of `recvfrom` outside shutdown. The SQL of the filters is reduced to
  whether a row matches.

## 6. Plan

The path of an event (Sources, Listener, Writer, Collector), the queries that show
it (History, LiveTail), the accounts, and the components behind the web server are
modelled, and their safety properties proved. What is left:

1. The safety part of the other liveness arguments, as `RoundsAgree` is for the
   resolver: that a writer with items never waits with the flush overdue, and that main
   never sleeps on once it has seen the writer dead.
2. What the parts modelled partly leave out and that has state: `set_email` with the
   look-up of a reset request by address.
3. When the findings are settled in the code, their runs turn into passing runs, and the
   hypotheses of the three theorems about them go.
