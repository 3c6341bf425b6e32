# TLA+ development of adblock-recovery-sink

This directory holds TLA+ specifications of the service, the TLC
configurations that check them on small instances, and proofs that TLAPS
checks for every value of the constants. Paths and line numbers refer to the
repository; `PROJECT.json` maps every definition that models code to its lines.

## 1. The system

The service answers for host names that a DNS rewrite sends to it. It
terminates TLS with leaf certificates that it issues itself from a private
intermediate CA, serves small scripts by host, path and method, and runs a
second listener for operations.

| Component | State | Operations | What makes it correct |
| --- | --- | --- | --- |
| Issuer (`internal/pki/pki.go`) | CA certificates, leaf validity, map + LRU list of leaves, mutex | `Load`, `GetCertificate`, `Ready`, `CacheLen` | a leaf is for the name asked, valid now, within the CA, renewed in time; map and list agree; the cache is bounded and least-recently-used |
| TLS callback and certificate source (`internal/sink/sink.go`, `cmd/sink/main.go`) | none of its own; failure counters and the cache gauge | one callback per handshake | every handshake is answered, and counted once if it fails; the gauge follows the cache |
| serve (`cmd/sink/main.go`) | listeners, server goroutines, `errCh`, `signalCh`, `draining` | startup, signal, drain, shutdown | a drain refuses nobody, nobody is cut before the timeout, the process ends |
| pki init (`internal/pki/pki.go`) | four files in a directory | `Init`, `writeNew`, `RunInit` | success means a whole set of one's own; other files are never touched; a failure cleans up |
| Host scope (`pki.go`, `sink.go`, `profile.go`, `config.go`) | configured patterns, name constraints, routes | normalise, filter, gate, issue, route | the three matchers agree on a name |
| Request handler and router (`sink.go`, `profile.go`) | routes | `ServeHTTP`, `Match` | the answer is that of the profile |
| Metrics (`internal/metrics/metrics.go`) | counters, two bounded label tables, mutex | `Request`, `SiteRequest`, `UpstreamRequest`, ... | the tables stay within their limits, nothing is lost or counted twice |
| Profiles (`internal/profile/profile.go`) | profiles by name, routes, the bytes of their bodies | two walks of `Load`, `NewRouter`, `AppendJavaScript` | what is served is the bundled set overlaid with the operator's; a script has one toast |
| Ops endpoints (`internal/ops/ops.go`) | none | `/healthz`, `/readyz`, `/status`, `/metrics`, enrollment | what is told was so while it was asked |
| Enrollment pages (`internal/enroll/enroll.go`) | none | `/install`, downloads of the root | a device that enrolled accepts what the sink hands it |
| Configuration (`internal/config/config.go`) | the koanf instance while it is loaded | `Load`, `Validate`, `RequirePKI`, `Routes` | the highest source that sets a key wins; a process that serves has the limits and the material the rest relies on |
| Loader stub and toast (`profiles/adshield`) | the browser's | none in the service | not modelled (section 7) |

Interactions: a handshake passes the gate (`sink.go`), then the certificate
source (`main.go`), then the issuer (`pki.go`), and sets the gauge
(`metrics.go`) on its way back. A request passes the gate again and then the
router. The ops server reads the issuer, `draining` and the registry. Startup
goes from the configuration over the profiles, which provide the hosts and the
routes, to the CA material, whose constraints cut the hosts down. The
main goroutine owns both servers and meets them through `errCh` and
`Shutdown`, and the operating system through `signalCh`.

What is hard: handshakes run concurrently around one mutex and publish a
gauge outside it; wall clocks are set back; the CA expires while leaves are
cached; issuing fails after the old leaf has been dropped; signals and server
failures race; clients and a load balancer act during the drain; an answer of
`/status` is put together from four looks at a process that goes on; several
`pki init` runs share a directory, and any of them may fail or die; files of
different CAs and rotations are mounted together, or in the wrong slot, before
devices whose clocks are off; four sources of configuration overlap; `append` writes into arrays that
routes share.

## 2. Modules

| Module | Models | Uses |
| --- | --- | --- |
| `Leaves` | certificate windows, `issue`'s template, `needsRenewal`, `validAt`, the answers of `GetCertificate` (operators only) | |
| `LeafService` | abstract specification: what a handshake is promised, without a cache | `Leaves` |
| `Issuer` | `pki.Issuer`: `GetCertificate` with its map and LRU list, under a clock that is set back | `Leaves`; implements `LeafService` |
| `Handshakes` | goroutines of the TLS callback around the issuer's mutex, failure counters, gauge | `Leaves`, an instance of `Issuer` |
| `Serve` | the main goroutine of `serve`, both servers, signals, drain, shutdown, load balancer and clients | |
| `PkiInit` | any number of `sink pki init` runs in one directory | |
| `Metrics` | `Request`, `SiteRequest`, `UpstreamRequest` called by the goroutines of the handler | |
| `Status` | `/readyz` and `/status`, look by look, beside handshakes, clock and drain | `Leaves`, an instance of `Issuer` |
| `Names` | normalisations, patterns, name constraints (operators only) | |
| `Scope` | `Validate`'s host rules, `FilterHosts`, `Load`, gate, `Issuer.allows`, router, for one connection | `Names` |
| `Trust` | the life of a CA: `pki init`, certificates made by hand, `FilterHosts` and `Load` with any files mounted, restarts, enrollment, a device's verification | `Names`, an instance of `Leaves` |
| `Precedence` | abstract specification: the highest source that sets a key | |
| `Config` | `config.Load`'s four layers, `Validate`'s limits and texts, `RequirePKI`, `material` | implements `Precedence` |
| `Profiles` | `profile.Load`'s walks, `parse`, `NewRouter`, derived hosts, `AppendJavaScript` on slices | `Names` |
| `IssuerProofs`, `HandshakesProofs`, `StatusProofs`, `ServeProofs`, `PkiInitProofs`, `MetricsProofs` | theorems | the module they are named for; `HandshakesProofs` and `StatusProofs` also an instance of `IssuerProofs` |
| `ScopeProofs` | theorems about `Scope` and `Trust`, which rest on the same lemmas about names | both |
| `ConfigProofs` | theorems about `Config` and `Profiles`, the two parts of startup that overlay sources | both |
| `MC*` | values of the constants for TLC | |

Operators whose comment begins with "A possible bug" are not part of the
specifications. Each is a mutated form of the definition after it, and
`PROJECT.json` says which property catches it.

### State and code

*Issuer.* `cache` is `i.cache` and `lru` is `i.lru`; an element is the leaf it
holds. `GetCertificate` holds `i.mu` from its first look at the issuer to its
return, so one call is one action: `Refuse` (a name that is not allowed),
`NotReady` (`readyAt`), `Hit` (move to front), `Issue` (drop a due leaf, issue,
push, evict), `IssueFails` (drop, then an error of serial, key or signature).
`Tick` and `StepBack` are the wall clock. The names that `i.allows` grants are
the constant `Allowed`; `Scope` says which names these are.

*Handshakes.* `pc` is where a connection's goroutine is between two critical
sections: `Admit` or `Reject` (gate), `Lock` and `Certify`
(`Issuer.GetCertificate`), `Measure` (`CacheLen`, which locks again), `Publish`
(the gauge), `Return` (the counter of failures). A critical section that holds
`mu` throughout is one step.

*Serve.* `main` follows the main goroutine from one call to the next. `Begin`,
`ServerClosed` and `ServerFails` are the goroutine of a server. `left` counts
the ticks of the sleep and then of the one context that covers both
shutdowns. The load balancer (`Probe`, `Connect`) is outside the repository;
it is modelled from what `operations.md` says of `/readyz` and
`limits.shutdown_delay`.

*PkiInit.* `disk` says of each of the four files which run has created it and
whether it is written; the steps are the system calls of `writeNew`
(`O_EXCL` open, write, close) and the two clean-up loops. Every call may fail
and a run may die at every point.

*Metrics.* Worker `w` is a goroutine of the handler. `Request` counts; `Lock`
takes `m.mutex`; `Grant` is the case of a known name or a full table, `Admit`
and `Add` that of a new name with a place; `Count` increments outside the
mutex. Lookup and insertion are two steps although the mutex covers both, so
that the mutex is not assumed to work but seen to.

*Scope.* A name is a sequence of labels, so the suffix comparisons of the code
are what they are, dots included. `Validate`, `Filter`, `Load` are startup;
`Hello` is the gate and the issuer's decision about a server name; `Request` is
`ServeHTTP` down to status and `Allow`. Nothing changes after startup, so one
connection at a time shows everything.

*Status.* `pc` says which look a request takes next: `LookAtCache` and
`LookAtIssuer` are `statusProvider`, `LookAtDrain` and `Verdict` are `ready`.
Between two looks any step of `Issuer` and the drain may happen. `saw` is
history: all that was true since the request came.

*Trust.* A certificate is its key, its signer's key, its constraints, its
window, cut to whole seconds as `Init` encodes it, and three of its extensions:
whether it is a CA, whether it lets there be a CA below it, and whether its
leaves may be for servers. `PkiInit` makes two of them as `Init` does, `Rotate`
any other: with a key of its own or one that exists, signed with any key.
`Mounted` puts any certificate into either slot, and any key into the third;
`Start` is `serve` from `material` to `Load`, and `VerifiesAgainst` is what
`intermediate.Verify` lets through. A device is its trust store and a clock that
is `Slow` or `Fast`, and `Accepts` the verification of the strictest client: a
self-signed anchor, path lengths, usages, and constraints as RFC 5280 reads
them. The leaf it is handed is any that the issuer may hold: issued since the
start, valid then, not due now.

*Config.* `ko` is the koanf instance. Each source is a partial function from
keys to texts, and `Merged` is what koanf's `Load` does with it. `Value` is
koanf's conversion: zero for what is no number.

*Profiles.* A body is a slice: an array of `heap` and a length. `AppendTo` is
Go's `append`, which writes behind the end of the slice where there is room,
seen or not by other slices of the array. `Visit` takes the files in any order.

## 3. Runs

| Run | Instance | States | Shows |
| --- | --- | --- | --- |
| `issuer` | 4 names, 3 allowed, cache of 2, CA of 10 ticks, clock to 11, set back by up to 3 | 95,230 | the map and the list agree, the cache is bounded and least-recently-used, and the issuer implements `LeafService` |
| `handshakes` | 2 connections, 3 handshakes, cache of 2, CA of 2 ticks | 103,075 | every handshake is counted exactly once and is answered; the gauge is right after a handshake that overlapped no other |
| `status` | 1 prober, 2 names, cache of 2, CA from tick 1 to 3, clock set back by up to 2 | 208,665 | what `/readyz` and `/status` tell was so while they were asked; nobody who asks after the drain has begun is told "ok"; fields of one answer differ only over a change |
| `serve` | 2 clients, delay 2, timeout 2, poll every tick | 6,701 | a drain refuses nobody and cuts nobody early; a signal and a failed server end the process |
| `serve_signal` | the same | | violation: a ready process can be killed by a signal before `signal.Notify` (section 6) |
| `pki_init` | 3 runs at once, any of the files there before | 987,089 | success is a whole set of one's own, failure leaves nothing, no other's file is touched, no set is mixed |
| `metrics` | 2 workers, 3 requests, 3 sites and 2 upstreams, tables of 1 | 120,403 | labels are bounded, a name is counted in one way only, the counters agree |
| `scope` | 13 host lists, 6 × 6 CA constraints, 3 route tables (one with `*.com.*`), 14 names, 2 paths, 3 methods | 38,234 | gate, issuer, router, filter and load agree about which names are in scope |
| `scope_skipped` | the same | | violation: the sink starts although a configured host is outside the constraints (section 6) |
| `trust` | 2 host lists for `pki init`, 2 of its CAs, or 1 and a certificate of 6 kinds made by hand, CAs of 6 ticks and leaves of 4, clock to 4, device clocks off by 2 and 1 | 248,109 | an enrolled device accepts what it is handed, except with files that are wrong in one of the ways `Load` looks past; the files of one init serve its hosts |
| `config` | 5 keys, every source sets at most one, 2 config files, both commands | 158,672 | loading implements `Precedence`; a process that serves has what the other modules assume |
| `profiles` | 1 bundled profile, all pairs of 21 operator profiles (14 with one bad route), 6 lists of enabled ones | 526,656 | what is loaded is the overlay; every script has one toast |

### Bounds, and why they are enough

* `issuer`: a cache of two with three names fills, evicts, and evicts a host
  other than the one asked. The clock passes the end of the CA (`NotReady`) and
  the age at which leaves are due. A second is two ticks, so windows that are
  cut to whole seconds differ from those that are not. `MaxSkew` is as large as
  the backdating, the most that the promise of validity survives.
* `handshakes`: the gauge needs two handshakes that overlap and a third that
  does not; the CA ends at tick 2, so that `not ready` occurs. `odd` passes the
  gate and not the issuer.
* `serve`: two clients are enough for one that is active while another is
  queued. A poll period of one is shorter than the delay of two
  (`ProbeBeforeDelayEnds`), which is what the delay is documented for.
* `pki_init`: with three runs one can fail, one die and one succeed.
* `status`: requests are independent of each other, so one at a time shows all
  of an answer; the CA's window opens and closes during the run, so that a
  clock that is set makes the issuer ready and unready between two looks.
* `metrics`: each table has one place and more names than that, among them the
  reserved "other"; two workers contend for the last place; the third request
  asks again for a name that has a verdict. `Arising` picks a result that
  counts sites and one that does not; the other two results behave as the
  latter.
* `scope`: domains have hosts one and two levels below them, names that only
  end alike, capitals, leading and trailing dots, empty, foreign and
  non-DNS labels; constraints have both forms, permitted and excluded, also
  contradicting. Host lists and CAs are combined freely, so a host list may
  be refused, cut down or kept. `CHECK_DEADLOCK FALSE`: a refused start ends
  the process.
* `trust`: at most four certificates (`MaxIssued`), so two CAs, or one and a
  certificate made by hand, are what it takes to mount files that do not belong
  together. The one made by hand has a new key or any that exists, is signed
  with any or with its own, so that it may be a root, a renewed or cross-signed
  one, and may be mounted in either slot; it is sound, narrower than a root,
  has a gap in its constraints and no CA below it, is not for servers,
  excludes every name, or is no CA. Each reason of `LoadLooksPast` is met, and
  the property fails without any one of them. All is made until tick 1
  (`MaxMade`) and the clock goes to 4: a CA outlives the first leaves, so that
  one of tick 0 is due at tick 3 and a cached one is handed out before. An
  intermediate is asked to outlive its root, so that the cut of `Init` matters.
  The slowest device is as slow as the backdating, the fastest as fast as the
  third of a leaf's life that renewal leaves, and it may install two
  certificates.
* `config`: a key is decided by the sources that set it, and keys meet in two
  places only: contents and file of one material. Four sources with one key
  each overlap in every way for a key and in every way for such a pair that
  takes one source per key. Texts are good, bad, empty, zero and negative.
  `CHECK_DEADLOCK FALSE`: the process refuses, prints or serves, and is done.
* `profiles`: two operator files can bear one name, replace the bundled profile,
  or be good and bad; one profile is enabled twice. `os.ReadFile` may leave
  room behind a body or not, for each array on its own. `CHECK_DEADLOCK FALSE`:
  a refused start ends the process.

### Fairness

`Handshakes` assumes that the scheduler runs a goroutine that can
run (weak fairness of its steps), and that `sync.Mutex` starves no waiter
(strong fairness of taking it): Go's mutex hands over to a waiter that has
waited for a millisecond. `Serve` assumes that goroutines run, that time
passes and that the load balancer polls. Nothing is assumed of clients, who may
never finish a request, of operators, who may never send a signal, or of
failures. The other modules state no liveness: they have safety properties
only, and none of their actors waits for another except for a mutex.

## 4. Proofs

TLAPS checks these for every value of the constants that satisfies the
assumptions stated in the modules.

*IssuerProofs.* `CacheIsCoherent`, `CacheIsBounded`,
`CacheIsLeastRecentlyUsed`, `IssuerImplementsLeafService`, `IssuerTypeOK`. None
of the properties is inductive alone. `CacheInv` joins type correctness,
agreement of map and list, the bound, limits on the window of each cached leaf
that `issue` keeps and a later clock does not lose (`Bounded`), and that for
each host in the list those before it were answered since (`InOrder`, which
makes the list's order the order of use).
`RemoveAtElements`, `PushFrontElements` and `FrontElements` say what the three
list operations do to the elements; `DroppingIsSound`, `PushingIsSound` and
`EvictingIsSound` what they do to the cache. For the refinement,
`IssuedLeafBounds` does the arithmetic of windows cut to whole seconds, and
`FreshLeafIsValid` shows that a leaf that is not due is valid on a clock that
was set back by at most `MaxSkew <= Backdate`.

*HandshakesProofs.* `HandshakesTypeOK`, `HandshakesEveryHandshakeCounted`,
`HandshakesGaugeExactWhenAlone`, for any set of connections, infinite ones
included. What a call of the issuer does to the cache is not proved again: a
step of `Handshakes` is a step or a stutter of `Issuer` (`StepIssuer`), so
`CacheInv` carries over from `IssuerProofs`, which is instantiated. The lemmas
`Same...` say that the operators of the two instances are the same. `Counts`
adds to the count that finitely many handshakes are on their way, without
which the set in `EveryHandshakeCounted` would have no size. `AloneInv` follows
a handshake without company: nobody else moves, so the size that it has read is
still the size when it is published, and when it returns.

*StatusProofs.* `StatusTypeOK`, `StatusVerdictHeld`,
`StatusFieldsDifferOverAChange`, for any number of probers. The invariant says
of a request, at each of its looks, which of the things it has been told are in
`saw`, and that the present is always in `saw`. The step that needs thought is
the verdict: the drain has been looked at before the issuer, so "ok" may join a
moment without drain to a moment of readiness; then either they are the same
moment or the issuer became ready in between. The size of the cache is a
number because of `CacheInv`, again from the instance of `IssuerProofs`.

*ServeProofs.* `ServeTypeOK`, `ServeDrainRefusesNobody`,
`ServeShutdownCutsNobodyEarly`, for any clients, delay, timeout and poll period
that satisfy `ProbeBeforeDelayEnds`. `Shape` says what each point of the main
goroutine has made of sockets, servers and `errCh`, whatever else goes on;
`Calm` says more as long as no server fails of itself, which is final
(`FailedForever`). Its core is `left + probeAge >= ShutdownDelay` for a load
balancer that still routes during the drain: it has not polled since the drain
began, so a poll is due while `left` is positive (`Owed`). When the sleep is
over it routes nobody here, and the accept loop has taken all who came.

*ConfigProofs*, configuration. `ConfigTypeOK`, `ConfigServesWhatOthersAssume`,
`ConfigImplementsPrecedence`, for all keys, texts and layers. The invariant
says what `ko` is after each layer, as a function of the sources merged so far;
that the last form picks the highest source for each key is the refinement.

*ConfigProofs*, profiles. `ProfilesSlicesFit`, `ProfilesLoadedIsOverlay`,
`ProfilesOneToastPerScript`, for any bundled and operator profiles and any list
of enabled names. `OverlaidIsSource` follows the map of profiles through both
walks, in any order of the files: a name stands for the operator's file of that
name if there is one, else for the bundled one, and a second file of a name ends
the start. That routes stay
routes through `slices.Concat` of unboundedly many profiles is `FlattenStaysIn`,
an induction over a set of numbers (`AllFromOne`), since the induction theorems
of the library cannot be instantiated. `OneToastPerScript` needs to know what
is in an array that several slices share: every array holds a body and at most
one toast behind it, and a slice ends before or behind that toast. An `append`
that writes into shared room therefore writes what is there already.

*ScopeProofs*, names. `ScopeTypeOK`, `ScopeCertifiedInScope`,
`ScopeOwnHostIsKnown`, `ScopeOtherMeansUncertifiable`, `ScopeStartupSortsHosts`,
`ScopeAllowIsHonest`, for all labels, names, host lists, constraints and route
tables. First the code's comparisons are shown to mean what the references
`Bare`, `InDomain` and `Lineage` say, which compare whole labels and know
nothing of dots and case; then that what a pattern provides every host below it
has (patterns compose), which carries a host from `FilterHosts` over `Load` to
`Issuer.allows`. The normalisations of the gate, the issuer and the router agree
but for a second trailing dot, and the theorems hold because no host of a
configuration that `Validate` passes can have one. `StartInv` says what startup
leaves, `ConnInv` what a connection has been told.

*ScopeProofs*, the life of a CA. `TrustTypes`, `TrustEnrolledDeviceAccepts`,
`TrustInitServesItsHosts`, for any hosts, certificates made by hand, clocks and
lives of certificates. `KeysInv` numbers the keys by the certificates there are
(`NewKeyIsNew`, `IssuedGrows`), so that a new one is no old one's.
`SinkInv` is what `Load` has checked and nothing later undoes: certificates
are only added, and the sink keeps what it has read. A handshake then splits:
`VerifiesAgainst` gives the chain, once `LoadLooksPast` is excluded;
`PermittedIsAdmitted` says that the constraints that the issuer reads with
`domainMatches` mean the same to a device unless they name everything; and
`LeafReachesDevices` does the arithmetic: a leaf that the sink hands out is not
due, so that a third of its life is left for devices that are fast, and its
backdating for those that are slow; cutting windows to whole seconds
(`SecondsAreWhole`) takes less than a second from each end. `Matching` says that
the files of one init belong together, and `CoveredIsPermitted` that its
constraints let all its hosts pass.

*PkiInitProofs.* `PkiInitTypeOK`, `PkiInitSuccessIsWhole`,
`PkiInitFailureLeavesNothing`, `PkiInitOthersFilesKept`, `PkiInitNoMixedSet`,
for any set of runs. The invariant `RunInv` says of each run, at each of its
points, which files it owns (`Owns`), that it owns no other (`OwnsNoMore`) and
what it has seen (`Looked`). A run's own steps keep it because each touches one
file; other runs' steps keep it because `O_EXCL` gives a run only files that
nobody has. `NoMixedSet` needs in addition (`SetInv`) that a run that owns the
last file owns all four, and that no file of the time before stands beside a
file of a run.

*MetricsProofs.* `TypeCorrect` (which contains mutual exclusion),
`TablesStayBounded`, `LabelsStayBounded`, `NamesNeverSplit`,
`CountersAlwaysAgree`, for any number of workers. A verdict is given under the
mutex and used outside it; `IInv` carries it across: a worker that is about to
count has a name that is known, or one that a full table does not hold
(`Counts`), and a full table never changes (`TablesGrow`), so both stay true
until the worker counts. For `CountersAgree`, a step changes the three counters
and the set of workers between them together (`BetweenFollows`); that one
increment makes a sum over all names larger by one is `SumGrows`, an induction
over the sets of names in the order in which the fold takes them
(`AllSetsOfNames`).

The assumptions on the constants are named in the modules: durations
(`LeafDurations` and `ClockSteps` in `Leaves`, `Durations` in `Trust`,
`ProbeBeforeDelayEnds` in `Serve`), what `Validate` and `validateRoute` refuse (`Limits`,
`CacheSizePositive`, `RoutesAreValid`), names of at least one label
(`NamesHaveLabels`), finitely many labels and goroutines (`FinitelyMany`, in
`Metrics` only, where sums are taken), and else only of what kind inputs are.

Every safety property that a run checks is proved. Only model-checked is
liveness, which is out of the prover's reach: `EveryHandshakeAnswered` and
`ProcessEnds`, and with them that the fairness assumed is enough.

## 5. What the properties do not say

* In the last part of the CA's life every leaf is cut to the CA's end and, once
  what remains is less than a third of a leaf's window with its backdating,
  each handshake issues anew (`LeafService` allows it:
  `a.leaf.notAfter = Intermediate.notAfter`). With five minutes of backdating
  that is the last two and a half minutes.
* The sample host "subdomain" stands for a pattern when it is held against name
  constraints. A CA that excludes some hosts below a pattern keeps the pattern;
  those hosts pass the gate and fail at the issuer, counted as "other"
  (`OtherMeansUncertifiable` says that nothing else does).
* `Allow` names the methods of the last route of a host and path. All of them
  are served (`AllowIsHonest`); methods of other routes of the same path are
  served too, and not named.
* `Handshakes` takes the mutex for a malformed server name too, for which
  `GetCertificate` returns before it locks (`pki.go:355`): it waits more often
  than the code does.
* `Serve` takes a connection for active from its accept. `Shutdown` closes one
  from which no request has been read within five seconds; no request is lost
  by that.
* `ProbeBeforeDelayEnds` excludes a `shutdown_delay` of zero, which `Validate`
  allows: without a delay nothing is promised to clients of a load balancer
  that has not polled yet.
* While handshakes overlap, the gauge may be set to the older of two sizes
  (`main.go:34` reads the size under the mutex and publishes it outside), and
  stays there until the next handshake. `GaugeExactWhenAlone` says when it is
  right.
* `ready` looks at the drain before the issuer. An issuer that becomes ready in
  between (a clock that is set) can earn an "ok" for a process that was never
  ready and not draining at once; looking at the issuer first would not.
* A text that is no number is zero to koanf. Limits that must be positive are
  refused then; `shutdown_delay` may be zero, so a mistyped one is no delay.
* A profile that lies directly in `profiles_dir` passes the walk and is refused
  for its bodies (`profile.go:118`): `ReadableBody` has `f.dir # "."`.
* `/install` lists the names of the intermediate, while the root that is
  installed may permit more (`enroll.go:32`). `EnrolledDeviceAccepts` is about
  what a device accepts, not about what it might.
* `Load` looks past four things, and a sink that starts nevertheless hands out
  leaves that strict devices refuse (`LoadLooksPast`; `EnrolledDeviceAccepts`
  shows that there is no fifth in what `Trust` has of a certificate). A
  certificate that is no root may be in the root slot, `intermediate.crt` in
  both slots above all: `Verify` passes a certificate that is in its pool
  (`pki.go:278`). The root may have a path length of zero, since no leaf is
  below the intermediate when it is verified. Either may have extended key
  usages or policies that are not for servers (`ExtKeyUsageAny`,
  `pki.go:283`). Either may exclude the empty name, which is every name to RFC
  5280 and none to `domainMatches`. A device that takes any installed
  certificate for an anchor, root or not, is laxer than `Accepts`.
* CA certificates are not backdated as leaves are: `EnrolledDeviceAccepts`
  supposes that the device takes both CAs for valid already.

## 6. Findings

* `serve_signal`: `signal.Notify` runs after the servers have been started, so a
  process that has answered `/readyz` with "ok" can still be killed by a
  `SIGTERM`; `operations.md:20` promises a drain.
* `scope_skipped`: `why-go.md:21` says that the sink refuses to start when a
  configured host is outside the name constraints. `effectiveHosts` leaves it
  out and starts, as `configuration.md:30` describes.

## 7. Not modelled, and why

* Keys, serial numbers, signatures and PEM parsing: libraries, abstracted to
  success or failure. A chain is who signed whom (`Trust`).
* The loader stub and the toast: scripts that run in browsers, outside the
  service, for which they are bytes. `Profiles` has the body and what is
  appended to it.
* Enrollment: paths, methods, headers and the pages' text are constant answers.
  `Trust` has what a device gets from them.
* YAML and flag syntax: a profile is what `parse` reads from it, a source of
  configuration the texts it sets.
* Response headers other than `Allow`, which are constants of a route; logging;
  the rendering of `/status`, `/healthz` and `/metrics`; the profile label and the
  info and expiry gauges, which are set once.
* The site, packaging, and the smoke and end-to-end tests.

## 8. Plan

1. A refinement for `Metrics`: a table that decides about a name in one step,
   without mutex and worker, which would say that the lock makes the decision
   atomic in so many words.
2. An abstract specification of `sink pki init`: one step that makes a set, or
   none, with the system calls of `PkiInit` as stutters.
