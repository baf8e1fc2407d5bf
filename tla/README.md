# A verification of mmapi

mmapi is a gateway in front of the REST API of the IBM Storage Scale (GPFS) GUI.
It gives every tenant a token restricted to some file systems and forwards only
the requests an allowlist names. `mmctl` is its client: the `mm…` commands of
Storage Scale, rebuilt on that API.

These are TLA+ modules of both programs, TLC configurations that check them on
small instances, and TLAPS proofs for every size. Paths below are
relative to the repository; `token.go` is `internal/auth/token.go`, `policy.go`
and `proxy.go` are in `internal/proxy/`, `config.go` in `internal/config/`,
`client.go`, `quota.go`, `fileset.go`, `args.go`, `fs.go`, `format.go` and
`token.go` of mmctl in `cmd/mmctl/`, and `main.go` is `cmd/mmapi/main.go` unless it
says mmctl.

Run a check with `tlc -config <X>.cfg MC<Module>.tla`, a proof with
`tlapm <Module>Proofs.tla`.

## The system

| Component | State | Operations | Talks to |
| --- | --- | --- | --- |
| Token store (`token.go`) | map of tokens under `mu`; `saveMu`; `tokens.json`, `tokens.json.tmp` | Create, Delete, save, load, Validate, CheckAccess, List | management API, proxy, disk |
| Management API (`main.go:36-99`) | none | POST, GET, DELETE `/api/v1/tokens` | token store |
| Endpoint allowlist (`policy.go`) | rules built once | allows, matchMethod, matchPattern | proxy |
| Reverse proxy (`proxy.go`) | none between requests | authenticate, check, forward, answer | token store, allowlist, the GUI |
| Configuration (`config.go`) | one record | Load, Validate | process |
| Process and TLS files (`main.go:29-34, 101-143, 170-228`; `deploy/mmapi.service`) | `certFile`, `keyFile`, the running process | start, generate a pair, listen, shut down, be restarted | disk, systemd |
| Access log (`main.go`) | none | log a line per request | – |
| mmctl command line (`args.go`, mmctl `main.go`) | none | dispatch, parseOptions | every command |
| mmctl writes and jobs (`client.go`) | none | scaleWrite, waitJob | gateway, jobs of the GUI |
| mmctl quota commands (`quota.go`) | none | mmlsquota, mmrepquota, mmsetquota | gateway; a report is many requests |
| mmctl fileset commands (`fileset.go`) | none | mmcrfileset, mmchfileset, mmdelfileset, mmlinkfileset, mmunlinkfileset, mmlsfileset | gateway |
| mmctl file system, cluster and token commands | none | mmlsfs, mmlscluster, mmcrtoken, mmlstoken, mmdeltoken | gateway, management API |
| mmctl formatting (`format.go`) | none | columns, fields, `-Y` records, units | every command |

What is hard in it:

- **Interleaving.** Every request is a goroutine. A create or a delete changes the
  map under `mu`, lets `mu` go and saves under `saveMu`: another request can change
  the map, or the process can die, between any two of those steps. A proxied request
  reads its token once and is checked and forwarded without looking again.
- **Failure and restart.** Saves fail; the process dies at any point, also when
  `srv.Shutdown` gives up on running handlers after five seconds; systemd starts it
  again on whatever files are there.
- **Two views of one path.** The allowlist and the access check read the path as it
  was sent, the GUI resolves it.
- **Jobs.** A write is answered with a job that runs on after the answer, after the
  deadline of mmctl and after mmctl.
- **Many requests, one report.** Between the requests of a quota report filesets
  appear and go; between the two requests of `-J` a fileset can be renamed.
- **Boundaries.** Wildcards against paths of other lengths, counts against int64,
  values against the width of their column, options in every order.
- **Two programs, one list.** The allowlist names what mmctl calls and is written apart
  from it.

What makes each part correct:

- Token store: the file is always whole; what was answered is durable (200) or final
  (204); map and file differ only by saves under way; no request waits for ever.
- Gateway: a revoked secret is refused, a live one is not, and a tenant acts on its
  own file systems only.
- Allowlist: what is let through is what its rules describe, read as their comment says,
  no rule opens what another gates, and the file system checked is the one acted on.
- Process: it never replaces a certificate and key that belong together, leaves half a
  pair only when it was cut off, and comes up when it can.
- mmctl: exit 0 means done; a failure leaves a prefix of the changes and has a cause;
  what the GUI keeps afterwards is what the line asked for and nothing else; a report
  has every quota once and in its place; a command line is read as it is meant and runs
  if its synopsis allows it; its requests pass the allowlist; what is printed can be
  read back.

## The modules

| Module | Models | Checked by | Proved in |
| --- | --- | --- | --- |
| `TokenRegistry` | the store as its clients see it (abstract) | through `TokenStoreRefinement` | `GatewayProofs` |
| `TokenStore` | token store and the handlers that change it | `MCTokenStore` | `GatewayProofs` |
| `TokenStoreRefinement` | how `TokenStore` implements `TokenRegistry` | `MCTokenStore` | `GatewayProofs` |
| `Policy` | the rules and how they match | `MCPolicy` | `PolicyProofs` |
| `PolicyDecisions` | requests decided one after another; extends `Policy` | `MCPolicy` | `PolicyProofs` |
| `Gateway` | proxied requests; extends `TokenStore` and `Policy` | `MCGateway` | `GatewayProofs` |
| `Server` | configuration, TLS files, start and restart | `MCServer` | `ServerProofs` |
| `MmctlWrite` | scaleWrite, waitJob and a command's sequence of writes | `MCMmctlSetquota` | `MmctlWriteProofs` |
| `MmctlSetquota` | mmsetquota; extends `MmctlWrite` | `MCMmctlSetquota` | `MmctlWriteProofs` |
| `MmctlQuota` | mmlsquota and mmrepquota | `MCMmctlQuota` | `MmctlQuotaProofs` |
| `MmctlFileset` | the five fileset commands that change something | `MCMmctlFileset` | `MmctlFilesetProofs` |
| `MmctlArgs` | dispatch, options, the attributes of mmlsfs | `MCMmctlArgs` | `MmctlLinesProofs` |
| `MmctlCommands` | checks and requests of every command; extends `MmctlArgs` | `MCMmctlArgs` | `MmctlLinesProofs` |
| `MmctlFormat` | columns, fields, `-Y` records | `MCMmctlArgs` | `MmctlLinesProofs` |
| `MmctlLines` | lines composed by an operator, rows by mmctl; extends the two above | `MCMmctlArgs` | `MmctlLinesProofs` |

`Concatenation` has the sequences the last four are made of, put together as Go's `append`
puts them together in a loop, and defined by recursion so that they can be reasoned about.
`Inductions` models nothing: it has induction over sets of numbers and the existence of
functions defined by recursion, in a form the provers can use, for the proof modules.

`PROJECT.json` maps every definition to the lines it translates. An operator whose
comment begins "Mutant of" is not part of a model: it is a plausible bug that, put in
the place of the definition it names, makes some property fail.

### TokenStore

A token is an immutable triple, so it is one value; ids and secrets are drawn at
random and taken not to repeat. `mem` is the map, `file` and `tmp` the two files, each
a set of tokens or torn. A section under `mu` is one step, since `mu` is never held
across anything else. `save` is a step per operation something can fall between:
`SaveAcquire`, `SaveSnapshot`, `SaveTruncate` and `SaveFill` (the two halves of
`os.WriteFile`), `SaveRename`, or `SaveFail` with the deferred unlock. `Reply` is the
handler's answer. `Crash` ends the process anywhere and leaves the files; `Boot` is
`NewTokenStore` with `load`, which takes a file that cannot be parsed, or read, for an
empty one. `minted`, `revoked`, `answered`, `dirty` and `forgotten` are what an
observer has seen; no guard reads them, except that a fresh token is one not yet
minted and that clients name ids they may have seen.

### TokenRegistry and TokenStoreRefinement

The promise to clients, without mutexes, copies and files. A token's life goes from
fresh to offered (accepted, but a restart may end it), live (survives restarts),
leaving (no longer accepted, but a restart may bring it back) and gone. Each create,
delete and save is one step, and each answer is allowed only at certain points: 200 only
for what is live or later, 204 only for what is gone, 404 and 500 of a delete only for
what is not accepted. `LifeOf` reads the life of a token off the map, the file and the
copies on their way to the file, and `ImplementsRegistry` is the refinement. The
exceptions the code makes are visible in the abstract module: `Restart` may bring a
leaving token back, and `Mislay` is the start that cannot read the file.

### Policy, PolicyDecisions and Gateway

`Policy` has the rules of `policy.go` as they stand, paths as sequences of segments
below one of three roots. `PolicyDecisions` puts one request after another to a gateway
with some features on. `Gateway` adds goroutines that serve tenants. `Arrive` is a
request with a secret some create's answer gave out, or an unknown one; `Redirect` is
the multiplexer's answer to a path with empty or dot segments (`main.go:38-42`), which
lets through one whose dots are percent-encoded; `Check` is
`authenticate` and the checks of `ServeHTTP` in their order, one step because after
`authenticate` has read the map it reads only the immutable token and the
configuration; `Upstream` and `Respond` follow. All steps of `TokenStore` interleave
with these. Which file system the GUI acts on is a constant (`GuiTarget`) bound by one
assumption: on a path without empty and dot segments it is the one the path names. For
a path with such segments nothing is assumed.

The comment on `rule` (`policy.go:19-21`) says that `*` matches one non-empty segment,
and `matchPattern` alone lets it match an empty one: `allows` looks for empty segments
first. `VerdictAgreesWithRules` therefore compares the verdict of `allows`, not the
matcher, with the comment's meaning (`Matches`), on paths with empty segments too.

### Server

One process under systemd. `config.json` is one of the shapes `Load` and `Validate`
tell apart and may be edited at any time. `Stat` looks for the certificate only;
`OpenCert`, `WriteCert`, `OpenKey`, `WriteKey` create the pair, whose serial tells it
from any other. The operator may have put a certificate, a key, both or neither in
place. `GenerateFails`, `ListenFails` and `Crash` share one bound, `MaxMishap`.

### MmctlWrite and MmctlSetquota

`MmctlWrite` is any command as the list of its writes, its `plan`: one for most
commands, none for a line that is refused, one per user or group for mmsetquota. The
GUI's side is explicit: it takes a write on as a job, does it at once, or refuses it; a
job ends well, with an exit code, in another way, or never; answers are lost. `Expire`
is the deadline of two minutes and may fall anywhere in `waitJob`. `unread` keeps the
writes whose answer did not parse.

`MmctlSetquota` computes the plan from the line (`Requests` is `runMmsetquota`) and says
what the GUI keeps of the writes that went through. What the line means is stated apart
from that, from the synopsis (`InSynopsis`, `Wanted`), and the two are compared.

### MmctlQuota

A report as the sequence of requests it is: targets, then for each target and quota
type whether quotas are per fileset, the filesets, each quota collection, then the
fileset ids, and for mmrepquota `-Y` which quotas are enforced. Filesets are created and
deleted between any two of them, a new one with a fresh id. A quota is known by where it
lives, its type and its object; `Matches` selects the object of mmlsquota by name or id,
and `Report` sorts as each command does, stably and by id. What is sorted or picked is
stated by three operators: `Listed` puts a finite set in order, `Taken` picks places of a
sequence in an order, `Only` in theirs.

### MmctlFileset

A command works out a fileset name (from its operand, or by listing and comparing
junctions), then its parameters, then sends one write that carries the name. A fileset
has an identity that outlives its name, so that the fileset meant and the one changed
can differ. Other administrators rename, create, delete, link and unlink in between.
Counts are integers of the width given by `MaxInt`; their product with a unit wraps.
The "/" that `strings.TrimSuffix` takes off a junction is the constant function
`TrimSlash`, and "--", the path the GUI reports for what is not linked, may be asked for
with `-J` as well: it then finds an unlinked fileset.

### MmctlArgs, MmctlCommands and MmctlFormat

Pure. `MmctlArgs`: `main`, `dispatch` and `parseOptions` as operators on sequences of
arguments that are words or options with or without an attached value, taken one after
the other as the loop of `parseOptions` goes; and `selectFsAttrs`. `MmctlCommands`: what
each command refuses (an operator per command), before it asks anything (`RefusesFirst`)
or after it has read something (`RefusesLater`: mmchfileset, once it has looked its
fileset up, and mmlsquota `-j` at the turn of a Device:Fileset), the requests a line may
lead to, again command by command, what mmlsfs and mmlsfileset pick from the answers, and
the inode figures. Which words are inode counts is the constant `InodeCounts`, which
block sizes `Sizes`. `MmctlFormat`: a row is the sequence of the
marks of its values, so that a reader can tell where each stands.

In `MmctlLines` an operator composes a line from items whose meaning is known, and what
mmctl makes of the arguments is compared with it; and mmctl composes a row from values,
which a reader takes apart. It also joins mmctl with the gateway: each request goes
through `allows` of `Policy`. What operands and values there are, how words are cut and
which filesets the GUI has are constants, as are the widths and characters of a row;
`MCMmctlArgs` gives them values.

## The runs

Eight runs pass, each for one module or a family of them; between them every action of
every module happens. Each property is broken by at least one mutant in
`PROJECT.json`.

| Run | Instance | Shows |
| --- | --- | --- |
| `store` | 2 handlers, 2 tokens, failing saves, crashes; 344,643 states | `NeverTorn`, `CreatedIsDurable`, `DeletedIsFinal`, `DiskLagIsOwed`, `ImplementsRegistry`, and with fairness `EveryRequestAnswered` |
| `gateway` | 1 handler, 1 connection, 2 tokens, failing saves and loads, crashes, 6 requests; 3,039,868 states | `RevokedThenRefused`, `LiveTokenAccepted`, `ActsOnOwnFilesystem` |
| `policy` | every rule, filled with four names and edited, five methods, four feature sets; 46,944 states | `VerdictAgreesWithRules`, `CheckedIsResolved`, `GateNotShadowed`, `ChangesNameFilesystem` |
| `server` | eight configurations, every combination of own files, 3 mishaps; 1,912 states | `HalfPairHasCause`, `PairStays`, and with fairness `ComesUp` |
| `write` | mmsetquota with every combination of operands and options below; 119,943 states | `SuccessMeansDone`, `ChangesFormAPrefix`, `FailureHasCause`, `LimitsAsAsked`, `NothingElse`, `KeepsToSynopsis`, and with fairness `HangsOnlyOnARequest` |
| `quota` | 2 file systems, 2 fileset names, 2 accounts, tokens of one or both, 20 commands; 247,819 states | `StableQuotasReported`, `LinesInPlace`, `EnforcementRight`, `FidsRightInOne`, `FailureHasCause` |
| `fileset` | 3 filesets, 3 names, 3 junctions, with and without a "/" at the end, and "--", every command; 319,745 states | `JunctionHitUnlessRenamed`, `CountsExact` |
| `args` | thirteen commands, lines of up to 3 items and a "--", rows of up to 3 values; 701,464 states | `ReadAsMeant`, `RunsItsSynopsis`, `WithinAllowlist`, `OperandsHeeded`, `ListedOnce`, `PrintedReadsBack` |

The type invariants of `TokenStore`, `MmctlQuota` and `MmctlFileset` are checked in
their runs and proved; those of `Gateway`, `Server` and `MmctlWrite` are proved.

Four runs are expected to fail: each states what the repository says and the code does
not do (see "Where the repository says otherwise").

### Bounds, and why they are enough

- `store`: with two handlers one holds `saveMu` while the other changes the map or
  waits; that is every conflict there is, since all others wait like the second. Two
  tokens let a copy be behind on one and right on the other. Tokens are never reused,
  so the instance runs out of creates, while deletes, crashes and restarts go on. The
  proofs cover every number of both.
- `gateway`: one connection suffices because proxied requests share nothing with each
  other; one handler because the conflicts of two are the business of `store`. The
  requests are one for each outcome of the checks: no file system, the own or another's
  file system, a gated endpoint, a path with dot segments, and two roots that are not
  served.
- `policy`: the names that fill wildcards include words other rules have as literals,
  and the edits make every path one segment longer, shorter, empty, dotted or other.
- `server`: three mishaps allow a failure while the consequences of another are being
  met twice over; serial numbers are three because two files hold at most two, and a
  generated pair takes one neither has.
- `write`: operands missing, good, with an empty part, and one too many; limits with
  both halves, one, or an empty one; lists with several names, an empty part, a repeat,
  or nothing. A plan has up to three writes: a first, a middle and a last one.
- `quota`: fs0 keeps quotas per fileset and fs1 does not; fileset f is in both with
  different ids, e comes before f by name and after it by id, and both come and go.
  `MaxId = 3` leaves fs0 and fs1 one creation each beyond the ids they begin with. An
  object is named by its name or its id; operands are none, a Device, two, and a Device
  beside a fileset in it.
- `fileset`: integers have eight bits (`MaxInt = 127`) and the units are 4, 16 and 64,
  so that as with 64 bits and 1024 a product can be right, just wrap, wrap to zero and
  wrap to a negative number. No property depends on the width.
- `args`: an option, its value and an operand are three items, in every order; commands
  with few or alike options have lines of one or two (`MCMaxItems`). Values include one
  that looks like an option, one that is `-h` and one that is "--"; operands a list and
  targets with a part missing; inode limits one number, two, a number and nothing or no
  number after a ":", and no number. Rows have values of up to three characters beside columns
  and widths that they reach, fill and overrun, and over the characters `-Y` escapes and
  those of an escape; each value may or may not be a path, any of them may begin at its column
  and the others end at theirs, and any number of fields may be to the left.

### Fairness

- `TokenStore!Fairness`: a goroutine that can run does (weak fairness of `Save(p)` and
  `Reply(p)`); `SaveAcquire` is strongly fair because a Go mutex is handed to a waiter
  that has waited for a millisecond; `Boot` is fair because `mmapi.service` has
  `Restart=always`. Nothing forces creates, deletes, failures or crashes.
- `Server!FairSpec`: a process that starts up goes on, and systemd starts it
  (`RestartSec=5` stays below the default start limit). Mishaps are never forced.
- `MmctlWrite!Fairness`: mmctl goes on while it waits for no answer, and time passes.
  Nothing says that a request is ever answered, since mmctl's HTTP client has no timeout
  (`client.go:31`), or that a job ends. `HangsOnlyOnARequest` is what is left: a command
  ends, or waits for ever for one answer; no job can keep it.
- `MmctlQuota` has none, for the same reason: a report ends when its requests do, and
  that they do nothing promises.

Deadlock is checked where the system never stops (`store`, `gateway`, `policy`,
`server`) and off where mmctl exits.

## Where the repository says otherwise

Four of these are runs; each is one property stating the quoted text, and its
counterexample is what the code does.

1. `store_retry` – a delete whose save failed is answered 500 and the token is out of
   the map but still in `tokens.json`. Repeating it is answered 404
   ("404 if no token carries that id", `README.md:146`); after a restart the token is
   accepted again. `token.go:96-98` says a silent success must not let an operator
   believe a live secret is gone; the 404 does.
2. `store_read_fault` – `load` drops every error of `os.ReadFile` (`token.go:138`), so
   a `tokens.json` that exists and cannot be read starts an empty store, and the next
   save overwrites it. `token_test.go:106` expects a token to persist.
3. `server_crashed` – `ensureTLSCerts` takes the existence of the certificate for that
   of a pair (`main.go:179`). After a crash between `main.go:202` and `main.go:227`
   every restart fails in `ListenAndServeTLS`.
4. `quota_two_fid` – the map from fileset names to ids (`quota.go:308`) is keyed by the
   name alone; in a report over two file systems the ids shown with `-Y` are those of
   the file system read last.

Others were met while modelling. They are in the models' behaviour, and the property
that is checked beside them says exactly how far the code goes:

- A create answered 500 because its save failed leaves a token that is accepted and
  listed, and is written by the next save (`token.go:82-86`). `DiskLagIsOwed` has
  `~dirty` for that, and `TokenRegistry` lets "createFailed" be answered of any token
  that was offered.
- A key the operator has put in place without its certificate is overwritten
  (`main.go:217`; "auto-generated if unset", `README.md:72`), and a certificate without
  its key is never completed. `PairStays` speaks of pairs that fit, `HalfPairHasCause`
  names the operator's certificate.
- An answer to a write that does not parse counts as a write without a job
  (`client.go:149-152`). `SuccessMeansDone` has `unread` for that.
- mmsetquota with `--grace` or `--default` does not look at `--user` and `--group`, nor
  with `--grace` at `--default`, and succeeds (`quota.go:608-628, 676`). `Heeded` takes
  those options off the line before `LimitsAsAsked`, `NothingElse` and `KeepsToSynopsis`
  compare.
- mmrepquota `-Y` shows the quotas of a file system as "off" when its configuration
  could not be read, and exits 0 (`quota.go:256-259`). `EnforcementRight` has `trouble`.
- Without operands a quota report asks for every file system of the cluster, not for
  those "the token can reach" (`quota.go:549-550`), and ends with 403 at the first
  other one. `FailureHasCause` names the targets, not the operands.
- `-J` is resolved to a name and the write carries the name (`fileset.go:522-535`): a
  rename in between changes another fileset. Hence `JunctionHitUnlessRenamed`.
- `--user` and `--group` stand side by side in the synopsis of mmsetquota, each of them
  optional (`quota.go:580-581`, `README.md:175-176`), and are refused together
  (`quota.go:630-632`). `InSynopsis` has them as the synopsis does; `KeepsToSynopsis`
  names the pair as the exception.
- A count whose product with its unit leaves int64 is sent wrapped
  (`fileset.go:383`). `CountsExact` is about products that fit.
- `mmlinkfileset` without FilesetName looks for a fileset already linked at `-J`, the
  place it is to link at (`fileset.go:460, 522`), and answers that there is none,
  instead of giving its synopsis.
- `-h` and `--help` are looked for before options are parsed (mmctl `main.go:93`), so
  after "--", or as the value of an option, they print the synopsis
  (`args_test.go:45` has "double dash ends option parsing"). `ReadAsMeant` says so.
- Operands past those a command looks at are dropped: `mmdeltoken a b` deletes a alone,
  `mmdelfileset fs0 a b` deletes a. `OperandsHeeded` names these commands.
- Lines no synopsis has are run (`Lenient` in `MmctlLines`): `mmlsquota -j` without a
  Device, `mmrepquota -j Device:Fileset` (an empty report, where mmlsquota refuses),
  `-J` beside a fileset name, and limits with a second number: mmcrfileset takes it
  ("MaxNumInodes" alone in its synopsis; `fileset.go:344-358`), mmchfileset ignores
  whatever follows the ":" (`fileset.go:419`). A mmchfileset without anything to change
  is a line of its synopsis and refused (`fileset.go:429-431`).

## The proofs

All theorems hold for any values of the constants that the named assumptions allow.
What is assumed: `NoProcAssumption` and `NoTokenAssumption` (the "none" values are not
elements), `GuiAssumption` on what the GUI does with a plain path, and in the other
modules only of what kind each constant is; for `MmctlFileset` also distinct names for
the filesets there are at first, for `MmctlQuota` distinct ids for those of a file
system, finitely many file systems, names and accounts, and that no command asks for a
type twice, as `quotaTypes` never does. For the command lines: that what a word is cut into
are words and that no inode count has a ":" (`CutsAssumption`), that mmsetquota is not composed here and no option is given
an empty value attached (`LinesAssumption`), and in `MmctlCommands` that the GUI reports
the same figures with every fileset of an inode space (its `GuiAssumption`, another than
the one of `Gateway`).

**`GatewayProofs`** begins with the token store. The invariants are not inductive as they
stand. Four layers are, each step of each proved from the ones before it:

1. `Locking` – the types; a goroutine is inside `save` exactly when it holds `saveMu`,
   so at most one is; before the rename the temporary file is whole and holds the copy
   of the holder. This gives `TypeCorrect` and `TokensJsonNeverTorn`: the file only ever
   changes to what was completely written by the one writer.
2. `Deleting` – how far each running delete has got: once its token is out of the map
   no later copy has it, and once it has saved neither has the file. A copy taken before
   the removal is renamed before the delete gets `saveMu`. Gives `DeleteIsFinal`.
3. `Creating` – the same for creates, with `Kept`: from the answer on the token is in
   the file, the map and every copy about to be written, until a delete takes it or a
   start cannot read the file. Gives `CreateIsDurable`.
4. `Lagging` – a copy is behind the map only on tokens of requests that still wait for
   `saveMu`. Gives `DiskLag`.

The refinement adds `Settling`: a copy has every token that map and file share, and
what is new to the file has not been revoked. Then every step of the store is a step of
`TokenRegistry` or a stutter (`StoreImplementsRegistry`). Most steps change no life; the
rename settles many at once, and `Settling` is why it takes none back.

The second half of `GatewayProofs` shows first that the gateway implements the store
(`GatewayImplementsStore`: each step of the gateway is a step of `TokenStore` or a
stutter), so the theorems above hold of it. `ProxyInv` then relates each request to the
store: a secret presented was once given out, `late` is only set for tokens whose
delete was answered, and a request past the checks acts on a file system of its token.
The decisive step is `Check`: a late request's token is by `DeletedIsFinal` not in the
map, so `Validate` fails. This gives `RevocationHolds` and `TenantsStayApart`;
`LiveTokensAreAccepted` needs `CreatedIsDurable` at that step.

**`PolicyProofs`** is about every path of any length. `Open` is the shape of what the
always-on rules match: a read, the refresh, or something below a file system, four or
more segments deep for a PUT and not directly in `filesets` for a POST. Each such rule
matches only that shape (`OpenMatch`), a gated rule never does, and where it names no
file system it is one of the AFM endpoints (`GatedMatch`). `GatesHold` and
`ChangesAreCharged` follow from the rule that allowed a request. `matchPattern` looks at
lengths and places, while what a pattern means is said segment by segment: `MatchMeans`
compares the two by induction from the ends, for patterns with `**` last as all of `rules`
have it (`RuleShape`): a pattern means what is matched and has no empty segment. As
`allows` refuses those, `RulesMeanWhatTheySay` follows. `NothingToResolve`
is an induction over a path without empty and dot segments: what has been resolved of it
is what there was. So `CheckedIsWhatIsMeant`: the file system a request is charged to is
the one its resolved path names.

**`MmctlWriteProofs`.** The invariant says where a command stands with the write at hand
(`AtHand`), that what is before it is settled (`Before`), what is after it has not begun
(`After`), and how it ended (`Ended`). It is proved for any plan of any length;
`SetquotaIsWrite` carries it over to mmsetquota. `FailureHasCause` is inductive only
with the job's final status kept beside `seen`. For mmsetquota `Planned` adds that the
plan is that of the line. `PlanSuitsLine` compares the plan with the synopsis, case by
case, and `PlanIsWanted` what the writes of a plan leave at the GUI with what the line
wants; both rest on `SplitListKeeps`, an induction over the parts of a list. With the
writes being a prefix of the plan this gives `SynopsisKept`, `NothingElseChanged` and
`LimitsAreAsked`.

**`ServerProofs`.** `Generating` follows the pair from file to file; the serial is that
of no file there was, so half a pair never passes for a whole one. `PairStays` follows,
since the steps that write a file are taken only from such a state.

**`MmctlQuotaProofs`.** First what lists are: a finite set with a strict order has one
listing (`OrderedListing`, by induction over its size), so `Listed` is in order and has
every member once, and what `Taken` picks is counted without looking at the order
(`CountPicked`). Then the parts of an invariant, each proved from the ones before it:

1. `TypeOK`, and `IdsDiffer`: no two filesets of a file system have one id, or a listing
   by id would not be one.
2. `UnderWay`: what each phase finds; a collection still to read is that of the target
   under way, or of a fileset that the listing had and that is there or has gone since.
   With `Drawn`, that all the lists come from the targets and those from the operands,
   it gives `ReportFailuresHaveCauses`.
3. `IdsRead` and `StatesRead`, for `IdsRightInOne` and `EnforcementIsRight`.
4. `EachOnce` is bookkeeping: a quota whose fileset stays stands in the report as often
   as there are pairs done that ask for it, and of the pair under way it is read or in
   exactly one collection still to read. A fileset that stays cannot leave or join that
   list, whatever others do (`KeptBefore`). At the end no pair is left, and `CountPairs`
   turns pairs into targets: `StableQuotasAreReported`.
5. `Ordered`: the pairs still to be listed are the last ones, the report has quotas of
   those done only, what is read of a pair and what is still to be read of it climbs,
   and so does the report. A relation along a sequence is kept by appending, by taking
   away and by a stable sort (`AlongSorted`); `OrderKept` says that creating and deleting
   filesets cannot disturb it. This is `LinesKeepTheirPlaces`.

**`MmctlFilesetProofs`.** `Listing`: a fileset's name is its own. `Chosen`: between its
requests a command by junction has the name of a fileset that was linked there, unless a
name has changed hands. `Counted`: what is sent is the product of numbers an integer
holds, which `WrappedFits` says is exact when it fits.

**`MmctlLinesProofs`** is about lines of any length, with any operands and values, and
about rows and records of any number of values, of any length and in any widths.
`ReadAsMeant` speaks of a whole line, and nothing about a line that is half written
follows from it; the invariant `Composed` says what `parseOptions` has read after each
item (`Understood`): an option the command has not has stopped it, and otherwise it waits
for no value, its operands are those meant, its options are those given, in the order
they were first given, and each value is the last one given (`Agrees`). An item is one
argument or two, and `ItemTaken` says what taking each kind does, which needs that no
option of a command is both with and without a value (`Sound`, looked up for all fourteen
commands in `CommandsSound`). A "--" and the choice of a command follow in `LineRead` and
`MainRead`, and with them `LinesReadAsMeant`. From there each line that runs has known
options, values and operands (`RunLine`), and the rest is about those:

- `LinesKeepToSynopsis` compares `Refuses` with `Synopsis` and `Lenient`, command by
  command; the value of an option that counts is the last one given, so what the
  synopsis says of limits and block sizes is said of that one (`SettledIn`).
- `RequestsAreAllowed`: a request of mmctl goes below a file system along one of the
  paths of `FilesystemRules`, `FilesetRules` and so on (`BelowFits`), whatever stands in
  the place of a name, or to one of the fixed paths; `allows` then depends only on
  whether a segment is one that is to be resolved (`RequestsPass`).
- `OperandsAreHeeded`: a word in a list is in one of its parts, and what `Flat` and
  `Where` make of sequences has each of their members (`ListsSplit`, `NamesSplit`).
- `ListingsRepeatNothing`: `Where` keeps an order and adds nothing, so the rows selected
  for options given in turn come in turn (`AskedInTurn`, `SelectedInTurn`); the inodes of
  a space are added up row by row, a dependent fileset adding nothing (`SpaceAddsUp`).

- `RowsAndRecordsReadBack`: every step of `at`, `rightAt`, `cell` and `rcell` adds
  spaces, the marks of one value and spaces, with at least one space between what was
  there and the marks (`GrownAt`), so a row holds each value in one piece (`Placed`), and
  at its column if those before it have left room (`BeginsAtColumn`). The reader of a
  record, fed with what `yEncodeChars` makes of a character, adds that character to its
  field (`CharTaken`): `%` and `:` are escaped in every field (`EscapesEnough`), and no
  two characters have one code (`CodesAre`).

Only model-checked is liveness (`EveryRequestAnswered`, `ComesUp`,
`HangsOnlyOnARequest`), which rests on fairness and ENABLED; the prover does not handle these.

## Not modelled

- `List` and the refusals of the management API (400, 401): they change nothing.
- Header rewriting, the audit line and the access log: nothing reads them back.
- The page cache: a crash here is of the process; after a power failure the rename may
  survive without the data, since nothing is synced (`token.go:173-176`). What then is
  on disk is up to the file system and not to this code.
- Random ids and secrets: 64 and 256 bits, taken not to repeat.
- The layout of a report: which columns there are, block sizes and dates, and from which
  field of the answer mmlsfs takes a value; the designations mmlscluster derives.
- `-e` of the quota reports: it is accepted and nothing looks at it.
- Deployment scripts and manifests, except the restart policy.

## Plan

Modelled first is what decides who may do what (`TokenStore`, `Policy`, `Gateway`),
then the life of the process (`Server`), then mmctl where it makes changes
(`MmctlWrite`, `MmctlFileset`), reports over time (`MmctlQuota`) or decides by order
(`MmctlArgs`). Upon these came the abstract `TokenRegistry` with its refinement,
mmsetquota from its line to what the GUI keeps, the checks and requests of every command
against the allowlist, the output, and proofs about all of them. Left:

1. `Server` with the shutdown of `main.go:135-143` joined to the handlers of
   `TokenStore`; the token commands of mmctl joined to the management API.
2. A variant of `TokenStore` for a file system that may lose or reorder what was not
   synced.
