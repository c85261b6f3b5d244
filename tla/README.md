# Verification of mikrotik-zed in TLA+

mikrotik-zed is a Zed extension for MikroTik RouterOS scripts. It has three
programs: the extension (WASM, run by the editor, installs the language server),
the language server `rsc-lsp` (a process speaking JSON-RPC over stdio), and Python
scripts that deploy a script to a device or check it there.

This directory holds TLA+ modules for the parts with state that changes under
concurrency, failure or an adverse order of messages, TLC configurations that check
them on small instances, and proofs checked by TLAPS for all instances.

    tlc -workers 2 -config live_cache.cfg MCLiveCache      # any run of the table below
    tlapm LiveCache_proofs.tla                             # the proofs of a component

## The system

| Component | State | Operations | Interacts with |
|---|---|---|---|
| Extension installer (`src/src/lib.rs`, `cache.rs`, `verify.rs`, `platform.rs`) | work directory: binary, marker file, staging files; `cached_binary` in memory | `language_server_command`: check the cached pair, download, verify, publish, mark | the editor (one call at a time per process), the release server, other editor processes on the same directory |
| Server loop (`lsp/src/server.rs`, `framing.rs`, `main.rs`) | `shutdown` flag, input position | one frame at a time: read, parse, dispatch, reply | stdin, stdout; owns the documents, the parse cache and the configuration, shares the live cache |
| Document store (`server.rs`, `encoding.rs`, `server_publish.rs`) | `docs`: URI to text | didOpen, didChange (batches of edits), didClose | the client's copy of the text; parse cache; diagnostics |
| Parse cache (`parser.rs`) | entries by URI, insertion order | lookup or parse, invalidate | document store |
| Live cache (`live_cache.rs`) | entries, negative cooldowns, recorded attempts, behind one mutex | try_get, spawn decision, insert, insert_negative, clear | server thread and fetch threads |
| Fetch threads (`live_fetch.rs`) | permit counter (atomic), captured key and configuration | acquire, fetch, store, release | device, live cache |
| TLS agent cache (`live_fetch.rs`, `live_net.rs`) | up to eight agents behind a mutex; CA bundles known to be bad | look up, build, insert | fetch threads, CA bundle on disk |
| Live configuration (`live_config.rs`) | environment, settings in force | read the environment, overlay workspace settings, scheme and verification | server thread (replaces it), fetch threads (clone it) |
| Device address policy (`live_net.rs`) | operator's deny prefixes | accept or refuse a host and the addresses a resolver answers | fetch threads |
| Position encoding (`encoding.rs`) | none | line and column to byte offset in UTF-8 or UTF-16 and back | document store, every feature |
| Lexical scanner (`parser.rs`, `diagnostics.rs`) | quote state while scanning | tokens, logical lines and their position map, structure events | every feature |
| Navigation, folding, syntax diagnostics (`navigation.rs`, `rename.rs`, `folding.rs`, `diagnostics.rs`) | none | definition, references, rename, foldings, unmatched braces and quotes | document store, scanner, encoding |
| Other language features (`completion.rs`, `hover.rs`, `signature.rs`, `symbols.rs`, semantic diagnostics) | none | answer from text and command data | document store, live cache |
| Deploy script (`scripts/mikrotik-deploy.py`) | one invocation; what the device has and has run | gates, REST with a fallback, SSH with polling | device |
| Live check script (`scripts/mikrotik-live-check.py`) | one invocation | one GET with one repetition, an exit code | device |
| Shared script library (`scripts/_mikrotik_shared.py`) | none | look up, check and pin addresses; TLS set-up | both scripts |
| Data and release scripts, grammar, queries | none | batch | none |

`PROJECT.json` lists each with its status and the hazards that tests hardly reach.

### What is hard, and what would make it right

| Component | Hard because | Right if |
|---|---|---|
| Live cache and fetch threads | threads, a server thread that checks, records and takes a permit in separate critical sections, time, a connection that changes under a fetch | permits exact and bounded, stale entries evicted first, one fetch per key within a window, results never go back in time, no key locked out, values of an old connection fade |
| Live configuration, agents, addresses | settings come from the opened project and may change under a fetch; agents are found, built and cached in separate lock sections; names are looked up once and dialled later; octets compared by hand | requests go to allowed addresses and trusted devices only, settings cannot redirect the connection, make it plain HTTP or have it trust a device that neither the environment nor a pin of theirs names, agents bounded, the tests on octets are the documented ranges |
| Installer | eight operations that may each fail, a process that may die, two processes on one directory, files changed between check and use | only verified bytes stored and run, marker never half written, nothing left behind, recovery without help |
| Document store, encoding, parse cache | batches of edits against moving positions in two encodings, caps, fallbacks, a cache keyed by name | server and client texts equal, caps hold on every path, cache and diagnostics follow the text |
| Server loop and framing | alignment after anything skipped, lines cut by a cap, an end of stream anywhere | each read starts at a frame, each message handled once and in order, every request answered, the process ends when the stream does |
| Scanner and navigation | positions go from wire units to bytes to joined lines and back; edits of a rename are computed at once; findings arrive out of order at a bounded retainer | a position sent leads back to its name, a rename changes one variable and nothing else, the findings kept are the earliest ones |
| Deploy and live check scripts | a device that answers late, after it ran, in part or never; a fallback after an unknown outcome; two HTTP clients | exit codes tell what happened, nothing is sent twice, only checked addresses are dialled, the verdict does not depend on the client installed, a script ends |
| Other features, data scripts | nothing kept between calls | functional correctness, which unit tests reach |

## Modules

| Module | Models | Code |
|---|---|---|
| `LiveCache` | live cache, permit semaphore, fetch threads, the handlers of the server thread that use them | `live_cache.rs`, `live_fetch.rs`, parts of `server.rs` |
| `FetchPermits` | what the semaphore promises; `LiveCache` implements it | doc of `FetchPermit` |
| `Lists` | what is left of a list when entries go (`filter`, `dedup`), by places; extended by `DocSync`, `Framing`, `HostPolicy`, `Dial`, `Script` | |
| `HostPolicy` | addresses, ranges, deny prefixes, hosts, resolver answers; the documented ranges as blocks | `live_net.rs` |
| `LiveSettings` | environment, overlay of settings, scheme, verification; extends `HostPolicy` | `live_config.rs` |
| `LiveFetch` | one fetch from configuration to request, the agent cache, the CA bundle; extends `LiveSettings` | `live_fetch.rs`, `live_net.rs`, parts of `server.rs` |
| `Installer` | `language_server_command` in any number of editor processes over one work directory | `src/src/lib.rs`, `cache.rs`, `verify.rs`, `platform.rs` |
| `Encoding` | positions, offsets and edits, as operators | `encoding.rs` |
| `DocSync` | document store, parse cache and published diagnostics against the client's text; extends `Encoding` | `server.rs`, `server_publish.rs`, `parser.rs` |
| `Script` | quotes, tokens, logical lines, structure, syntax findings, foldings; extends `Encoding` | `parser.rs`, `diagnostics.rs`, `folding.rs` |
| `Navigation` | definition, references and rename, with a client that applies the edits; extends `Script` | `navigation.rs`, `rename.rs`, `server_proto.rs`, `server.rs` |
| `Framing` | the server loop over the frame reader, on a stream the client writes and closes | `framing.rs`, `server.rs`, `server_proto.rs` |
| `Dial` | lookup, address check, pinned connection, TLS set-up of the scripts | `_mikrotik_shared.py` |
| `Deploy`, `LiveCheck` | one invocation of each script, the device a process of its own; extend `Dial` | `mikrotik-deploy.py`, `mikrotik-live-check.py` |
| `Companion` | the two scripts as the editor's tasks | the three scripts, `tasks.json` |
| `MC*` | constants and symmetry for TLC | |
| `*_proofs` | theorems, checked by TLAPS; `Lists_proofs` holds lemmas on lists, finite sets and recursive functions that the others cite | |

`DocSync` composes the document store with the position encoding, the parse cache and
the client; `LiveCache` composes the handlers with the cache, the threads and the
semaphore; `LiveFetch` composes configuration, address policy, agent cache and device;
`Navigation` composes scanner, encoding and an editing client; `Framing` composes the
loop with the reader and the client; `Companion` composes the scripts with a device.
`LiveCache` says when a fetch starts and what becomes of its answer, `LiveFetch` what
happens in between: `FetchOk` and `FetchErr` of the one are the outcomes of the other.
In `server.rs` the components meet only through handlers that run one at a time, which
each module keeps: the messages of `Framing` are the actions of `LiveCache`, `DocSync`
and `Navigation`.

A definition whose name starts with `Bad` is a plausible slip in the definition after
it. No specification uses it; put in its place it must break a property, which shows
that the property depends on that code.

Some helpers take a value that is used often as a parameter, or bind it by
`\E x \in {e}`, instead of naming it with `LET`: TLC then evaluates it once, and its
coverage tree does not repeat its definition at every use.

### LiveCache

One action per critical section of the cache mutex, because between two of them any
thread may run. A completion is `Check` (freshness and `should_attempt`), `Record`
(the attempt), `PermitLoad`/`PermitFull`/`PermitRetry`/`Spawn` (the load and the
compare-and-swap of `FetchPermit::try_acquire`, then `thread::spawn`); a thread is
`FetchOk` or `FetchErr`, then `ReleasePermit` (the guard's drop). `Completion`,
`Refresh`, `DidClose` and `ChangeConfig` start or clear. `entries`, `cooldown` and
`coalesce` are the three maps of `LiveCache`, with times kept as ages and countdowns
moved by `Tick`, capped where the code can no longer tell them apart. A value is the
connection it came from. `fetch[t].cleared` and the `since` fields are history: how
long ago an attempt started and whether a clear forgot it.

The custom-key path does not look at freshness again in its second critical section,
although its doc says it mirrors the built-in one; the model follows the code. A panic
of a fetch thread, which drops its permit while unwinding, is left out.

### HostPolicy, LiveSettings, LiveFetch

An address is its family and its octets, so that the comparisons of `live_net.rs` are
the ones checked; a host is a literal, written canonically or not, or a name of one of
four classes. `Documented` restates the ranges of the comments as blocks with
membership decided bit by bit, and `Probes` are both ends of every block and every
address one prefix bit away from them, plain and mapped into IPv6. TLC compares the two
on the probes, `LiveFetch_proofs!DeniedAsDocumented` proves them equal on every address.

An environment and a settings object are records of classes: what a switch or number
is parsed to, a user that may be invalid, deny entries with their length in bytes.
`Overlay` is `apply_settings_value_with_transport`, one operator per key; `FromSettings`
starts from the environment each time, as the code does.

`fetch[t]` is one fetch thread between lock sections. `Start` clones the configuration;
`Lookup` resolves, checks every address and looks for an agent (first lock section);
`Build` runs without the lock, reads the bundle and may mark it bad; `Insert` is the
second lock section, with the eviction at the cap; `Send` meets a device with any key
and issuer, and the request follows the handshake; `Receive` ends the fetch.
`ChangeConfig` is `workspace/didChangeConfiguration`, `EditBundle` the operator's hand.
`unread` is history: a bundle could not be read when an agent was built. The agent key
has the port because the code keys on socket addresses.

`SettingsStayHome` compares what the project's settings amount to with the environment.
Hosts, port, user, paths, scheme and address policy are the environment's or stricter. The
check of the device is not: a valid pin in the settings takes the place of the pin, of the
malformed pin or of the check of the chain that the environment has, without the opt-in
(`live_config.rs:599-622`), so the property allows a device with that pin, and the run
`live_fetch_pin` shows that the environment does not always win.

Left out: the body of the answer with its caps, and the path of the bundle: there is one,
so the mark that it is bad, which the code keeps until the process ends, is a Boolean.

### Installer

The files are `stored` (the binary), `marker` and `staging` (per process). `inst[i]`
is one process: program counter, which of the three integrity gates it is at, and the
release it asked for. Each file operation is an action, so that another process, a
crash or a change by someone else (`Tamper`) falls between any two. `Tamper` writes what
it likes, release, other bytes or a digest, to the binary, the marker or a staging file
that is there, or removes it; `tampered` notes that it did. `StoredVerified` and
`MarkerWhole` hold until then. `RunsVerified` holds further, until somebody records the
digest of bytes that are no release's (`tampered = "forged"`): the gate of
`cache.rs:188-212` compares the binary with the marker next to it, authenticates neither,
and so lets a foreign pair that agrees pass. `StepFails`,
`DownloadFails`, `ReadFails` and `RemovalFails` are the error exits with their cleanup.
A digest is the identity of the bytes, the staging tag is the process (the counter in
it is abstracted). Left out: the exit for an unsupported platform, which touches
nothing, and the temporary file of a marker whose write fails half way, which nobody
reads.

### Encoding and DocSync

A text is a sequence of characters, each with a width in bytes (`Width`) and in UTF-16
units (`Units`); offsets are character boundaries. The client edits its own text and
describes each change as a range in the negotiated encoding, in lockstep with the
server, over one ordered channel. `DidChange` is one element of `contentChanges` with,
for the last, the end of the handler (invalidate, publish); malformed elements are
skipped as the code does. `partial` holds the documents the server was not given in
full: rejected at the cap, truncated, opened with a BOM, or changed with an unreadable
range. The code chooses its fallback there, and `Synced` leaves them out. The client
counts lines at a line feed and never puts a position between CR and LF; its texts are
`Paired`, a CR only ever before an LF (see "Disagreements"). Equal length
and hash stand for equal texts. A failed write of a notification is logged and ignored
by the code and left out.

### Script and Navigation

A character is a symbol and a whole command (`:local`, `:global`) a single one; names,
quotes, braces, backslash, `#`, `$`, `;`, blank, CR and LF are symbols of their own.
`Advance` is `QuoteState::advance_byte`, and every scanner runs it along a line (`ScanFrom`).
Each loop is a recursive function over its input (`Events`, `FindingsOf`, `RegionsOf`,
`LogicalLines`), with its body an operator (`Walked`, `Matched`, `Folded`, `Joined`).
`LogicalLines` joins physical lines at a trailing odd run of backslashes and keeps the
segments; `MapPos`, `MapRange` and `LogicalOffset` are the maps between the two. A line
of `effective_content_end` starts with no quote open, one of `walk_structure` with the
quote the line before left open, as in the code.

`Findings` runs the events over a stack capped at `MaxBraceDepth` and a retainer capped
at `MaxFindings`; `FoldingRanges` sorts and caps. `StructureAgrees` compares both with
`Partners`, a definition of matching by counting. Within the depth they agree; past it
(`Over`) the code gives up closing braces, and what is left to say is that it reports
nothing false: no brace that has a partner, no closing brace after such a place.

In `Navigation` the client types fragments at the end, asks at any position of its text
in the negotiated encoding, and applies the edits of a rename. `Ask` is the three
handlers: join, index, find the occurrence under the cursor, answer. The store holds the
client's text there: that is `Synced` of `DocSync`.

`AnswersResolve` reads a name that was sent back from the client's text. Where the name
goes on over a line end, the text between also holds what the join leaves out: the
backslash, and white space or a comment after it. `Held` are the places that the lines
contribute, and the name is what stands there; a range begins and ends at such a place.

The guards of the properties are limits of the code, stated under "Disagreements":
`Alone` (a neighbouring `-` or `/`), `Split` (a name that goes on over a line end).
Both hover's and the index's notion of a word are modelled. `declared_variable` names
only the first declaration of a logical line.

### Framing

A byte is a symbol, and the text `Content-Length: n` is a single one, so that what
matters is where lines, caps and the end of the stream fall. `Write` appends a frame
or its beginning, `Close` ends the stream. A frame is what a client means by one
(`FramesAssumption`): its headers end at their first blank line, and a length they give,
read whole or as far as the cap allows (`Within`), is malformed or that of the body. The
reader blocks until a chunk is complete.
`HeaderChunk` is one turn of the header loop; `header_too_large` is derived from
`header_bytes`. `Skip`, `Body`, `BodyCut` and `NoLength` are the decisions after it;
`Request`, `NotJson`, `Notification`, `Shutdown` and `Exit` are the dispatch, which
tells messages apart by whether they ask for an answer. `sent` and `starts` are the
client's view of where frames begin. Left out: a panic in a handler.

### Dial, Deploy, LiveCheck, Companion

`deploy` is one invocation of the deploy script: program counter, options, exit code.
`Gate` is everything `main` decides without the network; refusals that share an exit
code are one `problem`. `Target` is the one lookup. Over REST the script goes through
`Ask` (dial, handshake, write), unless the CA file it was given is not there
(`NoBundle`, an error nothing catches), then `Lost` (timeout or reset) or an answer, with the
fallback from execute to upload and import; over SSH through connect, upload, exec and a
poll with a deadline. `device` takes a request, may run it, may answer, in any order the
network allows, also after the client has given up. `heard`, `sent`, `dialled` and
`lookups` are history.

`check` and `world` are one live check: the TLS options, the client installed and the
peer are drawn at the start. `Dial` has the lookup with its check, the sockets tried in
order, and the two TLS set-ups. A GET that times out is given one more (`After`): urllib
tells a connection not made in time (`slow`) from one refused and repeats it, with
requests that depends on the scheme and the version, so both are possible. `Companion` starts one script at a time; neither keeps
state, so one of each is enough.

Left out: messages, redaction of secrets, the content of the uploaded script, and the
exact wording of failure markers (a body is `fine`, `marker`, `large` or `cut`).

## Runs

| Run | Instance | Distinct states | Shows |
|---|---|---|---|
| `live_cache` | 3 keys (one custom), 3 threads, 2 permits, 2 entries | 3,969,798 | permits exact, stale first, values of an old connection at most the permits |
| `live_cache_fair` | 2 keys, 1 entry, window of 2 ticks, fairness | 263,056 | `SingleFlight`, `NoOvertaking`; the semaphore refines `FetchPermits`; `ForeignFades`, `NoLockout` |
| `live_cache_reconnect` | 2 connections, both active | violation | a fetch in flight stores values of the old device after the clear |
| `live_fetch` | 2 threads, 2 agents, 7 environments, 19 payloads, 6 resolver answers | 318,300 | `AddressesAllowed`, `PolicyExact`, `DeviceTrusted`, `SettingsStayHome` |
| `live_fetch_pin` | the same | violation | a pin in the settings replaces the one of the environment |
| `installer` | 2 processes, 2 releases, failures, crashes, files and digests replaced | 2,915,724 | `StoredVerified`, `MarkerWhole`, `NoResidue`, `RunsVerified` |
| `installer_heal` | 1 process, fairness | 23,334 | after the last fault the pair agrees and stays so, on a release unless another digest was recorded |
| `doc_sync` | 2 documents, room for 1, 5 bytes each, 3 characters in all | 14,799 | texts, caps, queue, cache and diagnostics agree |
| `doc_sync_bom` | 1 document opened with a BOM | violation | edits on its first line land one character off |
| `navigation` | 17 fragments, up to 3 of them, both encodings, 3 new names | 60,092 | `AnswersResolve`, `RenameFaithful`, `StructureAgrees` |
| `framing` | 3 frames out of 18, headers of 6 bytes, bodies of 2 | 365,409 | `InStep`, `Answered`, `WholeLines`, `EndsForCause`, `Ends` |
| `companion` | every set of options, 2 addresses, 5 resolver answers, deadline of 2 polls | 58,201 | `ExitsTell`, `NeverRetried`, `DialsChecked`, `VerdictTrue`, `TasksEnd` |

Why these bounds are enough. The live cache has races between one server thread and
threads of one key, and evictions among keys: two permits are fewer than the three
thread identities, so that the cap is met and passed on; one cap below the number of
keys forces eviction; windows of one or two ticks give each of "inside", "at the end"
and "past". Three keys where eviction order matters, two elsewhere. For the agent cache
two builders and two places give a race on one key and an eviction; the third start
meets what both left, and one change of settings and one of the bundle may fall between
any two sections. Its environments are chosen so that each key of the settings is both
stronger and weaker than what is there, with and without the opt-in. Two processes
suffice for files shared pairwise; two releases tell an update from a reinstall. Texts
of three characters hold a wide character with something on either side, a CR LF, two
lines; the same run was done once with a letter and a lone LF among the inserted
fragments (102 thousand distinct states, no violation). Three fragments make a
declaration, a usage and something between or around them: a string, a comment, a
continuation, a brace; random simulation with up to eight fragments found no
violation either. Caps of two braces, two findings and one folding are exceeded by
three fragments; two of the fragments are three braces in one line, so that closing
braces, matched and not, come after the depth was exceeded. Frames lie at a cap, one byte beyond and well beyond, in headers and in
body; three of them put a message before and after whatever is skipped. The cap of six
bytes holds a length line and one other. A deadline of two polls has a poll that finds
nothing, one that finds the end, and the deadline.

Bounds that the code does not have: `Fetchers` (thread identities, above the permits in
`LiveCache`, at most the permits in `LiveFetch`), `MaxText` (the client's texts
together), `MaxFrames`, `MaxStarts`, `MaxChanges`, `MaxEdits`, `MaxTyped`, one request
between two insertions in `Navigation`, and ticks in the place of seconds. The limits of
the configuration (hosts, custom resources, deny prefixes) have the values of the code.

`CHECK_DEADLOCK FALSE` appears in the runs of `Framing` and `Companion`, where the
process ends, and of `LiveFetch` and `Navigation`, where the bounds on fetches and
insertions stop the client. Everywhere else a deadlock would be reported.

### Fairness

`LiveCache`: weak fairness of the server thread inside a handler (a running thread is
scheduled; no handler waits for a lock held across I/O), of each fetch thread (sockets
have connect and read timeouts, so an answer or an error comes) and of time. The client
owes nothing. The fairness of a fetch thread assumes that `getaddrinfo`, which has no
timeout, ends. `Installer`: weak fairness of the steps of a call and of calls, for one
process: a call runs to its end and the editor asks again. Two processes can undo each
other's work for ever, so `Heals` is stated for one. `Framing`: weak fairness of the
server, which goes on once what it reads is there. `Companion`: weak fairness of the
steps whose wait has a timeout, so `TasksEnd` names the waits that have none (SFTP,
`exec_command`, the read of the output); the device owes nothing. The resolver
(`getaddrinfo`) and the prompt for a password have no timeout either and are assumed to
end. `DocSync`,
`LiveFetch` and `Navigation` state safety only.

## Proofs

| Theorem | Property | Argument |
|---|---|---|
| `LiveCache_proofs!TypeCorrect` | `TypeOK` | inductive by itself |
| `SemaphoreExact` | `PermitsExact` | a spawn and the counter move in one step, as do the end of a thread and its release |
| `SemaphoreRefinement` | safety of `FetchPermits` | from `PermitsExact`, step by step |
| `CapHolds`, `StaleGoesFirst` | `CacheBounded`, `EvictsStaleFirst` | an insertion evicts exactly one at the cap |
| `ForeignLimited` | `ForeignBounded` | a foreign entry takes the place of a foreign fetch; a connection change empties the cache |
| `Coalesced`, `InOrder` | `SingleFlight`, `NoOvertaking` | `FlightInv`: an attempt that is recent and not forgotten keeps its key closed, so everything else about the key is older |
| `LiveFetch_proofs!TypeCorrect` | `TypeOK` | every step of the overlay keeps the form and the caps of a configuration |
| `AgentsCapped` | `AgentsBounded` | an insertion takes out its own key, and one entry first when the cache is full |
| `TrustHolds` | `DeviceTrusted` | `IInv`: every agent, cached or in hand, checks what its key asks for, or the platform roots when a bundle was not read; a fetch takes an agent only under its own key |
| `HomeKept`, `SettingsHome` | `HomeInv`, `SettingsStayHome` | every key of the overlay but the pin, without the opt-in, is the environment's or stronger, and the pin is the environment's or a valid one of the settings; a fetch keeps the configuration it cloned, and `DeviceTrusted` says what that asks of the device |
| `DeniedAsDocumented` | | comparing octets is comparing bits, block by block: a prefix that ends inside an octet is an interval of that octet, and a mapped IPv6 address is judged as the IPv4 one |
| `AddressesChecked`, `PolicyProved` | `AddressesAllowed`, `PolicyExact` | every address of an answer is checked before one is kept (`dedup` keeps a member of each run), then `DeniedAsDocumented` |
| `Installer_proofs!TypeCorrect`, `OnlyVerifiedStored`, `MarkerAtomic`, `OnlyVerifiedRun`, `NothingLeft` | the safety properties of `Installer` | without tampering, staging files past verification hold verified bytes, and each belongs to one process; with it, what is hashed is compared with a digest of a release unless another was recorded (`Digests`) |
| `DocSync_proofs!TypeCorrect` | `TypeOK` | every conversion returns an offset inside its line, whatever the widths |
| `RoundTrip` | | in either encoding the offset the server finds for the client's position is the client's: a sum of positive widths meets a value once, so the scan stops there and nowhere earlier |
| `TextsAgree` | `Synced` | `SInv`: texts are `Paired` and a document given in full has the client's text; by `RoundTrip` both sides cut at the same places |
| `DocumentsCapped`, `CapsHold` | `DocsBounded`, `StoreBounded` | a batch under way has had its room checked; a text over the cap is never stored; the queue loses the places of what leaves the cache |
| `CacheFollowsStore`, `ScreenFollowsStore` | `CacheCurrent`, `DiagnosticsCurrent` | outside its batch, a document's cache entry and diagnostics are of its text |
| `Framing_proofs!TypeCorrect` | `TypeOK` | a length is a natural number or none; reads end inside the stream |
| `NoLineInPart` | `WholeLines` | within the cap the kept text is all that was read; a chunk that ends neither a line nor the stream has used a budget one larger than the room left, so it passes the cap and is dropped |
| `EachAnswered` | `Answered` | until the process ends, the answers are those of the messages handled: the `n`-th of them that asks has the `n`-th answer |
| `AlwaysInStep` | `InStep` | `FInv`: the stream is the frames written, one after the other (`Written`), and the reader is at a place of the `k`-th of them that its state tells (`Reading`), having served those before it (`Served`) |
| `EndsOnlyForCause`, `ExitStatus` | `EndsForCause`, `ExitTells` (a part of it) | a chunk without a line end is the rest of a cut frame; the block read is the head of frame `k` as far as the cap allows; the flag is set exactly when a shutdown was handled |
| `Companion_proofs!TypeCorrect` | `TypeOK` | both scripts and the device, step by step |
| `ExitTold` | `ExitsTell` | what was heard last and what was sent decide the exit, every way out closes the socket, and a missing CA file is met by the first request (`Bundle`) |
| `RequestsNotRepeated` | `NeverRetried` | the requests written are a prefix of execute, put, import, or one exec, and the device has run at most those of them that run a script |
| `DialsPinned` | `DialsChecked` | addresses come from the one accepted answer, in both scripts |
| `VerdictSound` | `VerdictTrue` | a second GET only follows a timeout of the first, and both clients check the same peer |
| `Navigation_proofs!StructureAgreesAlways` | `StructureAgrees` | events come in the order of the text (`WalksTo`); the stack holds exactly the opening braces without a partner so far, each as deep as the count from it says (`Stack`), so a closing brace meets its partner on top; once the depth was exceeded it holds the outermost of them (`Under`), and closing braces are no longer reported; the retainer keeps all findings or those before all others (`Recorded`) |
| `AnswersResolveAlways` | `AnswersResolve` | `AnswerSent`: the ranges of an answer are those of hits of the text that is there. Logical lines lie one after the other over the lines of the text (`Laid`), each holding what they contribute (`Made`), so every character of one has its place in the text (`Placed`); the maps between the two, and the measures of the encodings, undo each other; hits are whole names, and declarations come one to a line (`Indexed`), so a range belongs to one hit and a declaration is the last before itself |

The invariant is inductive only with the parts named in the table: each says what a step
in the middle of an operation knows, which the property itself says of its end only. TLC
checked each on the instance of the run before it was proved.

What looks like induction over a text is done without the library's induction theorems,
which no backend applies: sums are recursive functions, proved to exist and to satisfy
their equation from the least counterexample (`Nat` has no smallest violation), and what a
loop leaves of a list is said by the places it keeps (`Lists`). Two definitions were found
wrong by their proofs and mended: `CASE` arms that overlapped, in what `DocSync` notes of a
document given in part and in what `LiveFetch` builds when a bundle cannot be read. TLC
had taken the first arm that was true, which a proof may not. A third was a property: an
attempt to prove `AnswersResolve` showed that what stands between the backslash and the
line end of a name that is split had been forgotten, and a fragment was added to the run
that meets it.

The loops of `Script` are proved from `Lists_proofs!Recursion`: a recursive function over
`0 .. n` exists when each step leads from the set of its number to the next (`Unfolds`),
and its values stay in those sets (`StaysIn`). Each loop gets a family of such sets that
is its invariant: `WalksTo`, `MatchesTo`, `ClosesTo`, `FoldsTo` for the structure, `BuiltTo`
for the join, `IndexedTo` for the index. Where the braces are
deeper than the code tracks (`Deep`) the findings are proved to be true ones, and of the
folds only their type and their cap, as the property says.

Assumptions: those named `...Assumption` in the modules, which TLC evaluates on every
run: finite sets of keys, threads and documents, caps that are positive, more thread
identities than permits, distinct symbols for absent values, positive widths and units,
a newline that is neither white space nor part of a character or a length, LF and CR
distinct, characters of a name that are neither white space nor `$`. Of what comes from outside they say: an environment, a payload and a resolver's
answer have the form parsing gives them (`InputAssumption`), a client's texts are `Paired`,
its frames are framed (`FramesAssumption`). Nothing is assumed of a device, of the order
of steps, or of the values of the caps beyond their type.

Only model-checked: liveness and fairness (`ForeignFades`, `NoLockout`, `Heals`, `Ends`,
`TasksEnd`, and `ImplementsPermits` as a whole, whose safety part is
`SemaphoreRefinement`), which the prover does not reach; and `RenameFaithful` of
`Navigation`. It compares the index and the structure of two texts, the second made from
the first by the client's edits: besides what `AnswersResolveAlways` rests on, a proof
needs that the scanners take the same steps on both, place by place, over edits that move
every place after them.

## Disagreements between code and docs

Three runs are expected to fail; each states what a comment says of the code.

- `live_cache_reconnect`: `server.rs:1690` says that entries of a previous connection
  are stale by definition; a fetch in flight stores them after the clear. What holds
  instead is `ForeignBounded` and `ForeignFades`.
- `doc_sync_bom`: `encoding.rs:262` says a BOM can never shift positions; the client
  still counts the one it sent.
- `live_fetch_pin`: `live_config.rs:387-388` says that environment values always win, line
  599 that adding a pin is hardening. A valid pin in the settings needs no opt-in, replaces
  the one of the environment, clears the refusal a malformed one causes, and where there is
  none replaces the check of the chain. `SettingsStayHome` states what does hold.

Met while modelling, each followed by the model as the code has it, without a run:

- `mikrotik-live-check.py:436` says a custom CA bundle wins; with verification off and no
  pin the urllib client loads it and checks nothing, where requests checks the chain
  (`ContextVerify`, `SessionVerify`). `VerdictTrue` names this one set of options (`Lenient`).
- `live_cache.rs:698` promises one fetch in flight per key within the window, but a
  clear forgets the attempt; what holds instead is `SingleFlight`.
- `live_config.rs:82-83` says that a CA bundle that fails to load fails closed with
  `LiveError::Network`; `live_fetch.rs:271-303` uses the platform roots instead, sends,
  and keeps that agent. `DeviceTrusted` states what does hold.
- The key of an agent lacks the scheme, which the other fields imply; `Vec::dedup` drops
  adjacent duplicates of a resolver's answer only.
- The ranges of the Rust and the Python policies agree but for private ones, which the
  scripts allow on purpose.
- `framing.rs:137` says an oversized block with a length is skipped; past the cap each
  byte must be text by itself, so a wide character there ends the process, with exit
  status 0. `EndsForCause` admits it.
- A request that times out may be carried out by the device afterwards; whether the live
  check tries a connection that times out again depends on the client installed; a script may run twice when execute
  answers with an error after it ran (`NeverRetried` admits that one case).
- `parser.rs` says that its scanners share one rule, but `effective_content_end` starts
  every physical line with no quote open where `walk_structure` carries it over.
- The word under the cursor includes `-` and `/`, so nothing is found on `$x` in `$x-1`
  (`Alone` in `AnswersResolve`).
- A rename of a name that is split by a `\` at a line end joins the lines and can change
  what continues after it (`Split` in `RenameFaithful`).
- `rename.rs:20-21` says all declarations of a name are renamed together, but only the
  first `:local` or `:global` of a logical line is indexed.
- LSP counts a lone CR as a line end, `encoding.rs:175` counts line feeds only. A client
  that normalises line ends never sends one: `Paired` is an assumption of `DocSync`, and
  `RoundTrip` fails without it.
- A blank line's logical line reports physical line 0. A rename's edits carry no document
  version. Positions received are measured on lines without any trailing CR, positions
  sent on lines of `str::lines`, which keep a stray one.

## Not modelled

Completion, hover, signatures, symbols and the semantic diagnostics look texts up in the
command data and keep nothing between calls; the command parser (`parse_line`) feeds
them. `DocSync` abstracts diagnostics to the text they are of, `Navigation` models the
syntax diagnostics only. Logging, the command line, platform naming, the SHA-256 helper
and the data and release scripts are functions of their input. Grammar, queries and
command data are declarative. Real time, memory limits, panics and the operating system's
partial writes are out of scope.

Five hazards are listed without a property, with the reason in `PROJECT.json`: two
processes that undo each other's install for ever; the fragment stored for a document
that was refused or truncated before; an oversized block with two lengths; a resolver
that hangs; a second declaration on one logical line.

## What could follow

- Abstract specifications: a server that handles the deliverable messages in order,
  implemented by `Framing`; a store of texts edited atomically, implemented by `DocSync`
  at the ends of batches. Their proofs would rest on `Reading` and on `TextsAgree`.
- A proof of `RenameFaithful`: `Placed` and `HeldText` say where a hit is in the text;
  what is missing is a relation between the scans of a line before and after an edit.
- Modules: the command parser with its path stack, and completion on top of it, against
  a definition of which commands a cursor may see.
