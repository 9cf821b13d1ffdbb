# A TLA+ verification of tendermint-zk-ibc

tendermint-zk-ibc lets an EVM chain follow a Tendermint chain over IBC.  A
Solidity contract keeps the consensus states of the Tendermint chain that it
trusts; a relayer asks a prover for a zero-knowledge proof that a newer header
follows from a trusted one, and submits it to the contract.

This directory models that path: what the contract accepts and stores, how an
update is produced and delivered, how the state behind a header is proved, and
the services, files and encodings that take part.  Paths below are relative to
the repository's root.

## Inventory of the system

| Part | State | Operations | Hard behaviour | What makes it correct |
|---|---|---|---|---|
| Light client contract `contracts/TendermintZKLightClient.sol` (with `groth16/`, `plonk/` for the proof system) | `clientStates`, `consensusStates` per client | `initializeClient`, `updateState` (through `routeUpdateClient`), views, `verifyMembership`, `verifyNonMembership` | anybody may submit any message in any order; states expire; states are overwritten without a look | stores only what proofs lead to from the client's first state; latest height is stored; no rewriting; no update after expiry; honest updates accepted |
| Header tree `contracts/TendermintHeader.sol`, `go/relay/tree.go` | none | `merkleRoot`, `getSimpleTreeProof` | two languages must agree on six positions of a 14-leaf tree | opens time and app hash of the header that was hashed |
| Protobuf marshaler `contracts/TendermintZKLightClientProtoMarshaler.sol` | none | decode client messages | lengths and padding | decodes what the relayer encoded |
| Tree verifier `contracts/TendermintTreeVerifier.sol` | none | membership and non-membership in IAVL and simple trees | neighbours, padding, lengths | accepts a proof only if the key is (not) in the tree |
| Relayer `go/relay/prover.go`, `zkprover.go` | one call of `SetupHeadersForUpdate`, one goroutine and channel per proof request | `GetLatestFinalizedHeader`, `SetupHeadersForUpdate`, `AsyncProve`, `CreateInitialLightClientState`, `ProveState` | a proof takes minutes; timeouts; other relayers; wrong or late answers | what it submits is accepted; the client keeps up with the chain |
| Local light client `go/relay/tendermint.go`, `cmd/light.go` | LevelDB of light blocks | init, update, delete, show | one lock, several processes, retries | never returns an unverified header |
| Prover service `src/commands/service.rs`, `src/tendermint_client.rs` | one request in progress, others waiting | `/prove`, `/health` | concurrency limit, panics, RPC retries | answers each request with its own proof, or an error |
| gnark program `go/setup.go`, `service.go`, `prove.go` | files of circuit and keys; loaded keys, a mutex | `setup`; `/prove`, `/health`; `prove` | setup crashes between files and inside them and drops errors; keys are read while they are written; serialised proving | a process has the keys of the setup that succeeded or does not start; public inputs returned are those proved |
| Proof formats `go/relay/zkp/`, configuration `go/relay/config.go` | configuration | `Validate`, `Build`, `Parse...`, `EncodeEthABI` | fixed offsets into bytes from a service; three places choose the format | the contract decodes the words gnark made |
| Generated codec `go/relay/*.pb.go` | none | `Size`, `Marshal`, `Unmarshal`, skip | lengths from the wire, overflow, unknown fields | reads what was written; never leaves its buffer |
| Circuits `src/circuits/`, `go/circuit.go` | none | step (next height), skip (up to `SKIP_MAX`) | arithmetic in external libraries | a proof exists only for a header the validators signed |

The relayer calls the contract (views and `updateClient`), the prover service
(HTTP) and the Tendermint node (RPC); the prover service calls the node and the
gnark service.  There is no other shared state.  The contract's transactions
are atomic; everything else interleaves.

`PROJECT.json` lists every component, modelled or not, and the hazards at
their lines.

## Modules

| Module | Models | Uses |
|---|---|---|
| `TrustStore` | the promise of a light client, without messages, hashes or proofs | |
| `ZKLightClient` | the contract | `TrustStore` (refinement) |
| `ZKLightClientProofs` | theorems about `ZKLightClient` | `ZKLightClient`, TLAPS |
| `MCZKLightClient` | constants for TLC: chain, fork, messages | `ZKLightClient` |
| `UpdatePipeline` | relayers, prover service, and the contract they update | `ZKLightClient` as `LC` |
| `UpdatePipelineProofs` | theorems about `UpdatePipeline` | `UpdatePipeline`, `SharedLemmas` |
| `HeaderTree` | the tree over a header's fields, in Go and in Solidity (no state) | |
| `TreeVerifier` | the tree verifier, and IAVL trees as reference | |
| `StateProof` | `ProveState`, the opening of headers and the contract's membership checks on a growing chain | `TreeVerifier`, `HeaderTree` |
| `StateProofProofs` | theorems about `HeaderTree`, `TreeVerifier` and `StateProof` | `StateProof`, `SharedLemmas` |
| `LightDB` | the relayer's local light client and the `light` commands | |
| `ProverService` | the plonky2 service with its permit, retries and sleeps | |
| `GnarkService` | `setup`, `service` and `prove` of the gnark program | |
| `ProofClient` | configuration, one call of `Prove`, proof formats and their decoding | |
| `WireFormat` | the generated protobuf code of the relayer | |
| `LightDBProofs`, `ProverServiceProofs`, `GnarkServiceProofs`, `ProofClientProofs` | theorems about the module of the same name | that module, TLAPS, `SharedLemmas` |
| `SharedLemmas` | lemmas on induction, on division and on queues without repetition | TLAPS |
| `MC...` | constants for TLC | the module of the same name |

`UpdatePipeline` composes relayers, service and contract.  The later modules open
what it and `ZKLightClient` take as one step or one term: `HeaderTree` the term
`MerkleRoot`, `ProverService` and `GnarkService` the service's answer or failure,
`ProofClient` the proof inside a message, `WireFormat` its bytes, `LightDB` the
relayer's newest header.  `StateProof` is what the stored app hashes are for; it
composes the header tree, from which the contract takes them, with the trees they
are the roots of.

### ZKLightClient

`clientStates` and `consensusStates` are the contract's two mappings; absent
entries are the zero values of Solidity's storage.  `now` is time in
nanoseconds, and `blockTimestamp` what the EVM makes of it, in units of
`BlockTimestampUnit`.  `anchors` is a history variable: the height and state a
client was created with.

`InitializeClient` and `UpdateState` are the two transactions.  A revert
changes nothing, so the `require`s and `revert`s are guards.  `UpdateState`
contains the verification of the proof, which the concrete contracts do before
they call `updateState`, and the decoding done by `routeUpdateClient`.  Anyone
may send it.  `InitializeClient` is reserved to the IBC handler, which numbers
its clients and so never initialises one twice (`FreshClientId`; external).

Hashes are terms: `<< "root", seconds, nanos, appHash, siblings >>` is a block
hash, `<< "skip", h, hash, h' >>` the hash of a skip's input.  So two hashes are
equal only if what was hashed is: collision resistance, also after truncation to
253 bits, is assumed, and nothing else about hashes is.  Of the six siblings the
contract is given, the height leaf is kept and the others are `rest`.

A proof is its public inputs, and `VerifyProof` says which public inputs have
one: those of a pair of headers in `StepLinks` or `SkipLinks`, under the step or
the skip circuit's digest, and any inputs at all under another circuit's digest
(anyone can write a circuit).  The links are constants.  They are assumed to
join existing headers, a step link to join adjacent heights, and no more: forks
and skips backwards are allowed.  `TendermintSafety` says that no link leaves
the chain; only `StoredNeverRewritten` depends on it.

### UpdatePipeline

A relayer's call of `SetupHeadersForUpdate` goes through `idle`, `synced` (the
newest header is fetched), `polling` (the goroutine of `AsyncProve` runs) and
`built`.  A goroutine with its channel is a job: `queued` or `proving` at the
service, `sending` (blocked on the unbuffered channel), `closed` (it failed).
Each poll is one round of the code's `select`: a proof, a closed channel, the
timeout, or none of them; when proof and timeout are both ready, either may be
taken, as in Go.  After a timeout the job is left behind, still queued, proving
or blocked.

The service admits one request (`ConcurrencyLimitLayer::new(1)`), refuses what
`ProveArgs::validate` panics on, and answers with a statement of its choice: the
right one, a wrong one, or none.  The relayer compares it with the inputs it
computed itself (`InputMatches`).  A request may also fail while it waits or is
worked on (`Fail`), and a transaction may be lost (`SubmitLost`).  `Bytes` and `bytes32` model how the three
public inputs (digest, input hash, output hash) travel to the contract: `big.Int.Bytes`
drops leading zeros and Solidity pads on the right.  Which inputs begin with a zero byte
is a property of the hash function, so it is the constant `LeadingZeros`, any set of
public inputs.

The contract in this module is `ZKLightClient` with one client, a chain without
forks, and no expiry (its clock stands still), because expiry is the subject of
the other runs.

### HeaderTree

`headerToLeaves` and `getSimpleTreeProof` are Go's side: 14 leaves, six nodes.
`merkleRoot` is Solidity's.  Hashes are terms that differ for leaves and inner
nodes; a time is the protobuf message of its seconds and nanoseconds, without the
fields that are 0, and an empty field of a header is an empty leaf.  `Accepted` is
the contract's comparison for a message: time, app hash and any six nodes.
`CanBeSent` is what Go needs: a header with validators and an app hash of 32 bytes,
which the first header of a chain need not have.  The module has constants and
operators only; its action is `UpdateClient` of `StateProof`.

### TreeVerifier and StateProof

Byte strings are sequences of tokens with lengths (a key, a hash, a node's metadata),
and a hash is the term of what was hashed.  So an IAVL tree is its own root hash: the
metadata followed by a key and the hash of a value, or by the hashes of two children.
What the verifier looks at in a proof in ICS-23 form is the first byte, the varints and the
lengths of prefixes and suffixes, so an inner node can be read as a leaf, as its
bytes could be.  A place is a subtree with the path from it to the root; `Levels`
collects them by depth.  The operators keep the
names of `TendermintTreeVerifier.sol`.  A revert is the value `Reverts`.

`StateProof` has a chain that executes blocks, a contract that learns of headers
(each with the app hash of the state before its block) from any message that opens
the header's hash, made of the parts of whatever headers there are, and
`ProveState`.  There the node answers with any proofs there are and says from which
state `j` they come.  The proofs are checked against the header at the height that was
asked for, but the height that `ProveState` returns is made from the node's answer
(`go/relay/prover.go:58` and `:74`), and nothing compares the two; `asked` and `ofState`
in the record of a proof are history.  The check is not the contract's code but that of
ibc-go and ics23, so it has definitions of its own (`VerifyMembership`, `CheckAgainstSpec`,
`ValidateIavlOps`, `Calculate`, external): the limits on prefixes and suffixes, the reading of
the varints and the treatment of the leaf's prefix differ from Solidity's.

The contract decodes a proof's spec as an enum, which reverts on a number beyond it;
membership does not look at it further, and non-membership asks each neighbour for
`IAVL`.  The relayer numbers the specs from 0 and the contract from 1 (see below),
so neighbours are offered under both numbers.  That the app hash is 32 bytes and the
store's name is "ibc" are part of the external multi-store.

### LightDB

A command is a sequence of sessions: `light header 0` for instance reads the last
trusted height in one and the header in another.  A session opens the database
(retried `Attempts` times when another process has it), works, and closes it
through the deferred function.  A directory from its creation to its removal is a
generation, with its own lock and its own blocks, because `DeleteLightDB` removes
the directory without looking at the lock and files that are open stay usable.
`root` and `deletes` are history.  The node may come to serve another chain
(`ReplaceNode`), and a process may die (`Crash`), which frees its lock.  cometbft's
light client is external: it verifies a block if its chain is that of the
nearest stored block, and compares the hash of a root of trust.

### ProverService

A request is queued, admitted with the one permit, validated, and handled: the
query of the trusted block (`FirstQuery`, `Retry`, `Wake`), the circuit, the gnark
service.  Each stage may panic; the permit is dropped with the handler, also when
the connection closes.  `delay` is the time a request has spent in sleeps, its own and
those of the requests before it.  Time otherwise is not modelled.

### GnarkService

`disk` has for each file whether it is there and its parts, each the number of the setup
that wrote it.  `setup` opens circuit, verifying key, contract and proving key in this order
and writes each in `FileParts` steps; `os.Create` truncates the file in place, so a process
that is reading it finds its end, or goes on in what is written next.  A crash may come
anywhere.  The errors of writing the two keys, and of creating the proving key's file, are dropped:
the file stays cut off, or remains that of an earlier setup, and setup reports success all
the same.  `lost` is history: the setups whose proving key could not be created.

A service and a `prove` command read the circuit (`OpenR1CS`, `LoadR1CS`) and then the proving
key (`OpenPK`, `LoadPK`, `Loaded`), each a part at a time from the file as it then is, without
any lock.  While a setup runs, a process may so get a mixture of two setups.  `after` is history:
how the last setup had ended when the process began to load, or `NoEnding` if one was
running then or has started since.  That a reader
notices when a file ends too early (`ReadOver`, `LoadFails`) is what gnark's readers do, which
are external; that they notice anything else about the bytes is not assumed.

A request carries the limbs of the inner proof's public inputs, is
checked, waits for the mutex and is answered or fails.  Bytes are digits in base 4,
hashes have two of them and three bits, the field has 11 elements: the same order of
sizes as 256, 32, 253 and BN254's field.

### ProofClient

A configuration is validated, built into a prover and used for the initial client
state and for calls of `Prove`.  The answer is a genuine proof in gnark's
`MarshalSolidity` form, a part of one, or a failure.  Parsing slices at fixed offsets; a
slice beyond the end is a panic in a goroutine and ends the process.  The message's
proof is decoded by the contract's `abi.decode`.

### WireFormat

A message type is a sequence of fields with kinds; `SizeField`, `EncodeField` and
`ReadField` are the code the generator repeats for each.  `Marshal` fills a buffer
of `Size` bytes from its end, as the code does, so that a wrong size shows.
Integers are 10 bits wide instead of 64 and `int32` 5 bits, so that the overflows of
`iNdEx + byteLen` happen in short buffers; bytes and varint groups have their real
size.  `Height` is ibc-go's and external.

## Runs

| Run | Configuration | Shows |
|---|---|---|
| `contract` | two clients, heights to 4, times to 6, chain of four blocks, two headers of a fork beside it; all honest messages, and all that differ in one field or carry another message's public inputs | all eight properties |
| `contract_seconds` | `BlockTimestampUnit = 2` | violation of `ExpiredClientFrozen` (finding 1) |
| `pipeline_safety` | two relayers, three goroutines, a timer that can fire for a request that waits behind another, one failed or wrong answer or lost transaction | built messages are accepted, whatever is late, wrong or abandoned; no waiting request is lost from the queue or in it twice; a proof that is ready in time is received; goroutines end unless their call has timed out |
| `pipeline_liveness` | gaps within `SKIP_MAX`, prover within the timeout, one failure, one output hash with a leading zero and so one update that reverts | the client catches up |
| `pipeline_gap` | the chain can be 3 blocks ahead with `SkipMax = 2` | violation of `CatchesUp` (finding 3) |
| `pipeline_zero` | the input hash of one step begins with a zero byte, no digest or output hash does | violation of `BuiltMessagesAccepted` (finding 2) |
| `state_proof` | two blocks; stores of every shape up to four leaves and one of five; keys in, between and beside them; proofs and store proofs of any state, under any claimed height; headers with different, equal and empty fields, four times, two app hashes, and messages from all their parts | the six nodes open the header's time and app hash, nothing else, and form the chain's own tree; membership and non-membership are sound; every absence is provable; what ibc-go's check in `ProveState` let through is accepted |
| `light_db` | a relayer, an operator, two chains, two attempts, two generations | locks, forced re-initialisation, headers of the right chain; every command ends |
| `prover_service` | three callers, two retries, gaps at the limit | the permit, the retries and the delay; every request ends |
| `gnark_service` | two setups, files of two parts, a service and a command, two requests, seven bodies | circuit and key of the setup that reported success or no start, but for a key whose file could not be created; no remains of older files, exact inputs, the mutex |
| `proof_client` | 150 configurations, three contracts, three proofs, every cut of an answer | genuine proofs arrive; crashes only on foreign answers |
| `wire_format` | five messages, one or two written with unknown fields between; every cut; all strings of four out of twelve bytes | read as written, no panic, no endless loop, nothing invented |

### Properties

* `Certified` - every stored consensus state is the anchor's, or is in every
  set of headers that contains the anchor's header and is closed under links.
  That is reachability through proofs, written without recursion.
* `LatestHeightStored`, `AnchorKept` - the latest height is the greatest stored
  one, whatever the order of updates; the anchor stays, and nothing is stored
  below it.
* `StoredNeverRewritten` - although `updateState` overwrites, under
  `TendermintSafety` a stored state never changes.
* `ExpiredClientFrozen` - when all states of a client have expired it never
  changes again.
* `HonestUpdateAccepted` - conversely, no check rejects an honest update within
  the trusting period.
* `ImplementsTrustStore` - the contract refines `TrustStore`.
* `BuiltMessagesAccepted` - whatever message a relayer has built is accepted,
  although the height it starts from was read long before.
* `CatchesUp` - the client's progress.
* `ProofInTimeReceived` - a proof that waits in its channel while its call still polls, a tick
  before the timer, is received.
* `GoroutinesEnd` - every goroutine ends, except the one whose call timed out before the
  proof came: that one is blocked for ever.
* `OpeningSound`, `OpeningComplete` - what the contract accepts is the header's; what the
  relayer sends is accepted, and both sides' tree is the one RFC 6962 and cometbft define.
* `MembershipSound`, `NonMembershipSound`, `NonMembershipComplete` - against the
  entries of the reference tree, for proofs of all leaves, and of all inner nodes read as
  leaves, of all states the chain ever had.
* `ReturnedProofAccepted` - what passed the check of ibc-go passes the contract's, which is
  other code, for the header that was asked for and whatever the chain does later; for the
  height that `ProveState` returns, only if the node told the truth about it.
* `LockDiscipline`, `ReinitForced`, `RootedHeaders`, `HeaderZeroFound`,
  `CommandsEnd` - one user per generation of the database; a deletion leaves
  nothing of the old trust to sessions opened later, even if an `init` was
  under way; headers are of the chain that was trusted, not the one the node serves;
  the two sessions of `light header 0` fit together; commands end.
* `PermitHeldByHandler`, `GivesUpAfterRetries`, `DelayBounded`, `RequestsEnd` -
  the permit is never lost or given back twice; the answer to the last retry is
  still used; how long sleeps can delay a request behind others; every request ends.
* `KeysMatch` - a process that gets up after a setup that reported success has that setup's
  circuit, and one setup's whole proving key: that setup's exactly if it could create the
  key's file, although other errors of writing are dropped too.
* `LoadedOfOneSetup` - a process that loads while no setup runs never has remains of an older
  file in a newer one, whatever failed before.
* `AnswersExact`, `MutexHeldByProver` - public inputs are the inner proof's hashes as
  numbers; the mutex.
* `CrashOnlyOnForeignAnswer`, `GenuineProofDelivered`, `DecodedWordsGenuine`,
  `ShortDigestStops` - a proof's words from gnark to the contract, and what the
  checks of the configuration do and do not catch.
* `ReadAsWritten`, `StaysInBuffer`, `CutInventsNothing` - of the codec.
  The first compares with proto3's rule for two encodings one after the other.

### Bounds and why they are enough

Heights to 4 give a step, skips over one and two blocks, chains of three updates
and updates that arrive below the latest height.  The two headers beside the
chain are anchors a client may start from, with links that lead back to the chain.
Forks that validators signed are not a run of their own: `LatestAndAnchor`,
`AnchorAlways` and `CertifiedAlways` are proved for any links.  `NanosPerSecond = 2` makes seconds and
nanoseconds both vary.  The clock runs to 6 and the trusting period is 2, so
that every block can expire, and the boundary moment is reached.  `CHECK_DEADLOCK
FALSE` in the contract's configurations: with the clock at its bound and no
message accepted, nothing is left to do.  The two clients are separate entries of
both mappings; two suffice to see one disturb the other.

In the pipeline `MaxJobs` bounds the goroutines alive: when leaked ones use it up,
no further request starts.  With three, a relayer can time out, ask again, and
meet the late answer of its first request while the other relayer is waiting.
`MaxFailures` bounds failed and wrong answers and lost transactions.  `ProveTicks` bounds how long a
proof takes.  In `pipeline_liveness` it is so far within the timeout that the timer
never fires.  In `pipeline_safety` one proof is within the timeout and two, one after the other,
with the polling between are not, so the timer of the relayer that waits fires; it asks
again while its first request is still queued.

Trees of four leaves have every combination of left and right steps up to depth
three, and the fifth leaf makes a tree whose right side is shorter by two.  Two
generations are a deletion and a new directory; `Attempts = 2` is one failure and one
retry; with a third generation or attempt nothing new meets.  Files of two parts can be cut,
overtaken and mixed.  Three callers are one
that is handled and two that wait, whose order matters.  Two setups are an old one
and one that overwrites it.  Four stray bytes hold a tag, a length of two bytes
that is negative or overflows, and one byte more, or a group with a field in it.
`CHECK_DEADLOCK FALSE` in `state_proof`, `gnark_service`, `proof_client` and `wire_format`: a chain at its bound, a program that has ended and a
message that has been read have nothing left to do.

### Fairness

`FairSpec` has weak fairness on the relayer's steps, the service's admission and
right answer, and time: yui-relayer runs its loop on a timer, Go schedules
runnable goroutines, tower's semaphore is first in, first out, and a proof takes
finite time.  Blocks need not come, and failed or wrong answers are allowed but
never required.  The client's creation is fair because an operator creates it
once.

In `LightDB` each process's next step is weakly fair: a command that runs keeps
running, and calls of the node return or time out.  Commands need not be started,
and crashes need not happen.  In `ProverService` the admission and each handler are
weakly fair: tokio polls what is ready, and queries, sleeps, circuits and the gnark
service come to an end.

Two limits of `pipeline_liveness`.  It assumes that a proof comes within the
timeout, and its timer never fires.  With timeouts that may come again and again the client
need not catch up: each may find the request behind an abandoned one.  What still holds
when timers fire is in `pipeline_safety`.  And it assumes that the service is built with the feature `step`,
which `Cargo.toml` leaves off by default: without it a gap of one block is
answered with a panic, and the client waits for a second block.

## Findings

1. `contracts/TendermintZKLightClient.sol:100` compares `block.timestamp`, which
   counts seconds, with a sum of nanoseconds, so that the trusting period that
   `README.md:17` says is validated on-chain does not end.  The tests set
   `block.timestamp` in nanoseconds.
2. `go/relay/prover.go:184` encodes the public inputs with `big.Int.Bytes`, and
   `TendermintZKLightClientProtoMarshaler.sol:95` decodes them with `bytes32`:
   each of the three inputs, digest, input hash and output hash, becomes another
   number if it has a leading zero byte (one in 32 for each hash), and the honest update
   reverts.  With the digest of a circuit that is every update by that circuit.  A later block's update may pass, when
   the byte that was zero is in the output hash; when it is in the input hash,
   the target height of a skip enters it too, so a later target may pass as well.
3. `go/relay/prover.go:118` returns no intermediate headers, contrary to the
   comment at line 117, and the prover refuses gaps beyond `SKIP_MAX`.  A client
   that is further behind never catches up.

Seen on the way, without a run of their own, since no document says otherwise:

* `go/relay/zkprover.go:148` sends the proof on an unbuffered channel, from which nobody
  receives any more once the timer of `SetupHeadersForUpdate` has fired.  The goroutine,
  with its proof, waits for ever, one more for every timeout.  `GoroutinesEnd` says so, and
  that this is the only leak.
* `go/setup.go:143` drops the error of creating the proving key's file, and setup reports
  success.  An earlier setup's key is then served beside the new circuit, and the new
  verifier contract is not for its proofs.  `KeysMatch` says so, and that the errors of
  writing that are dropped as well do no such harm.
* The height that `ProveState` returns is the node's word only, so a proof for the header that
  was asked for may go out with another height, at which the contract refuses it.

Also: the proof specs are numbered from 0 in Go
(`go/relay/tree.go`) and from 1 in Solidity; `Validate` accepts a negative trusting
period, which becomes a huge one; circuit and proving key may be loaded from
different setups, or be mixtures of two, when a process loads while a setup runs; `src/tendermint_client.rs:34` sleeps
`2^n` seconds after the n-th retry, where the comments at lines 24 and 33 say
quadratic, and ten retries add up to 1023 seconds, beyond the relayer's ten minutes
(`DelayBounded` is stated with the sleeps as they are).

## Proofs

The proofs are checked by TLAPS, for all values of the constants that satisfy the
named assumptions of the modules.  32 of the properties that the runs check on small
instances are proved this way, some under a hypothesis that the tables name.  The inductive invariants
were also checked by TLC on small instances, as far as it can evaluate them.

### The contract

`ZKLightClientProofs`: any number of clients, any headers, any links, any messages.

| Theorem | States | Besides the assumptions |
|---|---|---|
| `TypeCorrect` | `[]TypeOK` | |
| `LatestAndAnchor` | `[](LatestHeightStored /\ AnchorKept)` | |
| `AnchorAlways` | `[]AnchorKept` | |
| `CertifiedAlways` | `[]Certified` | |
| `NeverRewritten` | `StoredNeverRewritten` | `TendermintSafety` |
| `ExpiredFrozen` | `ExpiredClientFrozen` | `BlockTimestampUnit = 1` |
| `HonestAccepted` | `[]HonestUpdateAccepted` | |
| `Refinement` | `ImplementsTrustStore` | `BlockTimestampUnit = 1` |

The inductive invariant is `SafetyInv == TypeOK /\ LatestHeightStored /\
AnchorKept /\ Certified`.  None of the last three is inductive alone.  An update
starts at a stored height, which must lie at or above the anchor (`AnchorKept`)
for the new one to lie above it; the anchor itself is kept because a new height is
above a stored one; and a latest height stays the greatest because every stored
one is at most it.

The heart is the lemma `AcceptedLink`: if `updateState` accepts a message, there
is a link whose first header has the trusted height and block hash, and whose
second header has exactly the height, hash, time and app hash that will be stored.
It needs each of the contract's comparisons: the digest tells a step from a skip,
the input hash fixes the first header, the output hash and the Merkle root fix
the second.  For a skip the input hash fixes the new height; for a step it is the
circuit that does.  From it follow certification (the new header is in every
closed set that has the old one), the refinement (the update is TrustStore's
`Extend` along that link), and with `TendermintSafety` that a rewritten state is
the same state, since the chain has one header per height.

`contract_seconds` shows that `BlockTimestampUnit = 1` is needed.

### The header tree

`StateProofProofs`, for any headers and any messages:

| Theorem | States |
|---|---|
| `RootInjective` | equal Merkle roots have equal times and app hashes, whatever nodes they come with |
| `AcceptedIsHeader` | `OpeningSound` |
| `HonestOpening` | `OpeningComplete` |

The first is what `ZKLightClient` assumes when it takes a Merkle root to be an
injective term.  It rests on hashes being terms, on the two positions being fixed,
and on seconds and nanoseconds determining the time, although zero fields are
left out.  The second also covers headers without an app hash, whose empty leaf no
message opens; the third unfolds both trees node by node.  For its second half, the recursion
of `HashFromByteSlices` is shown to have a solution (`RowsExist`, by induction on the number of leaves), and its
equations for 14, 8, 6, 4, 2 and 1 leaves lead to the tree that `HeaderHash` spells out.

### The state behind a header

`StateProofProofs`: any chains of search trees, of any height and shape and, but for
`AbsenceProvable`, with any metadata, and any headers and messages.

| Theorem | States |
|---|---|
| `AppHashesOfHeaders` | `[]TypeOK` |
| `ReturnedProofsConvince` | `[]ReturnedProofAccepted` |
| `OnlyEntriesAccepted` | `[]MembershipSound` |
| `NoEntryAbsent` | `[]NonMembershipSound` |
| `AbsenceProvable` | `[]NonMembershipComplete` |

`StateProofAssumption` says what the chain's IAVL trees are: a leaf, or a node over two
subtrees of which the left one has the smaller keys.  Nothing is assumed about
balance, so the theorems hold for every search tree.  `MetadataAssumption` is used by the last
theorem only: keys are numbers, so that a set of them has a greatest and a least member, and a
node's metadata is 3 to 11 bytes long, the limits of ICS-23's IAVL specification;
outside them the verifier refuses genuine proofs.

The invariant is `IInv == TreesInv /\ StoredInv /\ ProofInv`: a stored app hash is the one of
the header at its height (from `OpeningSound`, as the contract stores whatever
message it accepted), and a proof that `ProveState` returned has passed ibc-go's check against
the header that was asked for, which later blocks do not change.  `IavlChecksAgree` and
`StoreChecksAgree` lead from there to the contract: a proof within ics23's limits is
within Solidity's, and both hash the same bytes.  For the height that
was returned it also takes that the proof is one of the state the node named
(`ofState`), since only then the roots are the same.

The heart is `VerifiedPath`: if a leaf's bytes and a path of any tokens pass the checks of
`verifyMembershipIAVLSpec` and hash to a tree, then the hashes on the way are subtrees of it,
each a child of the next, and the first is a leaf.  It goes down from the root by
induction: at each node the prefix, the hash and the suffix are together the five
tokens of that node (`StepTokens`), and the lengths allow the hash in the place of a child
only (`StepDown`); at the end the leaf's prefix has height 0, so its five tokens
are not those of an inner node (`LeafDown`).  The proofs themselves are not assumed to
come from a tree; only the conclusions of the theorems range over what the chain's trees offer.
`NothingBetween` is the step to non-membership: two chains to the same
root separate at one node, left and right; from there the left one keeps to the right and
the right one to the left, since the padding tells the branches apart
(`PaddingTells`), so the one leaf has the greatest key of the left subtree and the
other the smallest of the right, and the order of the tree leaves no key between them.

`AbsenceProvable` is the converse and builds the proof instead of taking it apart.  Of a key that is
not in the tree the witnesses are the leaf with the greatest smaller key and the one with the least
greater key, where there are any.  Every leaf's own path passes the checks and hashes to the root
(`PlaceAscent`, `LeafProof`); a leaf with the greatest key of a subtree is reached by right
turns only, since no subtree is empty (`GreatestRightmost`), and the other way
round; the paths of the two leaves part at one node (`PathsPart`), where the order puts one
on each side (`AdjacentLeaves`).

### The update pipeline

`UpdatePipelineProofs`: any number of relayers, goroutines, failures and blocks, any
timeout and any `SKIP_MAX`.

| Theorem | States | Besides the assumptions |
|---|---|---|
| `PipelineTypes` | `[]TypeOK` | |
| `AcceptedExactlyUnlessZero` | `[]AcceptedUnlessLeadingZero`: a message that is built is accepted for as long as it waits if none of its three public inputs begins with a zero byte, and rejected otherwise | |
| `BuiltAccepted` | `[]BuiltMessagesAccepted` | `LeadingZeros = {}` |

`pipeline_zero` and the second theorem show that the hypothesis of the last is needed.  The invariant ties
the four places an update passes through.  `ContractInv`: the contract holds states of
blocks of the chain only.  `TrustInv`: what a call took from the contract is still
there, since nothing is ever removed or replaced.  `LinkInv`: a call polls a goroutine of its own
that was asked for the call's two heights, or one that has given up; without it a late
answer to an abandoned request could be taken for the answer to the new one.
`JobsInv`: what waits in a channel is a proof of those heights, because `Prove` compares
the public inputs.  `QueueInv`: the service's queue holds every waiting request once.
The last step unfolds `LC!Accepts` for such a message: an input arrives whole exactly
if it has no leading zero (`InputArrives`), and an input that does not is not the one
the contract computes (`MessageRejected`).

### The local light client

`LightDBProofs`: any relayers and operators, chains, heights, attempts and deletions.

| Theorem | States |
|---|---|
| `LockAlways` | `[]LockDiscipline` |
| `ReinitAlways` | `[]ReinitForced` |
| `RootedAlways` | `[]RootedHeaders` |
| `HeaderZeroAlways` | `[]HeaderZeroFound` |

`ReinitForced` and `RootedHeaders` speak of the database a session is in, which may
have been deleted from the disk while the session goes on.  So the invariant follows
every generation of the directory: sessions are in generations that exist (`GenInv`);
what is saved in the current one rests on a root that is not older than the last
deletion, and what a session sees on one not older than its opening (`ReinitInv`);
all blocks of a generation are on its root's chain (`RootInv`).  `HeaderZeroFound`
connects two sessions, between which the lock is free; `ZeroInv` says where the
block is meanwhile.

### The prover service

`ProverServiceProofs`: any number of callers and retries.

| Theorem | States |
|---|---|
| `PermitAlways` | `[]PermitHeldByHandler` |
| `RetriesUsedUp` | `[]GivesUpAfterRetries` |
| `DelayAlways` | `[]DelayBounded` |

For the delay the invariant is an account (`DelayInv`): what a waiting request has waited, what
the request with the permit may still sleep, and all sleeps of those between them in the
queue are together at most what was ahead of it when it arrived.  A sleep moves
seconds from the second item to the first, an admission makes the third smaller and
the second larger, and a closed connection drops an item.  That needs the queue
without repetitions (`SharedLemmas`) and `2^0 + ... + 2^(n-1) = 2^n - 1`.

### The gnark program

`GnarkServiceProofs`: any number of setups and requests, files of any number of parts, any bodies.

| Theorem | States |
|---|---|
| `KeysAlwaysMatch` | `[]KeysMatch` |
| `LoadedAlwaysOfOneSetup` | `[]LoadedOfOneSetup` |
| `MutexAlways` | `[]MutexHeldByProver` |
| `AnswersAlwaysExact` | `[]AnswersExact` |

The invariant follows files that others may be reading.  `DiskInv`: every file, also one that a
crash has cut off, has parts of one setup only, because it was truncated first.  `PositionInv`
and `WrittenInv`: how far the setup is in its file, and that one that reports success has
written circuit and contract to the end and of the key what it could.  `ReadInv`: as long as no
setup starts, what a process has read so far is the beginning of the file as it is; one
that starts ends that, and `after` records it.  So a reader that reached the length of a
whole file without a disturbance has all of one setup's file (`ReadOut`): a key that a dropped
error cut off cannot be loaded.  `KeyInv` is about the key whose file could not be
created: it is older than the setup, and that setup stays among the `lost`.

`AnswerInv`
follows the body of a request: it has passed the check of the bits before the request waits for the
mutex.  The rest is arithmetic.  `HexRoundTrip`: the digits without leading zeros, read again,
give the number back, since after `i` of `len` digits the value read is the number divided by
`Base^(len-i)`.  `SatisfiedExact`: the circuit makes the hash and the value of the
limbs equal in the field, the check of the bits keeps the hash below the field's order, and
`LimbsAssumption` the value.  That assumption is needed: `go/circuit.go` does not bound the limbs of the inner
proof to bytes, as plonky2's circuits do; with limbs far beyond them two numbers may agree in the
field and differ as hashes.  It asks for less than bytes: the run has a body with a limb
beyond a byte, which the circuit refuses.

### The way of a proof

`ProofClientProofs`: any configurations, any proofs, any base of bytes and length of
field elements.

| Theorem | States |
|---|---|
| `CrashOnlyInProve` | `[]CrashOnlyOnForeignAnswer` |
| `GenuineAlwaysDelivered` | `[]GenuineProofDelivered` |
| `DecodedAlwaysGenuine` | `[]DecodedWordsGenuine` |
| `ShortDigestAlwaysStops` | `[]ShortDigestStops` |

Most of it is about the encodings.  `BytesInjective` and `BytesOnto`: a number below
`Base^size` and its `size` digits determine each other, by induction on the size.
`PackFacts`, `WordsRead`: the word at a multiple of the field size is the word that was
packed there.  `MarshalFacts`, `ParsedWords`, `ParsedCommitments`, `EncodedFacts`:
the offsets of gnark's bytes, of `Parse` and of `abi.decode` agree.  The
invariant (`AnswerInv`) adds only that the bytes of an answer are a prefix of gnark's.

### Assumptions and induction

The assumptions on constants are types and sizes (a base above 1, at least one block),
that the values for "nobody" are not members, and for `ProofClient` what gnark's
proofs and hexadecimal text look like; `StateProofAssumption`, `MetadataAssumption` and
`LimbsAssumption` are explained above.  `PowersOfTwo` and `PowersOfBase` are arithmetic: the
provers do not know that `b^(n+1) = b * b^n`.  TLC evaluates each of them in the
component's run.

The library's induction theorems have an operator as a parameter, which the provers
cannot instantiate.  `SharedLemmas` states induction with a set instead
(`InductionUpTo`, from the well-foundedness of `<` on `Nat`): a set that contains 0 and
with each number below the bound the next one contains all up to the bound.

### Only model-checked

* Liveness: `CatchesUp`, `ProofInTimeReceived`, `GoroutinesEnd`, `CommandsEnd`, `RequestsEnd`.
* The properties of `WireFormat`, which reads and writes nested messages with `RECURSIVE`
  operators.

## Not modelled, and plan

Left out: the generated verifiers and the circuits' arithmetic (elliptic curves,
in external libraries); the generated Solidity decoder, a second implementation of
the format in `WireFormat`; the methods of `go/relay/lightclient.go`, which return
constants or panic as not implemented; registration of types and commands; the
Rust `prove` command, which runs the service's handler once; the Plonk and mock
contracts; and the end-to-end demo chains.

Next, a proof of `StaysInBuffer` in `WireFormat`, of which the arithmetic of lengths and
positions is in reach; the nesting of messages is recursive and would have to be cut off
at a depth.

That `UpdatePipeline` implements `ZKLightClient` is not worth a theorem: its two steps
that change the contract are actions of `ZKLightClient`.
