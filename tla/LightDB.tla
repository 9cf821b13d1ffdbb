------------------------------ MODULE LightDB ------------------------------
(***************************************************************************)
(* The relayer's own light client of the Tendermint chain                   *)
(* (go/relay/tendermint.go) and the "light" commands (go/relay/cmd/light.go)*)
(* that work on its database while the relayer runs.  Every use of the      *)
(* database is a session: open it (one holder at a time, a busy database is *)
(* tried again a few times), use it, close it.  "light delete" removes the  *)
(* directory without opening it, so a session may go on in a directory that *)
(* is gone; a directory, from its creation to its removal, is a generation. *)
(*                                                                          *)
(* The node behind the RPC address may come to serve another chain with the *)
(* same chain id (a reset test network).                                    *)
(***************************************************************************)
EXTENDS Integers, Sequences

CONSTANTS
    Relayers,     \* relayer processes
    Operators,    \* operators, who run one "light" command at a time
    Chains,       \* chains the node may serve
    MaxHeight,    \* bound on the height of a chain
    Attempts,     \* rtyAttNum: 5 in the code
    MaxGen        \* bound on the directories ever created

Procs  == Relayers \cup Operators
NoProc == "none"

ASSUME LightDBAssumption ==
    /\ {MaxHeight, Attempts, MaxGen} \subseteq Nat \ {0}
    /\ NoProc \notin Procs

VARIABLES
    height,   \* height of the chain the node serves
    node,     \* the chain the node serves
    dir,      \* the generation on disk, 0 if there is none
    gens,     \* number of generations created so far
    lock,     \* generation -> the process that has it open, or NoProc
    store,    \* generation -> light blocks saved in it
    root,     \* generation -> history: its last root of trust, and deletes then
    deletes,  \* history: number of deletions
    proc      \* process -> its command and its session

disk == << dir, gens, lock, store, root, deletes >>
vars == << height, node, disk, proc >>

Gens    == 1 .. MaxGen
Heights == 1 .. MaxHeight
Blocks  == [height : Heights, chain : Chains]
NoBlock == [height |-> 0, chain |-> "none"]
NoRoot  == [block |-> NoBlock, opened |-> 0]

-----------------------------------------------------------------------------
(* Commands, as the sessions they consist of *)

Trusted(h)  == [op |-> "trusted", block |-> [NoBlock EXCEPT !.height = h]]
Update(h)   == [op |-> "update", block |-> [NoBlock EXCEPT !.height = h]]
LastHeight  == [op |-> "lastHeight", block |-> NoBlock]
ForceInit   == [op |-> "force", block |-> NoBlock]
WithTrust(b) == [op |-> "withTrust", block |-> b]
WrongFlags  == [op |-> "wrongFlags", block |-> NoBlock]

\* light init: --force, or a height and a hash, or neither.
InitCommands ==
    {<< ForceInit >>, << WrongFlags >>} \cup {<< WithTrust(b) >> : b \in Blocks}

\* light update: GetLatestLightHeader, then UpdateLightClient(0).
UpdateCommand == << Trusted(0), Update(0) >>

\* light header: without a height, with height 0, with a height.
HeaderCommands ==
    {<< Trusted(0) >>, << LastHeight >>} \cup {<< Trusted(h) >> : h \in Heights}

\* The relayer: GetLatestFinalizedHeader, CreateInitialLightClientState.
RelayerCommands == {<< Update(h) >> : h \in {0} \cup Heights}

Commands(p) ==
    IF p \in Relayers THEN RelayerCommands
    ELSE InitCommands \cup {UpdateCommand} \cup HeaderCommands

-----------------------------------------------------------------------------
Idle == [pc |-> "idle", todo |-> << >>, attempt |-> 0, gen |-> 0, opened |-> 0,
         fetched |-> 0, header |-> NoBlock, shows |-> 0, disturbed |-> FALSE]

Init ==
    /\ height = 1
    /\ node \in Chains
    /\ dir = 0
    /\ gens = 0
    /\ lock = [g \in Gens |-> NoProc]
    /\ store = [g \in Gens |-> {}]
    /\ root = [g \in Gens |-> NoRoot]
    /\ deletes = 0
    /\ proc = [p \in Procs |-> Idle]

\* The chain commits a block.
CommitBlock ==
    /\ height < MaxHeight
    /\ height' = height + 1
    /\ UNCHANGED << node, disk, proc >>

\* The node is replaced by one of a chain that starts again.
ReplaceNode(c) ==
    /\ node' = c
    /\ node' # node
    /\ height' = 1
    /\ UNCHANGED << disk, proc >>

Run(p, sessions) ==
    /\ proc[p].pc = "idle"
    /\ proc' = [proc EXCEPT ![p].pc = "open", ![p].todo = sessions]
    /\ UNCHANGED << height, node, disk >>

-----------------------------------------------------------------------------
(* NewLightDB and its deferred close *)

\* Only in a mutant: the database is tried for ever.
TryForEver(p) == [proc[p] EXCEPT !.pc = "open"]

\* retry.Do: try again, or give up with the last error.
TryAgain(p) ==
    IF proc[p].attempt + 1 < Attempts
    THEN [proc[p] EXCEPT !.attempt = @ + 1] ELSE Idle

Opened(p, g) == [proc[p] EXCEPT !.pc = "use", !.gen = g, !.attempt = 0,
                                !.opened = deletes]

\* The directory does not exist: it is created.
CreateDB(p) ==
    /\ proc[p].pc = "open"
    /\ dir = 0
    /\ gens < MaxGen
    /\ gens' = gens + 1
    /\ dir' = gens'
    /\ lock' = [lock EXCEPT ![gens'] = p]
    /\ proc' = [proc EXCEPT ![p] = Opened(p, gens')]
    /\ UNCHANGED << height, node, store, root, deletes >>

OpenDB(p) ==
    /\ proc[p].pc = "open"
    /\ dir # 0
    /\ lock[dir] = NoProc
    /\ lock' = [lock EXCEPT ![dir] = p]
    /\ proc' = [proc EXCEPT ![p] = Opened(p, dir)]
    /\ UNCHANGED << height, node, dir, gens, store, root, deletes >>

\* Another process has it open.
OpenDBBusy(p) ==
    /\ proc[p].pc = "open"
    /\ dir # 0
    /\ lock[dir] # NoProc
    /\ proc' = [proc EXCEPT ![p] = TryAgain(p)]
    /\ UNCHANGED << height, node, disk >>

\* Only in a mutant: the database is closed on success only.
ReleaseOnSuccess(p) ==
    IF proc[p].todo = << >> THEN lock ELSE [lock EXCEPT ![proc[p].gen] = NoProc]

\* df, deferred in every function that opens the database.
Release(p) == [lock EXCEPT ![proc[p].gen] = NoProc]

\* The session ends; the command goes on with its next session, if any.
CloseDB(p) ==
    /\ proc[p].pc = "close"
    /\ lock' = Release(p)
    /\ proc' = [proc EXCEPT ![p] =
                   IF Len(proc[p].todo) <= 1 THEN Idle
                   ELSE [Idle EXCEPT !.pc = "open", !.todo = Tail(proc[p].todo),
                                     !.shows = proc[p].shows,
                                     !.disturbed = proc[p].disturbed]]
    /\ UNCHANGED << height, node, dir, gens, store, root, deletes >>

\* The process is killed; the system releases the lock of the open database.
Crash(p) ==
    /\ proc[p].pc # "idle"
    /\ lock' = [g \in Gens |-> IF lock[g] = p THEN NoProc ELSE lock[g]]
    /\ proc' = [proc EXCEPT ![p] = Idle]
    /\ UNCHANGED << height, node, dir, gens, store, root, deletes >>

\* Only in a mutant: another path is removed.
RemoveElsewhere == dir

\* os.RemoveAll.
RemoveAll == 0

\* The commands whose answer a deletion or a new root of trust may change.
Disturb(ps) == [p \in Procs |-> [ps[p] EXCEPT !.disturbed = ps[p].pc # "idle"]]

\* light delete: one call, which takes no lock.
DeleteLightDB(p) ==
    /\ proc[p].pc = "idle"
    /\ dir # 0
    /\ gens < MaxGen
    /\ dir' = RemoveAll
    /\ deletes' = deletes + 1
    /\ proc' = Disturb(proc)
    /\ UNCHANGED << height, node, gens, lock, store, root >>

-----------------------------------------------------------------------------
(* The light client of the cometbft library, on the store of the session *)

InUse(p, op) == proc[p].pc = "use" /\ proc[p].todo[1].op = op

Saved(p) == store[proc[p].gen]
Asked(p) == proc[p].todo[1].block.height

\* The session ends with a header, or with an error that ends the command.
Returns(p, b) == proc' = [proc EXCEPT ![p].pc = "close", ![p].header = b]
Fails(p) == proc' = [proc EXCEPT ![p].pc = "close", ![p].todo = << >>]

\* Only in a mutant: the height of the chain.
ChainHeight(p) == IF Saved(p) = {} THEN -1 ELSE height

\* LastTrustedHeight: -1 of an empty store.
LastTrustedHeight(p) ==
    IF Saved(p) = {} THEN -1
    ELSE CHOOSE h \in {b.height : b \in Saved(p)} :
            \A b \in Saved(p) : b.height <= h

\* TrustedLightBlock: the block saved at a height, the last one for 0.
TrustedLightBlock(p, h) ==
    {b \in Saved(p) : b.height = IF h = 0 THEN LastTrustedHeight(p) ELSE h}

\* A block the node serves verifies if the trusted ones are of its chain.
Verifies(p, b) ==
    /\ Saved(p) # {}
    /\ \A s \in Saved(p) : s.chain = b.chain

NodeBlock(h) == [height |-> h, chain |-> node]

-----------------------------------------------------------------------------
(* What the sessions do *)

\* GetLightSignedHeaderAtHeight.
GetLightSignedHeaderAtHeight(p) ==
    /\ InUse(p, "trusted")
    /\ \/ \E b \in TrustedLightBlock(p, Asked(p)) : Returns(p, b)
       \/ TrustedLightBlock(p, Asked(p)) = {} /\ Fails(p)
    /\ UNCHANGED << height, node, disk >>

\* GetLatestLightHeight in "light header 0": the height read is asked for in a
\* session of its own; -1 is ErrLightNotInitialized.
GetLatestLightHeight(p) ==
    LET h == LastTrustedHeight(p)
    IN  /\ InUse(p, "lastHeight")
        /\ IF h = -1 THEN Fails(p)
           ELSE proc' = [proc EXCEPT ![p].pc = "close", ![p].shows = h,
                                     ![p].todo = << LastHeight, Trusted(h) >>]
        /\ UNCHANGED << height, node, disk >>

SaveLightBlock(p, b) ==
    store' = [store EXCEPT ![proc[p].gen] = @ \cup {b}]

\* UpdateLightClient(0): the node's newest block is verified if it is newer than
\* all trusted ones, and the last trusted one returned otherwise.
UpdateToLatest(p) ==
    LET b == NodeBlock(height)
    IN  /\ InUse(p, "update")
        /\ Asked(p) = 0
        /\ IF Saved(p) = {} \/ b.height <= LastTrustedHeight(p)
           THEN /\ \/ \E t \in TrustedLightBlock(p, 0) : Returns(p, t)
                   \/ TrustedLightBlock(p, 0) = {} /\ Fails(p)
                /\ UNCHANGED store
           ELSE \/ Verifies(p, b) /\ SaveLightBlock(p, b) /\ Returns(p, b)
                \/ ~Verifies(p, b) /\ Fails(p) /\ UNCHANGED store
        /\ UNCHANGED << height, node, dir, gens, lock, root, deletes >>

\* UpdateLightClient(h): a trusted block is returned as it is.
UpdateToHeight(p) ==
    LET h == Asked(p)
        b == NodeBlock(h)
    IN  /\ InUse(p, "update")
        /\ h # 0
        /\ \/ /\ TrustedLightBlock(p, h) # {}
              /\ \E t \in TrustedLightBlock(p, h) : Returns(p, t)
              /\ UNCHANGED store
           \/ /\ TrustedLightBlock(p, h) = {} /\ h <= height /\ Verifies(p, b)
              /\ SaveLightBlock(p, b)
              /\ Returns(p, b)
           \/ /\ TrustedLightBlock(p, h) = {} /\ ~(h <= height /\ Verifies(p, b))
              /\ Fails(p)
              /\ UNCHANGED store
        /\ UNCHANGED << height, node, dir, gens, lock, root, deletes >>

\* Any other error of a session: the node does not answer, a header is expired.
SessionError(p) ==
    /\ proc[p].pc \in {"use", "fetched"}
    /\ Fails(p)
    /\ UNCHANGED << height, node, disk >>

\* light init with neither --force nor a height and a hash: errInitWrongFlags.
InitWrongFlags(p) ==
    /\ InUse(p, "wrongFlags")
    /\ Fails(p)
    /\ UNCHANGED << height, node, disk >>

\* light.NewClient with a root of trust: what was saved is kept if its last
\* block is on the node's chain, up to the height of the root; or all removed.
\* "wanted" is the block the operator means, kept in the history.
NewClient(p, b, wanted) ==
    LET g == proc[p].gen
        kept == {s \in Saved(p) : s.height <= b.height /\ s.chain = b.chain}
    IN  /\ \E k \in {kept, {}} : store' = [store EXCEPT ![g] = k \cup {b}]
        /\ root' = [root EXCEPT ![g] = 
                       [block |-> wanted, opened |-> proc[p].opened]]
        /\ proc' = Disturb([proc EXCEPT ![p].pc = "close"])
        /\ UNCHANGED << height, node, dir, gens, lock, deletes >>

\* Only in a mutant: the hash is not passed on.
TrustOptionsHeightOnly(p) == NodeBlock(Asked(p))

\* TrustOptions: the height and the hash given.
TrustOptions(p) == proc[p].todo[1].block

\* LightClientWithTrust: the node must serve a block with that hash.
LightClientWithTrust(p) ==
    LET b == TrustOptions(p)
    IN  /\ InUse(p, "withTrust")
        /\ IF b.height <= height /\ NodeBlock(b.height) = b
           THEN NewClient(p, b, proc[p].todo[1].block)
           ELSE Fails(p) /\ UNCHANGED << height, node, disk >>

\* LightClientWithoutTrust: the node's latest height is asked for, ...
QueryLatestHeight(p) ==
    /\ InUse(p, "force")
    /\ proc' = [proc EXCEPT ![p].pc = "fetched", ![p].fetched = height]
    /\ UNCHANGED << height, node, disk >>

\* ... again if that fails, no block is there yet or the latest is expired, ...
QueryFails(p) ==
    /\ InUse(p, "force")
    /\ proc[p].attempt + 1 < Attempts
    /\ proc' = [proc EXCEPT ![p].attempt = @ + 1]
    /\ UNCHANGED << height, node, disk >>

\* ... and whatever block the node then has at that height is trusted.
LightClientWithoutTrust(p) ==
    LET b == NodeBlock(proc[p].fetched)
    IN  /\ proc[p].pc = "fetched"
        /\ IF b.height <= height THEN NewClient(p, b, b)
           ELSE Fails(p) /\ UNCHANGED << height, node, disk >>

Session(p) ==
    \/ GetLightSignedHeaderAtHeight(p)
    \/ GetLatestLightHeight(p)
    \/ UpdateToLatest(p)
    \/ UpdateToHeight(p)
    \/ SessionError(p)
    \/ InitWrongFlags(p)
    \/ LightClientWithTrust(p)
    \/ QueryLatestHeight(p)
    \/ QueryFails(p)
    \/ LightClientWithoutTrust(p)

Step(p) ==
    \/ CreateDB(p)
    \/ OpenDB(p)
    \/ OpenDBBusy(p)
    \/ Session(p)
    \/ CloseDB(p)

Next ==
    \/ CommitBlock
    \/ \E c \in Chains : ReplaceNode(c)
    \/ \E p \in Procs :
          \/ \E sessions \in Commands(p) : Run(p, sessions)
          \/ Step(p)
          \/ Crash(p)
    \/ \E p \in Operators : DeleteLightDB(p)

Spec == Init /\ [][Next]_vars

\* A command that runs keeps running: calls of the node return or time out.
FairSpec == Spec /\ \A p \in Procs : WF_vars(Step(p))

-----------------------------------------------------------------------------
(* Properties *)

InSession(p) == proc[p].pc \in {"use", "fetched", "close"}

\* A generation is used by the process that locked it and by no other, also when
\* the directory is deleted under a session, and every way out of a session (an
\* error, a crash, the end of a command) gives the lock back.
LockDiscipline ==
    \A g \in Gens, p \in Procs :
        (lock[g] = p) <=> (InSession(p) /\ proc[p].gen = g)

\* "light delete" forces re-initialisation: a session opened after it finds no
\* header that rests on a root of trust from before, although an "init" may have
\* been under way when the directory was removed.
ReinitForced ==
    \A p \in Procs :
        (InSession(p) /\ Saved(p) # {}) => root[proc[p].gen].opened >= proc[p].opened

\* A header a session returns is on the chain of the last root of trust of its
\* database, also after the node has come to serve another chain: the hash given
\* to "light init" decides, not the node.
RootedHeaders ==
    \A p \in Procs :
        (InSession(p) /\ proc[p].header # NoBlock)
            => proc[p].header.chain = root[proc[p].gen].block.chain

\* "light header 0" reads the last trusted height in one session and the header
\* in another.  If no deletion and no new root of trust came in between, the
\* second session finds that header, whatever updates came in between.
HeaderZeroFound ==
    \A p \in Procs :
        (InUse(p, "trusted") /\ proc[p].shows # 0 /\ ~proc[p].disturbed)
            => \E b \in TrustedLightBlock(p, Asked(p)) : b.height = proc[p].shows

\* A command ends, with an error if need be, although the others open and close
\* the database all the time.
CommandsEnd == \A p \in Procs : (proc[p].pc # "idle") ~> (proc[p].pc = "idle")

=============================================================================
