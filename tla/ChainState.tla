----------------------------- MODULE ChainState -----------------------------
(***************************************************************************)
(* The block index and the active chain (main.cpp, chain.h), with the dPoW *)
(* notarization rules that restrain reorganisations (hush.h,               *)
(* hush_notary.h, hush_bitcoind.h).                                        *)
(*                                                                         *)
(* Threads that hand in blocks run ProcessNewBlock, operators run the      *)
(* invalidateblock and reconsiderblock commands.  Both end in              *)
(* ActivateBestChain, a loop that takes cs_main afresh in every iteration: *)
(* each lock scope is one action and scopes of different threads           *)
(* interleave.  The two tests of the loop, one on a requested shutdown and *)
(* one on the tip, are made without the lock: each is an action too.       *)
(*                                                                         *)
(* Left out: pruning (every block received stays on disk), the restart of  *)
(* the process, the contents of blocks (BadContext and BadConnect say      *)
(* which blocks break a rule), pindexBestInvalid and pindexBestHeader      *)
(* (warnings and header download; activation never reads them), hard-coded *)
(* checkpoints and the -rewind argument.                                   *)
(***************************************************************************)
EXTENDS Integers, Sequences, FiniteSets, FiniteSetsExt

CONSTANTS
    Blocks, Genesis,    \* every block of the universe, the genesis block
    Parent,             \* hashPrevBlock of every other block
    Chain,              \* the ancestors of a block, itself included
    Height, ChainWork,  \* GetHeight() and chainPower.chainWork
    Notarizes,          \* the block a block's notarization names, or NoBlock
    NoBlock,
    BadContext,         \* blocks that ContextualCheckBlock refuses
    BadConnect,         \* blocks that pass it and that ConnectBlock refuses
    NetThreads,         \* callers of ProcessNewBlock
    RpcThreads,         \* callers of invalidateblock and reconsiderblock
    Invalidatable, Reconsiderable,  \* the blocks those commands are given
    FutureBlocks,       \* blocks whose clock may still be ahead on arrival
    MAX_REORG_LENGTH, BLOCK_DOWNLOAD_WINDOW,
    AcCC,               \* ASSETCHAINS_CC # 0
    DiskErrors,         \* BOOLEAN: may reads and writes of block files fail?
    MaxRpc,             \* bound on the number of commands
    MaxCleared          \* bound: no failed block is sent again once that many
                        \* were cleared

ASSUME TreeAssumption ==
    /\ Genesis \in Blocks /\ NoBlock \notin Blocks /\ IsFiniteSet(Blocks)
    /\ Parent \in [Blocks \ {Genesis} -> Blocks]
    /\ Chain \in [Blocks -> SUBSET Blocks]
    /\ Height \in [Blocks -> Nat] /\ ChainWork \in [Blocks -> Nat]
    /\ Height[Genesis] = 0 /\ Chain[Genesis] = {Genesis}
    /\ \A b \in Blocks \ {Genesis} :
          /\ Height[b] = Height[Parent[b]] + 1
          /\ ChainWork[b] > ChainWork[Parent[b]]
          /\ Chain[b] = Chain[Parent[b]] \cup {b}

ASSUME SettingsAssumption ==
    /\ Notarizes \in [Blocks -> Blocks \cup {NoBlock}]
    /\ BadContext \subseteq Blocks \ {Genesis}
    /\ BadConnect \subseteq Blocks \ {Genesis}
    /\ Invalidatable \subseteq Blocks \ {Genesis}
    /\ Reconsiderable \subseteq Blocks
    /\ FutureBlocks \subseteq Blocks
    /\ NetThreads \cap RpcThreads = {}
    /\ MAX_REORG_LENGTH \in Nat \ {0} /\ BLOCK_DOWNLOAD_WINDOW \in Nat
    /\ AcCC \in BOOLEAN /\ DiskErrors \in BOOLEAN
    /\ MaxRpc \in Nat /\ MaxCleared \in Nat

VARIABLES
    index,          \* mapBlockIndex: the blocks whose header is known
    level,          \* nStatus & BLOCK_VALID_MASK
    failedValid,    \* blocks with BLOCK_FAILED_VALID
    failedChild,    \* blocks with BLOCK_FAILED_CHILD
    haveData,       \* blocks with BLOCK_HAVE_DATA (and nTx > 0)
    linked,         \* blocks with nChainTx # 0
    nSequenceId,
    nBlockSequenceId,
    candidates,     \* setBlockIndexCandidates
    unlinked,       \* second components of mapBlocksUnlinked
    tip,            \* chainActive.Tip()
    npoints,        \* NPOINTS, the notarizations seen, oldest first
    fRequestShutdown,
    pc, mostWork,   \* per thread: place in ActivateBestChain, pindexMostWork
    postponed,      \* history: work was left for a later ActivateBestChain
    cleared,        \* history: failed blocks that AcceptBlockHeader cleared, and
                    \* ancestors that ReconsiderBlock did
    skipped,        \* history: blocks stored under a failed parent, for which
                    \* mapBlocksUnlinked has no entry
    nRpc            \* number of commands so far

indexVars == <<index, level, failedValid, failedChild, haveData, linked,
               nSequenceId, nBlockSequenceId, unlinked, skipped>>
threadVars == <<pc, mostWork>>
vars == <<indexVars, candidates, tip, npoints, fRequestShutdown, threadVars,
          postponed, cleared, nRpc>>

Threads == NetThreads \cup RpcThreads
BLOCK_VALID_TREE == 2
BLOCK_VALID_TRANSACTIONS == 3
BLOCK_VALID_CONTEXT == 6

-----------------------------------------------------------------------------
(* Blocks, chains and their order.                                         *)

Failed == failedValid \cup failedChild

Highest(S) == CHOOSE b \in S : \A c \in S : Height[c] <= Height[b]
Lowest(S) == CHOOSE b \in S : \A c \in S : Height[b] <= Height[c]

FindFork(b, t) == Highest(Chain[b] \cap Chain[t])

\* The comparator of setBlockIndexCandidates: a sorts before b, i.e. is worse.
Worse(a, b, seq) ==
    \/ ChainWork[a] < ChainWork[b]
    \/ ChainWork[a] = ChainWork[b] /\ seq[a] > seq[b]

Best(S) == CHOOSE b \in S : \A c \in S : ~Worse(b, c, nSequenceId)

IsValid(b, upTo) == b \notin Failed /\ level[b] >= upTo

\* Variants: nothing is erased; the tip itself is erased too.
PruneNothing(cands, t) == cands
PruneTipToo(cands, t) == {c \in cands : Worse(t, c, nSequenceId)}

\* Keeps what is not worse than t.
PruneBlockIndexCandidates(cands, t) ==
    {c \in cands : ~Worse(c, t, nSequenceId)}

-----------------------------------------------------------------------------
(* Notarizations.                                                          *)

LastNotarized(points) == points[Len(points)].block
NOTARIZED_HASH == IF npoints = <<>> THEN NoBlock ELSE LastNotarized(npoints)
NOTARIZED_HEIGHT == IF npoints = <<>> THEN 0 ELSE Height[LastNotarized(npoints)]

\* Connecting b records the block its notarization names when that block is
\* known and higher than the last one recorded, and lower than b.
hush_connectblock(points, b) ==
    LET n == Notarizes[b]
        last == IF points = <<>> THEN 0 ELSE Height[LastNotarized(points)]
    IN  IF n \in index /\ Height[n] > last /\ Height[n] < Height[b]
        THEN Append(points, [nHeight |-> Height[b], block |-> n])
        ELSE points

\* The notarizations after the blocks above fork were connected, up to seen.
Notarized(points, fork, seen) ==
    LET after[b \in Blocks] ==
            IF b \in {fork, Genesis} THEN points
            ELSE hush_connectblock(after[Parent[b]], b)
    IN  after[seen]

\* The blocks that can be found as that of the last notarization carried below
\* height h: NPOINTS is scanned up to the first one carried at h or above, from
\* its start or from where an earlier call, for any height, left last_NPOINTSi.
hush_notarizeddata(h) ==
    LET N == Len(npoints)
        stops(c) == {i \in c + 1 .. N : npoints[i].nHeight >= h}
        scan == IF stops(0) = {} THEN N ELSE Min(stops(0)) - 1
        cached == {c \in 1 .. N - 1 : npoints[c].nHeight < h /\ stops(c) # {}}
    IN  {IF n = 0 THEN NoBlock ELSE npoints[n].block :
            n \in {scan} \cup {Min(stops(c)) - 1 : c \in cached}}

\* Header b contradicts n, the notarization that holds at the tip.
hush_checkpoint(b, n) ==
    /\ n # NoBlock
    /\ Height[n] <= Height[tip]
    /\ Height[b] < Height[n] \/ (Height[b] = Height[n] /\ b # n)

-----------------------------------------------------------------------------
(* Headers and blocks coming in.                                           *)

ContextualCheckBlockHeader(b) ==
    \/ b \in Chain[tip]
    \/ /\ ~(Height[b] = 1 /\ Height[tip] > 1)
       /\ \E n \in hush_notarizeddata(Height[tip]) : ~hush_checkpoint(b, n)

\* AcceptBlockHeader may return true for b; a header it refuses changes nothing.
HeaderAccepted(b) ==
    IF b \in index THEN AcCC \/ b \notin Failed
    ELSE /\ b # Genesis /\ Parent[b] \in index /\ Parent[b] \notin Failed
         /\ ContextualCheckBlockHeader(b)

\* The history of cleared blocks, which ends at its bound.
Cleared(b) == cleared \cup ({b} \cap Failed)
MayClear(b) == b \in Failed => Cardinality(cleared) < MaxCleared

\* mapBlockIndex after an accepted header, with the failure flags of a known
\* block cleared on chains with crypto-conditions.
AddHeader(b) ==
    /\ HeaderAccepted(b) /\ MayClear(b)
    /\ index' = index \cup {b}
    /\ failedValid' = failedValid \ {b}
    /\ failedChild' = failedChild \ {b}
    /\ cleared' = Cleared(b)

LevelWithHeader(b) == IF b \in index THEN level[b] ELSE BLOCK_VALID_TREE

\* A "headers" message.
AcceptBlockHeader(b) ==
    /\ b \notin index \/ b \in Failed
    /\ AddHeader(b)
    /\ level' = [level EXCEPT ![b] = LevelWithHeader(b)]
    /\ UNCHANGED <<haveData, linked, nSequenceId, nBlockSequenceId, unlinked, skipped,
                   candidates, tip, npoints, fRequestShutdown, threadVars,
                   postponed, nRpc>>

\* Variant: blocks that waited for b are not linked with it.
LinkedAlone(b) == {b}

\* A block whose data arrived links itself and, breadth first, every block
\* that waited for it in mapBlocksUnlinked; BFS orders are the orders in which
\* they may be numbered.
NewlyLinked(b) ==
    {y \in unlinked \cup {b} :
        b \in Chain[y] /\ Chain[y] \ Chain[b] \subseteq unlinked}

BFSOrders(b) ==
    LET S == NewlyLinked(b)
        IsBFS(o) ==
            LET pos(x) == CHOOSE i \in DOMAIN o : o[i] = x
            IN  /\ o[1] = b
                /\ \A i \in 2 .. Len(o) : pos(Parent[o[i]]) < i
                /\ \A i, j \in 2 .. Len(o) :
                      i < j => pos(Parent[o[i]]) <= pos(Parent[o[j]])
    IN  {o \in Bijection(1 .. Cardinality(S), S) : IsBFS(o)}

\* Variant: the counter moves once per block received, not per block linked.
SharedSequenceIds(o) ==
    [x \in Blocks |-> IF x \in Range(o) THEN nBlockSequenceId
                     ELSE nSequenceId[x]]

NewSequenceIds(o) ==
    [x \in Blocks |->
        IF x \in Range(o)
        THEN nBlockSequenceId - 1 + CHOOSE i \in DOMAIN o : o[i] = x
        ELSE nSequenceId[x]]

ReceivedBlockTransactions(b) ==
    /\ haveData' = haveData \cup {b}
    /\ IF Parent[b] \in linked
       THEN \E o \in BFSOrders(b) :
              /\ linked' = linked \cup Range(o)
              /\ unlinked' = unlinked \ Range(o)
              /\ nSequenceId' = NewSequenceIds(o)
              /\ nBlockSequenceId' = nBlockSequenceId + Len(o)
              /\ candidates' = candidates \cup
                    {x \in Range(o) : ~Worse(x, tip, nSequenceId')}
              /\ UNCHANGED skipped
       ELSE /\ IF IsValid(Parent[b], BLOCK_VALID_TREE)
               THEN unlinked' = unlinked \cup {b} /\ UNCHANGED skipped
               ELSE skipped' = skipped \cup {b} /\ UNCHANGED unlinked
            /\ UNCHANGED <<linked, nSequenceId, nBlockSequenceId, candidates>>

\* AcceptBlock goes on to check and store b.
Wanted(b, fRequested) ==
    /\ b \notin haveData
    /\ \/ fRequested
       \/ /\ ChainWork[b] > ChainWork[tip]
          /\ Height[b] <= Height[tip] + BLOCK_DOWNLOAD_WINDOW

\* The level of b once its data is stored: the bits of BLOCK_VALID_CONTEXT are
\* or-ed in when ContextualCheckBlock passed, then RaiseValidity.
StoredLevel(b) ==
    IF b \notin BadContext THEN BLOCK_VALID_CONTEXT
    ELSE IF b \in Failed /\ ~AcCC THEN LevelWithHeader(b)
    ELSE BLOCK_VALID_TRANSACTIONS

Goto(t, place) == pc' = [pc EXCEPT ![t] = place]

\* ProcessNewBlock returns, or goes on to ActivateBestChain unless the clock of
\* the block is ahead: then nobody looks at the new candidates for now.
EndProcess(t, future) ==
    /\ Goto(t, IF future THEN "idle" ELSE "enter")
    /\ postponed' = (postponed \/ future)
    /\ UNCHANGED mostWork

\* A block ahead of the clock passes over a refused header that is known.
HeaderPassed(b, future) ==
    \/ AddHeader(b)
    \/ /\ ~HeaderAccepted(b) /\ future /\ b \in index
       /\ UNCHANGED <<index, failedValid, failedChild, cleared>>

\* The header is accepted, the block itself is known or not wanted.
ProcessUnwanted(t, b, fRequested, future) ==
    /\ pc[t] = "idle" /\ ~Wanted(b, fRequested)
    /\ HeaderPassed(b, future)
    /\ level' = [level EXCEPT ![b] = LevelWithHeader(b)]
    /\ EndProcess(t, future)
    /\ UNCHANGED <<haveData, linked, nSequenceId, nBlockSequenceId, unlinked, skipped,
                   candidates, tip, npoints, fRequestShutdown, nRpc>>

\* The block breaks a rule that can be checked without connecting it.
ProcessBadContext(t, b, fRequested) ==
    /\ pc[t] = "idle" /\ Wanted(b, fRequested) /\ b \in BadContext
    /\ HeaderAccepted(b)
    /\ index' = index \cup {b}
    /\ failedValid' = failedValid \cup {b}
    /\ failedChild' = failedChild \ {b}
    /\ level' = [level EXCEPT ![b] = LevelWithHeader(b)]
    /\ UNCHANGED <<haveData, linked, nSequenceId, nBlockSequenceId, unlinked, skipped,
                   candidates, tip, npoints, fRequestShutdown, threadVars,
                   postponed, cleared, nRpc>>

\* The block is stored.  When writing it fails the node is told to shut down,
\* but the block is recorded all the same.
ProcessStored(t, b, fRequested, future) ==
    /\ pc[t] = "idle" /\ Wanted(b, fRequested)
    /\ b \notin BadContext \/ future
    /\ HeaderPassed(b, future)
    /\ level' = [level EXCEPT ![b] = StoredLevel(b)]
    /\ ReceivedBlockTransactions(b)
    /\ fRequestShutdown' \in {fRequestShutdown, fRequestShutdown \/ DiskErrors}
    /\ EndProcess(t, future)
    /\ UNCHANGED <<tip, npoints, nRpc>>

\* There is no room for the block: FindBlockPos fails and the node shuts down.
ProcessNoSpace(t, b, fRequested) ==
    /\ DiskErrors
    /\ pc[t] = "idle" /\ Wanted(b, fRequested) /\ b \notin BadContext
    /\ AddHeader(b)
    /\ level' = [level EXCEPT ![b] = BLOCK_VALID_CONTEXT]
    /\ fRequestShutdown' = TRUE
    /\ UNCHANGED <<haveData, linked, nSequenceId, nBlockSequenceId, unlinked, skipped,
                   candidates, tip, npoints, threadVars, postponed, nRpc>>

ProcessNewBlock(t, b) ==
    \E fRequested \in BOOLEAN :
        \/ \E future \in {FALSE, (b \in FutureBlocks)} :
              \/ ProcessUnwanted(t, b, fRequested, future)
              \/ ProcessStored(t, b, fRequested, future)
        \/ ProcessBadContext(t, b, fRequested)
        \/ ProcessNoSpace(t, b, fRequested)

-----------------------------------------------------------------------------
(* Moving the tip.                                                         *)

\* Variant: the last notarized block is disconnected like any other.
UnwindAll(to) ==
    {[tip |-> to, ok |-> TRUE, abort |-> FALSE]} \cup
    {[tip |-> b, ok |-> FALSE, abort |-> TRUE] :
        b \in {x \in Chain[tip] \ Chain[to] : DiskErrors}}

\* What calling DisconnectTip down to block "to" can come to: it refuses the
\* last notarized block, and reading a block may fail.
Unwind(to) ==
    LET path == Chain[tip] \ Chain[to]
        refused == NOTARIZED_HASH \in path
        end == IF refused THEN NOTARIZED_HASH ELSE to
    IN  {[tip |-> end, ok |-> ~refused, abort |-> FALSE]} \cup
        {[tip |-> b, ok |-> FALSE, abort |-> TRUE] :
            b \in {x \in path : DiskErrors /\ Height[x] >= Height[end]}}

\* What ConnectTip, block after block from fork towards mw, can come to: it
\* stops at the first block with more work than the old tip, at a block that
\* breaks a rule (bad), or at a block that could not be read, written or whose
\* clock is still ahead (ok is FALSE).  "seen" is the last block whose
\* notarization was recorded.
ConnectTips(fork, mw) ==
    LET path == Chain[mw] \ Chain[fork]
        more == {b \in path : ChainWork[b] > ChainWork[tip]}
        goal == IF more = {} THEN mw ELSE Lowest(more)
        steps == Chain[goal] \ Chain[fork]
        wrong == steps \cap (BadContext \cup BadConnect)
        bad == IF wrong = {} THEN NoBlock ELSE Lowest(wrong)
        end == IF wrong = {} THEN goal ELSE Parent[bad]
        done(b) == Height[b] <= Height[end] + (IF wrong = {} THEN 0 ELSE 1)
        late == {b \in steps : done(b) /\ b \in FutureBlocks}
        broken == {b \in steps : done(b) /\ DiskErrors}
    IN  {[tip |-> end, seen |-> end, bad |-> bad, ok |-> TRUE, abort |-> FALSE]}
        \cup {[tip |-> Parent[b], seen |-> Parent[b], bad |-> NoBlock,
               ok |-> FALSE, abort |-> FALSE] : b \in late}
        \cup {[tip |-> Parent[b], seen |-> Parent[b], bad |-> NoBlock,
               ok |-> FALSE, abort |-> TRUE] : b \in broken}
        \cup {[tip |-> Parent[b], seen |-> b, bad |-> NoBlock,
               ok |-> FALSE, abort |-> TRUE] : b \in broken \ {bad}}

\* Variant: only the new tip itself.
ReadmittedTip(t, failed) == {t} \ failed

\* The blocks that become candidates again when the tip moves down to t.
Readmitted(t, failed) ==
    {b \in linked : /\ b \notin failed
                   /\ level[b] >= BLOCK_VALID_TRANSACTIONS
                   /\ ~Worse(b, t, nSequenceId)}

\* InvalidateBlock(p), given what disconnecting came to, from the candidates
\* and the FAILED_CHILD flags it starts with.
InvalidateBlock(p, out, cands, fChild) ==
    LET walked == (Chain[tip] \ Chain[out.tip]) \cup
                  (IF out.ok THEN {} ELSE {out.tip})
        failed == failedValid \cup {p} \cup fChild \cup walked
    IN  /\ tip' = out.tip
        /\ failedValid' = failedValid \cup {p}
        /\ failedChild' = fChild \cup walked
        /\ candidates' = (cands \ (walked \cup {p})) \cup
                         (IF out.ok THEN Readmitted(out.tip, failed) ELSE {})
        /\ fRequestShutdown' = (fRequestShutdown \/ out.abort)

InvalidateOutcomes(p) ==
    IF p \in Chain[tip] THEN Unwind(Parent[p])
    ELSE {[tip |-> tip, ok |-> TRUE, abort |-> FALSE]}

-----------------------------------------------------------------------------
(* ActivateBestChain.                                                      *)

\* FindMostWorkChain: the best candidate that has no failed block between it
\* and the active chain; the unusable ones met before it are dropped, with the
\* blocks on top of their failed ancestor.
Branch(c) == Chain[c] \ Chain[tip]

\* Variant: only the candidate itself is looked at.
UsableAlone(c) == c \notin Failed

Usable(c) == Branch(c) \cap Failed = {}

MostWork ==
    LET good == {c \in candidates : Usable(c)}
    IN  IF good = {} THEN NoBlock ELSE Best(good)

Unusable == {c \in candidates :
                ~Usable(c) /\ (MostWork = NoBlock
                               \/ Worse(MostWork, c, nSequenceId))}

FailedIn(c) == Highest(Branch(c) \cap Failed)

FailedChildAfterFind ==
    failedChild \cup UNION {Branch(c) \ Chain[FailedIn(c)] : c \in Unusable}

CandidatesAfterFind ==
    candidates \ UNION {(Branch(c) \ Chain[FailedIn(c)]) \cup {FailedIn(c)} :
                            c \in Unusable}

Activating(t) == pc[t] = "activate"
Fork == FindFork(MostWork, tip)

\* Leave ActivateBestChain; "left" says that work may be left to do.
Return(t, left) ==
    /\ Goto(t, "idle")
    /\ postponed' = left
    /\ UNCHANGED mostWork

\* if (ShutdownRequested()) break, before cs_main is taken.
ShutdownTest(t) ==
    /\ pc[t] = "enter"
    /\ Goto(t, IF fRequestShutdown THEN "idle" ELSE "activate")
    /\ UNCHANGED <<indexVars, candidates, tip, npoints, fRequestShutdown,
                   mostWork, postponed, cleared, nRpc>>

ActivateNothing(t) ==
    /\ Activating(t)
    /\ MostWork \in {NoBlock, tip}
    /\ failedChild' = FailedChildAfterFind
    /\ candidates' = CandidatesAfterFind
    /\ Return(t, FALSE)
    /\ UNCHANGED <<index, level, failedValid, haveData, linked, nSequenceId,
                   nBlockSequenceId, unlinked, skipped, tip, npoints, fRequestShutdown,
                   cleared, nRpc>>

\* The branch leaves the active chain below the last notarized block, and the
\* caller did not ask to skip this test.
PastNotarized(t) ==
    /\ t \in NetThreads
    /\ Height[tip] > NOTARIZED_HEIGHT
    /\ Height[Fork] < NOTARIZED_HEIGHT

ActivatePastNotarized(t) ==
    /\ Activating(t)
    /\ MostWork \notin {NoBlock, tip}
    /\ PastNotarized(t)
    /\ \E out \in InvalidateOutcomes(MostWork) :
          InvalidateBlock(MostWork, out, CandidatesAfterFind,
                          FailedChildAfterFind)
    /\ Return(t, TRUE)
    /\ UNCHANGED <<index, level, haveData, linked, nSequenceId,
                   nBlockSequenceId, unlinked, skipped, npoints, cleared, nRpc>>

TooLong == Height[tip] - Height[Fork] > MAX_REORG_LENGTH

ActivateTooLong(t) ==
    /\ Activating(t)
    /\ MostWork \notin {NoBlock, tip}
    /\ ~PastNotarized(t) /\ TooLong
    /\ failedChild' = FailedChildAfterFind
    /\ candidates' = CandidatesAfterFind
    /\ fRequestShutdown' = TRUE
    /\ Return(t, TRUE)
    /\ UNCHANGED <<index, level, failedValid, haveData, linked, nSequenceId,
                   nBlockSequenceId, unlinked, skipped, tip, npoints, cleared, nRpc>>

\* Disconnecting stops short of the fork.
ActivateStuck(t) ==
    /\ Activating(t)
    /\ MostWork \notin {NoBlock, tip}
    /\ ~PastNotarized(t) /\ ~TooLong
    /\ \E out \in Unwind(Fork) :
          /\ ~out.ok
          /\ tip' = out.tip
          /\ fRequestShutdown' = (fRequestShutdown \/ out.abort)
    /\ failedChild' = FailedChildAfterFind
    /\ candidates' = CandidatesAfterFind
    /\ Return(t, TRUE)
    /\ UNCHANGED <<index, level, failedValid, haveData, linked, nSequenceId,
                   nBlockSequenceId, unlinked, skipped, npoints, cleared, nRpc>>

\* Variant: nothing is marked.
InvalidBlockIgnored(out) == {}

\* The block that broke a rule, if any: it is marked BLOCK_FAILED_VALID and is
\* no candidate any more.
InvalidBlockFound(out) == {out.bad} \ {NoBlock}

\* Candidates after connecting from the fork up to out.tip.
CandidatesAfterConnect(out) ==
    LET left == CandidatesAfterFind \ InvalidBlockFound(out)
    IN  IF out.tip = Fork THEN left ELSE PruneBlockIndexCandidates(left, out.tip)

ActivateReorganise(t) ==
    /\ Activating(t)
    /\ MostWork \notin {NoBlock, tip}
    /\ ~PastNotarized(t) /\ ~TooLong
    /\ \E out \in Unwind(Fork) : out.ok
    /\ \E out \in ConnectTips(Fork, MostWork) :
          /\ tip' = out.tip
          /\ npoints' = Notarized(npoints, Fork, out.seen)
          /\ failedValid' = failedValid \cup InvalidBlockFound(out)
          /\ candidates' = CandidatesAfterConnect(out)
          /\ fRequestShutdown' = (fRequestShutdown \/ out.abort)
          /\ IF out.ok
             THEN /\ Goto(t, "test")
                  /\ mostWork' = [mostWork EXCEPT ![t] = MostWork]
                  /\ UNCHANGED postponed
             ELSE Return(t, TRUE)
    /\ failedChild' = FailedChildAfterFind
    /\ UNCHANGED <<index, level, haveData, linked, nSequenceId,
                   nBlockSequenceId, unlinked, skipped, cleared, nRpc>>

\* while (pindexMostWork != chainActive.Tip()), read without cs_main.
LoopTest(t) ==
    /\ pc[t] = "test"
    /\ Goto(t, IF mostWork[t] = tip THEN "idle" ELSE "enter")
    /\ mostWork' = [mostWork EXCEPT ![t] = NoBlock]
    /\ UNCHANGED <<indexVars, candidates, tip, npoints, fRequestShutdown,
                   postponed, cleared, nRpc>>

ActivateBestChain(t) ==
    \/ ShutdownTest(t) \/ ActivateNothing(t) \/ ActivatePastNotarized(t)
    \/ ActivateTooLong(t) \/ ActivateStuck(t) \/ ActivateReorganise(t)
    \/ LoopTest(t)

-----------------------------------------------------------------------------
(* The two commands.                                                       *)

invalidateblock(t, p) ==
    /\ pc[t] = "idle" /\ nRpc < MaxRpc /\ p \in index
    /\ \E out \in InvalidateOutcomes(p) :
          /\ InvalidateBlock(p, out, candidates, failedChild)
          /\ Goto(t, IF out.ok THEN "enter" ELSE "idle")
          /\ postponed' = (postponed \/ ~out.ok)
    /\ nRpc' = nRpc + 1
    /\ UNCHANGED <<index, level, haveData, linked, nSequenceId,
                   nBlockSequenceId, unlinked, skipped, npoints, mostWork, cleared>>

\* Clears the flags of p, of its descendants and of its ancestors; of these
\* only p and its descendants become candidates.
reconsiderblock(t, p) ==
    LET below == {b \in index \cap Failed : p \in Chain[b]}
        again == {b \in below : /\ level[b] >= BLOCK_VALID_TRANSACTIONS
                                /\ b \in linked
                                /\ Worse(tip, b, nSequenceId)}
        above == (Failed \cap Chain[p]) \ {p}
    IN  /\ pc[t] = "idle" /\ nRpc < MaxRpc /\ p \in index
        /\ failedValid' = failedValid \ (below \cup Chain[p])
        /\ failedChild' = failedChild \ (below \cup Chain[p])
        /\ candidates' = candidates \cup again
        /\ cleared' = cleared \cup above
        /\ Goto(t, "enter")
        /\ nRpc' = nRpc + 1
        /\ UNCHANGED <<index, level, haveData, linked, nSequenceId,
                       nBlockSequenceId, unlinked, skipped, tip, npoints,
                       fRequestShutdown, mostWork, postponed>>

-----------------------------------------------------------------------------
Init ==
    /\ index = {Genesis} /\ haveData = {Genesis} /\ linked = {Genesis}
    /\ level = [b \in Blocks |-> IF b = Genesis THEN 7 ELSE 0]
    /\ failedValid = {} /\ failedChild = {} /\ unlinked = {}
    /\ nSequenceId = [b \in Blocks |-> IF b = Genesis THEN 1 ELSE 0]
    /\ nBlockSequenceId = 2
    /\ candidates = {Genesis} /\ tip = Genesis
    /\ npoints = <<>>
    /\ fRequestShutdown = FALSE /\ postponed = FALSE
    /\ pc = [t \in Threads |-> "idle"]
    /\ mostWork = [t \in Threads |-> NoBlock]
    /\ cleared = {} /\ skipped = {} /\ nRpc = 0

Next ==
    \/ \E b \in Blocks : AcceptBlockHeader(b)
    \/ \E t \in NetThreads, b \in Blocks : ProcessNewBlock(t, b)
    \/ \E t \in Threads : ActivateBestChain(t)
    \/ \E t \in RpcThreads, p \in Invalidatable : invalidateblock(t, p)
    \/ \E t \in RpcThreads, p \in Reconsiderable : reconsiderblock(t, p)

\* A thread inside ActivateBestChain goes on.
Fairness == \A t \in Threads : WF_vars(ActivateBestChain(t))

Spec == Init /\ [][Next]_vars /\ Fairness

-----------------------------------------------------------------------------
(* Properties.                                                             *)

\* Every variable has its type.
TypeOK ==
    /\ index \subseteq Blocks /\ haveData \subseteq index
    /\ level \in [Blocks -> {0, 2, 3, 6, 7}]
    /\ failedValid \subseteq index /\ failedChild \subseteq index
    /\ linked \subseteq haveData /\ unlinked \subseteq haveData
    /\ nSequenceId \in [Blocks -> Nat] /\ nBlockSequenceId \in Nat
    /\ candidates \subseteq index /\ tip \in index
    /\ npoints \in Seq([nHeight : Nat, block : Blocks])
    /\ fRequestShutdown \in BOOLEAN /\ postponed \in BOOLEAN
    /\ pc \in [Threads -> {"idle", "enter", "activate", "test"}]
    /\ mostWork \in [Threads -> Blocks \cup {NoBlock}]
    /\ {cleared, skipped} \subseteq SUBSET Blocks /\ nRpc \in 0 .. MaxRpc

\* nChainTx is set only for blocks all of whose ancestors were received, and
\* for every one of them, whatever the order in which the blocks arrived (the
\* queue in ReceivedBlockTransactions), unless one of the chain was received
\* while its parent was marked as failed: nothing links that one any more.
LinkedIfUsable ==
    /\ \A b \in linked : Chain[b] \subseteq haveData
    /\ \A b \in index : /\ Chain[b] \subseteq haveData
                        /\ Chain[b] \cap skipped = {}
                        => b \in linked

\* setBlockIndexCandidates holds only linked blocks, none of them worse than
\* the tip (FindMostWorkChain and CheckBlockIndex assert it), through failed
\* reorganisations and invalidations that lower the tip.
CandidatesSound ==
    \A c \in candidates : c \in linked /\ ~Worse(c, tip, nSequenceId)

\* A block waits in mapBlocksUnlinked only while an ancestor is missing, or was
\* received while its parent was marked as failed.
UnlinkedWaits == \A b \in unlinked : Chain[b] \subseteq haveData =>
                                          Chain[b] \cap skipped # {}

\* Nothing is left to do: no thread is activating, and the last activation was
\* neither refused nor cut short.
Settled == /\ \A t \in Threads : pc[t] = "idle"
           /\ ~postponed /\ ~fRequestShutdown

\* Stored blocks of complete chains without a failed block.
ValidChains == {b \in linked : /\ level[b] >= BLOCK_VALID_TRANSACTIONS
                                /\ Chain[b] \cap Failed = {}}

\* Once activation has settled, the active chain is the best valid chain the
\* node has in full, also after reorganisations that failed half-way and had to
\* return to the old chain.  This is so as long as no failed block was cleared
\* without becoming a candidate, because it was sent again or is an ancestor of
\* a reconsidered block: such a block can become the tip without being one, and
\* when it is left again the chain before it has been forgotten.
SettledIsBest ==
    Settled /\ cleared = {} => \A b \in ValidChains : ~Worse(tip, b, nSequenceId)

\* What ActivateBestChain promises, "either failure or an activated best chain",
\* with those blocks counted too.
ActivatesBest == Settled => \A b \in ValidChains : ~Worse(tip, b, nSequenceId)

\* No block of the active chain is marked as failed.
ActiveChainValid == Chain[tip] \cap Failed = {}

\* The key by which a candidate is sorted is fixed when it is linked, and no
\* two blocks share it: the ordered set is never reordered under its feet.
SequenceFixed ==
    [][/\ \A b \in linked : nSequenceId'[b] = nSequenceId[b]
       /\ \A a, b \in linked' :
             a # b => nSequenceId'[a] # nSequenceId'[b]]_vars

\* Once a notarized block is in the active chain it stays there, whoever asks
\* for a reorganisation (the refusal in DisconnectTip).
NotarizedStays ==
    [][\A i \in DOMAIN npoints :
          npoints[i].block \in Chain[tip] => npoints[i].block \in Chain[tip']]_vars

\* A call of ActivateBestChain returns, whatever the other threads do between
\* its lock scopes.
ActivationEnds ==
    \A t \in Threads : pc[t] = "enter" ~> pc[t] = "idle"
=============================================================================
