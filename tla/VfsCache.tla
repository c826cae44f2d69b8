------------------------------ MODULE VfsCache ------------------------------
(***************************************************************************)
(* CachingFS (src/jp/vfs_cache.py) in front of the remote file system: the *)
(* block, attribute and directory caches of a live mount.  One worker at a *)
(* time holds the lock; while it waits for the server, the server's files  *)
(* go on changing.  A call is a step per round-trip (RemoteFS.read may     *)
(* take several for one block) and one for what is done with the answer.   *)
(*                                                                         *)
(* A file is its mtime and its size in units; a block is Block units.      *)
(* Every change of a path has a number (event); `at` says which change a   *)
(* cached answer saw - the code does not have it, the properties do.       *)
(***************************************************************************)
EXTENDS Integers, Sequences, FiniteSets

CONSTANTS
    Paths,        \* files of one directory
    Block,        \* BLOCK, in units
    MaxBytes,     \* _max_bytes, in units
    Readahead,    \* _readahead
    Ttl,          \* _attr_ttl, in ticks
    Requests,     \* the (offset, length) pairs that are read
    Sizes,        \* the sizes a file may get
    MaxEvents, MaxNow    \* bounds: changes, time

ASSUME CacheAssumption ==
    /\ IsFiniteSet(Paths)
    /\ {Block, MaxBytes, Ttl} \subseteq Nat \ {0}
    /\ Readahead \in Nat
ASSUME RequestsAssumption == Requests \subseteq [off: Nat, len: Nat \ {0}]
ASSUME BoundsAssumption ==
    Sizes \subseteq Nat /\ {MaxEvents, MaxNow} \subseteq Nat

VARIABLES
    file,      \* the server's files
    event,     \* number of the last change
    now,       \* time.monotonic
    blocks,    \* _blocks, least recently used first
    bytes,     \* _cached_bytes
    stamp,     \* _block_mtime; 0 for none
    lastEnd,   \* _last_read_end; -1 for none
    attr,      \* _attr; id = 0 for a negative entry, until = 0 for none
    dirs,      \* _dirs, for the one directory; until = 0 for none
    op,        \* the call whose worker holds the lock
    seen,      \* the last change of each path that a stat or an own write told
    unguarded  \* the paths whose blocks stamp does not guard, though some are cached

server == <<file, event>>
cache == <<blocks, bytes, stamp, lastEnd, attr, dirs>>
told == <<seen, unguarded>>
vars == <<server, now, cache, op, told>>

File == [id: Nat, at: Nat, size: Nat]      \* id is the mtime; 0 for no file
There(f) == f.id # 0
NoFile == [id |-> 0, at |-> 0, size |-> 0]
CachedBlock == [path: Paths, no: Nat, len: 0..Block, at: Nat]
NoAttr == [id |-> 0, at |-> 0, size |-> 0, until |-> 0]
NoListing == [names |-> {}, until |-> 0]
Calls == {"free", "read", "stat", "list", "write", "unlink", "rename"}
CallSteps == {"free", "baseline", "block", "ahead", "done", "asked", "answered", "effect", "invalidate"}
Free == [call |-> "free", step |-> "free"]

TypeOK ==
    /\ file \in [Paths -> File]
    /\ event \in Nat /\ now \in Nat
    /\ blocks \in Seq(CachedBlock)
    /\ bytes \in Nat
    /\ stamp \in [Paths -> Nat]
    /\ lastEnd \in [Paths -> Int]
    /\ attr \in [Paths -> [id: Nat, at: Nat, size: Nat, until: Nat]]
    /\ dirs \in [names: SUBSET Paths, until: Nat]
    /\ op.call \in Calls /\ op.step \in CallSteps
    /\ seen \in [Paths -> Nat]
    /\ unguarded \subseteq Paths

Init ==
    /\ event = Cardinality(Paths)
    /\ file \in [Paths -> {NoFile} \cup [id: 1..event, at: {0}, size: Sizes]]
    /\ \A p, q \in Paths : p # q /\ There(file[p]) => file[p].id # file[q].id
    /\ now = 0
    /\ blocks = <<>>
    /\ bytes = 0
    /\ stamp = [p \in Paths |-> 0]
    /\ lastEnd = [p \in Paths |-> -1]
    /\ attr = [p \in Paths |-> NoAttr]
    /\ dirs = NoListing
    /\ op = Free
    /\ seen = [p \in Paths |-> 0]
    /\ unguarded = {}

Larger(m, n) == IF m > n THEN m ELSE n
Smaller(m, n) == IF m < n THEN m ELSE n

-----------------------------------------------------------------------------
(* The server and the clock. *)

RemoteWrite(p, s) ==
    /\ event < MaxEvents
    /\ event' = event + 1
    /\ file' = [file EXCEPT ![p] = [id |-> event', at |-> event', size |-> s]]
    /\ UNCHANGED <<now, cache, op, told>>

RemoteRemove(p) ==
    /\ event < MaxEvents
    /\ There(file[p])
    /\ event' = event + 1
    /\ file' = [file EXCEPT ![p] = [NoFile EXCEPT !.at = event']]
    /\ UNCHANGED <<now, cache, op, told>>

Tick ==
    /\ now < MaxNow
    /\ now' = now + 1
    /\ UNCHANGED <<server, cache, op, told>>

-----------------------------------------------------------------------------
(* The block cache. *)

\* The bytes of the blocks at some places, numbered; how many, and of all.
Units(bs, places) == {u \in places \X (1..Block) : u[2] =< bs[u[1]].len}
Size(bs, places) == Cardinality(Units(bs, places))
Total(bs) == Size(bs, DOMAIN bs)

\* The members of a set of numbers, from the least to the greatest; the blocks
\* at some places in their order, and all but those.
InOrder(S) == [i \in 1..Cardinality(S) |-> CHOOSE n \in S : Cardinality({m \in S : m < n}) = i - 1]
Kept(bs, places) == LET order == InOrder(places) IN [i \in DOMAIN order |-> bs[order[i]]]
Without(bs, places) == Kept(bs, DOMAIN bs \ places)

\* move_to_end: a block that is used becomes the last to go.
Moved(bs, i) == Append(Without(bs, {i}), bs[i])

IsBlock(b, p, n) == b.path = p /\ b.no = n
Cached(p, n) == \E i \in DOMAIN blocks : IsBlock(blocks[i], p, n)
PlaceOf(p, n) == CHOOSE i \in DOMAIN blocks : IsBlock(blocks[i], p, n)

\* Mutant: an evicted block is taken off the counter twice.
EvictedCountedTwice(bs, total) ==
    LET dropped == CHOOSE k \in 0..Len(bs) :
                       /\ k = Len(bs) \/ total - Size(bs, 1..k) =< MaxBytes
                       /\ \A j \in 0..(k - 1) : total - Size(bs, 1..j) > MaxBytes
    IN  [blocks |-> SubSeq(bs, dropped + 1, Len(bs)),
         bytes |-> total - 2 * Size(bs, 1..dropped)]

\* _evict: the oldest blocks go until the rest fits.
Evicted(bs, total) ==
    LET dropped == CHOOSE k \in 0..Len(bs) :
                       /\ k = Len(bs) \/ total - Size(bs, 1..k) =< MaxBytes
                       /\ \A j \in 0..(k - 1) : total - Size(bs, 1..j) > MaxBytes
    IN  [blocks |-> SubSeq(bs, dropped + 1, Len(bs)),
         bytes |-> total - Size(bs, 1..dropped)]

Of(ps) == {i \in DOMAIN blocks : blocks[i].path \in ps}

\* Mutant: what was dropped stays counted.
ForgetBlocksUncounted(ps) ==
    /\ blocks' = Without(blocks, Of(ps))
    /\ bytes' = bytes

\* _drop_path_blocks, but for the two tables its callers deal with.
ForgetBlocks(ps) ==
    /\ blocks' = Without(blocks, Of(ps))
    /\ bytes' = bytes - Size(blocks, Of(ps))

-----------------------------------------------------------------------------
(* read.  op carries the request, the block it is at, what it has got      *)
(* (out), the part of the block already received and the oldest change     *)
(* among the blocks it used.                                               *)

FirstBlock(r) == r.off \div Block
LastBlock(r) == (r.off + r.len - 1) \div Block

Read(p, r) ==
    /\ op = Free
    /\ op' = [call |-> "read", path |-> p, off |-> r.off, len |-> r.len,
              step |-> IF stamp[p] = 0 /\ ~There(attr[p]) THEN "baseline" ELSE "block",
              no |-> FirstBlock(r), out |-> 0, part |-> 0, at |-> 0,
              miss |-> FALSE, oldest |-> event]
    /\ stamp' = IF stamp[p] = 0 THEN [stamp EXCEPT ![p] = attr[p].id] ELSE stamp
    /\ UNCHANGED <<server, now, blocks, bytes, lastEnd, attr, dirs, told>>

\* No stamp and no attribute to take it from: the backend is asked, and a file
\* that is not there leaves the path without a stamp.
Baseline ==
    /\ op.step = "baseline"
    /\ stamp' = [stamp EXCEPT ![op.path] = file[op.path].id]
    /\ op' = [op EXCEPT !.step = "block"]
    /\ UNCHANGED <<server, now, blocks, bytes, lastEnd, attr, dirs, told>>

\* Mutant: the slice starts at the beginning of the block.
PieceFromStart(o, len) == Smaller(len, Smaller(o.off + o.len - o.no * Block, Block))

\* How much of a block of length len the request o takes.
Piece(o, len) ==
    LET lo == Larger(o.off - o.no * Block, 0)
        hi == Smaller(o.off + o.len - o.no * Block, Block)
    IN  Larger(Smaller(len, hi) - lo, 0)

\* After a block: the next one, or, at the last or at a short one, the
\* read-ahead, if this read went on where the previous one ended and missed.
Onward(o, len, isMiss, bs) ==
    LET got == [o EXCEPT !.out = @ + Piece(o, len), !.part = 0, !.at = 0, !.miss = @ \/ isMiss]
        absent == {n \in (LastBlock(o) + 1)..(LastBlock(o) + Readahead) :
                       \A i \in DOMAIN bs : ~IsBlock(bs[i], o.path, n)}
    IN  IF len = Block /\ o.no < LastBlock(o) THEN [got EXCEPT !.no = @ + 1]
        ELSE IF len = Block /\ got.miss /\ absent # {} /\ lastEnd[o.path] = o.off
        THEN [got EXCEPT !.step = "ahead", !.no = CHOOSE n \in absent : \A m \in absent : n =< m]
        ELSE [got EXCEPT !.step = "done"]

\* After a prefetched block: the next one that is not cached, unless the file
\* ended.
AheadOnward(o, len, bs) ==
    LET absent == {n \in (o.no + 1)..(LastBlock(o) + Readahead) :
                       \A i \in DOMAIN bs : ~IsBlock(bs[i], o.path, n)}
        got == [o EXCEPT !.part = 0, !.at = 0]
    IN  IF len = Block /\ absent # {}
        THEN [got EXCEPT !.no = CHOOSE n \in absent : \A m \in absent : n =< m]
        ELSE [got EXCEPT !.step = "done"]

Hit ==
    LET i == PlaceOf(op.path, op.no)
        b == blocks[i]
        used == Moved(blocks, i)
    IN  /\ op.step = "block"
        /\ Cached(op.path, op.no)
        /\ blocks' = used
        /\ op' = Onward([op EXCEPT !.oldest = Smaller(@, b.at)], b.len, FALSE, used)
        /\ UNCHANGED <<server, now, bytes, stamp, lastEnd, attr, dirs, told>>

Fetching ==
    \/ op.step = "ahead"
    \/ op.step = "block" /\ ~Cached(op.path, op.no)

\* What one round-trip of RemoteFS.read adds to the block.
Chunk == Larger(0, Smaller(Block - op.part, file[op.path].size - op.no * Block - op.part))
FirstAt == IF op.part = 0 THEN file[op.path].at ELSE op.at

\* What is received of a path that has no stamp is not guarded by one.
Unguard == unguarded' = IF stamp[op.path] = 0 THEN unguarded \cup {op.path} ELSE unguarded

\* A short answer that is not the end yet: another round-trip follows.
FetchMore ==
    /\ Fetching
    /\ There(file[op.path])
    /\ Chunk > 0 /\ op.part + Chunk < Block
    /\ op' = [op EXCEPT !.part = @ + Chunk, !.at = FirstAt]
    /\ Unguard
    /\ UNCHANGED <<server, now, cache, seen>>

\* Mutant: an empty answer is no end.
FetchUntilFull ==
    /\ Fetching
    /\ There(file[op.path])
    /\ Chunk > 0 /\ op.part + Chunk = Block
    /\ LET b == [path |-> op.path, no |-> op.no, len |-> Block, at |-> FirstAt]
           kept == Evicted(Append(blocks, b), bytes + b.len)
       IN  /\ blocks' = kept.blocks
           /\ bytes' = kept.bytes
           /\ op' = IF op.step = "ahead" THEN AheadOnward(op, b.len, kept.blocks)
                    ELSE Onward([op EXCEPT !.oldest = Smaller(@, b.at)], b.len, TRUE, kept.blocks)
    /\ Unguard
    /\ UNCHANGED <<server, now, stamp, lastEnd, attr, dirs, seen>>

\* The block is full or the file ended: it is stored, the cache is trimmed.
FetchEnds ==
    /\ Fetching
    /\ There(file[op.path])
    /\ Chunk = 0 \/ op.part + Chunk = Block
    /\ LET b == [path |-> op.path, no |-> op.no, len |-> op.part + Chunk, at |-> FirstAt]
           kept == Evicted(Append(blocks, b), bytes + b.len)
       IN  /\ blocks' = kept.blocks
           /\ bytes' = kept.bytes
           /\ op' = IF op.step = "ahead" THEN AheadOnward(op, b.len, kept.blocks)
                    ELSE Onward([op EXCEPT !.oldest = Smaller(@, b.at)], b.len, TRUE, kept.blocks)
    /\ Unguard
    /\ UNCHANGED <<server, now, stamp, lastEnd, attr, dirs, seen>>

\* The file is not there (RemoteNotFound): what was cached so far stays.
FetchFindsNothing ==
    /\ Fetching
    /\ ~There(file[op.path])
    /\ op' = Free
    /\ UNCHANGED <<server, now, cache, told>>

ReadReturns ==
    /\ op.step = "done"
    /\ lastEnd' = [lastEnd EXCEPT ![op.path] = op.off + op.out]
    /\ op' = Free
    /\ UNCHANGED <<server, now, blocks, bytes, stamp, attr, dirs, told>>

-----------------------------------------------------------------------------
(* stat and listdir. *)

\* An answer that there is no such file is not followed by a read of it.
Tell(p, st) == seen' = [seen EXCEPT ![p] = IF There(st) THEN Larger(@, st.at) ELSE @]

StatHit(p) ==
    /\ op = Free
    /\ attr[p].until > now
    /\ Tell(p, attr[p])
    /\ UNCHANGED <<server, now, cache, op, unguarded>>

Stat(p) ==
    /\ op = Free
    /\ attr[p].until =< now
    /\ op' = [call |-> "stat", step |-> "asked", path |-> p, time |-> now, answer |-> NoFile]
    /\ UNCHANGED <<server, now, cache, told>>

StatAsked ==
    /\ op.call = "stat" /\ op.step = "asked"
    /\ op' = [op EXCEPT !.step = "answered", !.answer = file[op.path]]
    /\ UNCHANGED <<server, now, cache, told>>

Remembered(st, until) == [id |-> st.id, at |-> st.at, size |-> st.size, until |-> until]

\* Mutant: the entry lives from the answer on, not from the question.
StatAnsweredFromNow ==
    LET p == op.path
        st == op.answer
    IN  /\ op.call = "stat" /\ op.step = "answered"
        /\ attr' = [attr EXCEPT ![p] = Remembered(st, now + Ttl)]
        /\ IF There(st)
           THEN /\ stamp' = [stamp EXCEPT ![p] = st.id]
                /\ IF stamp[p] \notin {0, st.id}
                   THEN /\ ForgetBlocks({p})
                        /\ lastEnd' = [lastEnd EXCEPT ![p] = -1]
                        /\ unguarded' = unguarded \ {p}
                   ELSE UNCHANGED <<blocks, bytes, lastEnd, unguarded>>
           ELSE UNCHANGED <<blocks, bytes, stamp, lastEnd, unguarded>>
        /\ Tell(p, st)
        /\ op' = Free
        /\ UNCHANGED <<server, now, dirs>>

\* The answer is kept, negative or not; a new mtime drops the path's blocks.
StatAnswered ==
    LET p == op.path
        st == op.answer
    IN  /\ op.call = "stat" /\ op.step = "answered"
        /\ attr' = [attr EXCEPT ![p] = Remembered(st, op.time + Ttl)]
        /\ IF There(st)
           THEN /\ stamp' = [stamp EXCEPT ![p] = st.id]
                /\ IF stamp[p] \notin {0, st.id}
                   THEN /\ ForgetBlocks({p})
                        /\ lastEnd' = [lastEnd EXCEPT ![p] = -1]
                        /\ unguarded' = unguarded \ {p}
                   ELSE UNCHANGED <<blocks, bytes, lastEnd, unguarded>>
           ELSE UNCHANGED <<blocks, bytes, stamp, lastEnd, unguarded>>
        /\ Tell(p, st)
        /\ op' = Free
        /\ UNCHANGED <<server, now, dirs>>

\* A listing in force is returned as it is.
List ==
    /\ op = Free
    /\ dirs.until =< now
    /\ op' = [call |-> "list", step |-> "asked", time |-> now]
    /\ UNCHANGED <<server, now, cache, told>>

ListAnswered ==
    /\ op.call = "list"
    /\ dirs' = [names |-> {p \in Paths : There(file[p])}, until |-> op.time + Ttl]
    /\ op' = Free
    /\ UNCHANGED <<server, now, blocks, bytes, stamp, lastEnd, attr, told>>

-----------------------------------------------------------------------------
(* Write-through calls: the backend first, then the invalidation of the    *)
(* paths it changed.  op.acks holds the changes the call made.             *)

Change(call, acks) ==
    op' = [call |-> call, step |-> "invalidate", acks |-> acks, at |-> event']

Write(p, s) ==
    /\ op = Free
    /\ event < MaxEvents
    /\ event' = event + 1
    /\ file' = [file EXCEPT ![p] = [id |-> event', at |-> event', size |-> s]]
    /\ Change("write", {p})
    /\ UNCHANGED <<now, cache, told>>

Unlink(p) ==
    /\ op = Free
    /\ event < MaxEvents
    /\ There(file[p])
    /\ event' = event + 1
    /\ file' = [file EXCEPT ![p] = [NoFile EXCEPT !.at = event']]
    /\ Change("unlink", {p})
    /\ UNCHANGED <<now, cache, told>>

\* os.rename: the destination is replaced and keeps the source's mtime.
Rename(p, q) ==
    /\ op = Free
    /\ event < MaxEvents
    /\ p # q
    /\ There(file[p])
    /\ event' = event + 1
    /\ file' = [file EXCEPT ![p] = [NoFile EXCEPT !.at = event'],
                            ![q] = [file[p] EXCEPT !.at = event']]
    /\ Change("rename", {p, q})
    /\ UNCHANGED <<now, cache, told>>

\* Mutant: only the attributes go.
InvalidateAttributes ==
    /\ op.step = "invalidate"
    /\ stamp' = [p \in Paths |-> IF p \in op.acks THEN 0 ELSE stamp[p]]
    /\ lastEnd' = [p \in Paths |-> IF p \in op.acks THEN -1 ELSE lastEnd[p]]
    /\ attr' = [p \in Paths |-> IF p \in op.acks THEN NoAttr ELSE attr[p]]
    /\ seen' = [p \in Paths |-> IF p \in op.acks THEN op.at ELSE seen[p]]
    /\ unguarded' = unguarded \ op.acks
    /\ op' = Free
    /\ UNCHANGED <<server, now, blocks, bytes, dirs>>

\* _invalidate_locked for each path of the call.  The listing of the directory
\* they are in is not among what is dropped.
Invalidate ==
    /\ op.step = "invalidate"
    /\ ForgetBlocks(op.acks)
    /\ stamp' = [p \in Paths |-> IF p \in op.acks THEN 0 ELSE stamp[p]]
    /\ lastEnd' = [p \in Paths |-> IF p \in op.acks THEN -1 ELSE lastEnd[p]]
    /\ attr' = [p \in Paths |-> IF p \in op.acks THEN NoAttr ELSE attr[p]]
    /\ seen' = [p \in Paths |-> IF p \in op.acks THEN op.at ELSE seen[p]]
    /\ unguarded' = unguarded \ op.acks
    /\ op' = Free
    /\ UNCHANGED <<server, now, dirs>>

\* Any round-trip may fail (RemoteAccessDenied, ConnectionLost ...): the call
\* raises and touches nothing, though a change may have been made and only its
\* answer lost.  A move that was made keeps the mtime of what it moved: it may
\* be the very mtime by which the cache would notice a change.
CallFails ==
    /\ op.step \in {"baseline", "asked", "invalidate"} \/ Fetching
    /\ op' = Free
    /\ unguarded' = IF op.step = "invalidate"
                   THEN unguarded \cup {p \in op.acks : /\ There(file[p]) /\ stamp[p] = file[p].id
                                                       /\ Of({p}) # {}}
                   ELSE unguarded
    /\ UNCHANGED <<server, now, cache, seen>>

-----------------------------------------------------------------------------
World ==
    \/ \E p \in Paths : RemoteRemove(p) \/ \E s \in Sizes : RemoteWrite(p, s)
    \/ Tick

Begin ==
    \/ \E p \in Paths : \/ \E r \in Requests : Read(p, r)
                        \/ StatHit(p) \/ Stat(p) \/ Unlink(p)
                        \/ \E s \in Sizes : Write(p, s)
                        \/ \E q \in Paths : Rename(p, q)
    \/ List

Continue ==
    \/ Baseline \/ Hit \/ FetchMore \/ FetchEnds \/ FetchFindsNothing \/ ReadReturns
    \/ StatAsked \/ StatAnswered \/ ListAnswered \/ Invalidate

Next == World \/ Begin \/ Continue \/ CallFails

Spec == Init /\ [][Next]_vars

\* A worker in the middle of a call goes on: every round-trip ends in an answer
\* or, by the poll budget of KernelConn, in an error.
FairSpec == Spec /\ WF_vars(Continue)

-----------------------------------------------------------------------------
(* Properties. *)

\* A read never returns bytes older than what a stat already reported or an own
\* write, move or removal already did - nor decides on the end of the file from
\* a block that old: "Changes made ON the server appear here when your
\* editor/file-browser re-reads a file" (docs/jp-live.md).  But for the paths
\* that have blocks their stamp does not guard.
ReadsAreFresh ==
    op.call = "read" /\ op.path \notin unguarded => op.oldest >= seen[op.path]

\* Of a file that did not change under the cache, a read returns exactly the
\* bytes asked for, whichever blocks were cached, evicted or prefetched.
ReadsAreExact ==
    op.call = "read" /\ op.step \in {"ahead", "done"} /\ op.oldest = file[op.path].at =>
        op.out = Larger(0, Smaller(op.len, file[op.path].size - op.off))

\* The byte counter is the size of what is cached, no block is cached twice,
\* and the cache is within its bound.
Accounting ==
    /\ bytes = Total(blocks)
    /\ bytes =< MaxBytes
    /\ \A i, j \in DOMAIN blocks :
           i # j => blocks[i].path # blocks[j].path \/ blocks[i].no # blocks[j].no

\* No call keeps the lock for ever.
EveryCallReturns == op # Free ~> op = Free
=============================================================================
