---------------------------- MODULE HeaderProofs ----------------------------
(***************************************************************************)
(* Proofs that a header belongs to the chain: MerkleCache and Merkle       *)
(* (lib/merkle.py), the DB's cache header_mc, and the requests of clients  *)
(* for a header with a checkpoint (server/session.py, _merkle_proof).      *)
(*                                                                         *)
(* The cache keeps the level of the tree that is depth_higher above its    *)
(* leaves, over the first Length headers, and grows when a longer prefix   *)
(* is asked for.  A request reads headers up to three times, each time in  *)
(* a worker thread: the cache may be grown by another request, or cut by a *)
(* reorganisation, before it goes on.  The hash of two nodes is the pair,  *)
(* so that a proof verifies only if nothing in it was mixed up.            *)
(***************************************************************************)
EXTENDS Integers, FiniteSetsExt, Sequences, SequencesExt

CONSTANTS
    Clients,        \* the requests that can be under way together
    FirstHeaders,   \* headers when the cache is populated
    HeaderReorgLimit, \* env.reorg_limit
    MaxHeaders,     \* bound: headers
    MaxEvents       \* bound: proofs asked for and headers undone, together

ASSUME HeaderAssumption ==
    /\ FirstHeaders \in Nat \ {0} /\ MaxHeaders \in Nat /\ HeaderReorgLimit \in Nat
    /\ MaxEvents \in Nat

VARIABLES
    headers,        \* the header hashes on disk: the first db_height + 1
    length,         \* MerkleCache.length
    level,          \* MerkleCache.level
    proofs,         \* client -> the proof it awaits
    undone,         \* headers undone so far (bound)
    asked,          \* proofs asked for so far (bound)
    (* history: what only the property looks at *)
    broken          \* the cache got shorter while a request was extending it

proofVars == <<headers, length, level, proofs, undone, asked, broken>>

NoProof == [at |-> "none", length |-> 0, index |-> 0, read |-> << >>, leaves |-> << >>,
            level |-> << >>, branch |-> << >>, root |-> << >>, disturbed |-> FALSE]

-----------------------------------------------------------------------------
(* Merkle *)

Hash(left, right) == <<left, right>>

(* The least depth of a tree with n leaves: ceil(log2(n)). *)
branch_length(n) == CHOOSE k \in 0..n : 2^k >= n /\ \A j \in 0..(k - 1) : 2^j < n
tree_depth(n) == branch_length(n) + 1

Evened(hashes) == IF Len(hashes) % 2 = 1 THEN Append(hashes, Last(hashes)) ELSE hashes
Paired(hashes) == [n \in 1..(Len(hashes) \div 2) |-> Hash(hashes[2 * n - 1], hashes[2 * n])]

(* rows[k] is the tree's row k above its leaves, the last one of each repeated if need be. *)
RowsOver(hashes, depth) ==
    LET rows[k \in 0..depth] == IF k = 0 THEN hashes ELSE Paired(Evened(rows[k - 1]))
    IN rows

(* Merkle.branch_and_root; indices are from 0. *)
branch_and_root(hashes, index, depth) ==
    LET rows == RowsOver(hashes, depth)
        sibling(k) == LET i == index \div 2^(k - 1) IN IF i % 2 = 0 THEN i + 1 ELSE i - 1
    IN [branch |-> [k \in 1..depth |-> Evened(rows[k - 1])[sibling(k) + 1]],
        root |-> rows[depth][1]]

root_from_proof(leaf, branch, index) ==
    LET up[k \in 0..Len(branch)] ==
          IF k = 0 THEN leaf
          ELSE IF (index \div 2^(k - 1)) % 2 = 1 THEN Hash(branch[k], up[k - 1])
          ELSE Hash(up[k - 1], branch[k])
    IN up[Len(branch)]

RootOf(hashes) == branch_and_root(hashes, 0, branch_length(Len(hashes))).root

-----------------------------------------------------------------------------
(* MerkleCache *)

(* populate_header_merkle_cache: how much is cached at first, which fixes depth_higher. *)
FirstLength == Max({1, FirstHeaders - 1 - HeaderReorgLimit})
depth_higher == tree_depth(FirstLength) \div 2
Segment == 2^depth_higher
_leaf_start(n) == (n \div Segment) * Segment

(* Merkle.level: the roots of the segments. *)
_level(hashes) ==
    [n \in 1..((Len(hashes) + Segment - 1) \div Segment) |->
        branch_and_root(SubSeq(hashes, (n - 1) * Segment + 1, Min({n * Segment, Len(hashes)})), 0,
                        depth_higher).root]

(* self.level[from:] = tail, as Python assigns a slice: past its end, at its end. *)
Spliced(from, tail) == SubSeq(level, 1, Min({from, Len(level)})) \o tail

(* Mutant: the cache is cut within a segment. *)
Cut_inside(n) ==
    IF n >= length THEN UNCHANGED <<length, level>>
    ELSE length' = n /\ level' = Spliced(_leaf_start(n) \div Segment, << >>)

(* truncate *)
Cut(n) ==
    IF n >= length THEN UNCHANGED <<length, level>>
    ELSE length' = _leaf_start(n) /\ level' = Spliced(_leaf_start(n) \div Segment, << >>)

(* fs_block_hashes(start, count): it raises unless all of them are on disk. *)
Available(start, count) == start + count <= Len(headers)
Source(start, count) == SubSeq(headers, start + 1, start + count)

(* What a request reads next: the headers beyond the cache, the segment of its leaf, the
   last segment of the prefix it asks about. *)
Wanted(p) ==
    CASE p.at = "extend" -> [start |-> _leaf_start(p.read[1]), count |-> p.length - _leaf_start(p.read[1])]
      [] p.at = "leaves" -> [start |-> _leaf_start(p.index),
                             count |-> Min({Segment, p.length - _leaf_start(p.index)})]
      [] p.at = "level" -> [start |-> _leaf_start(p.length),
                            count |-> Min({Segment, p.length - _leaf_start(p.length)})]

-----------------------------------------------------------------------------
(* Requests *)

(* _merkle_proof of the header at this index among the first n, then branch_and_root. *)
Request(c, n, index) ==
    /\ proofs[c].at = "none" /\ asked + undone < MaxEvents
    /\ asked' = asked + 1
    /\ proofs' = [proofs EXCEPT ![c] =
          [NoProof EXCEPT !.length = n, !.index = index,
                          !.at = IF n <= length THEN "leaves" ELSE "extend",
                          !.read = IF n <= length THEN << >> ELSE <<length>>]]
    /\ UNCHANGED <<headers, length, level, undone, broken>>

ReadHeaders(c) ==
    /\ proofs[c].at \in {"extend", "leaves", "level"}
    /\ LET w == Wanted(proofs[c])
       IN proofs' = [proofs EXCEPT ![c] =
              IF ~Available(w.start, w.count) THEN NoProof
              ELSE CASE @.at = "extend" -> [@ EXCEPT !.at = "extended", !.read = @ \o Source(w.start, w.count)]
                     [] @.at = "leaves" -> [@ EXCEPT !.at = "leafed", !.leaves = Source(w.start, w.count)]
                     [] @.at = "level" -> [@ EXCEPT !.at = "leveled", !.read = Source(w.start, w.count)]]
    /\ UNCHANGED <<headers, length, level, undone, asked, broken>>

Extending(others) == \E d \in others : proofs[d].at \in {"extend", "extended"}

(* The end of _extend_to.  The cache gets shorter if another request has extended it beyond
   this one's prefix meanwhile. *)
Extend(c) ==
    /\ proofs[c].at = "extended"
    /\ LET p == proofs[c]
       IN /\ level' = Spliced(_leaf_start(Head(p.read)) \div Segment, _level(Tail(p.read)))
          /\ length' = p.length
          /\ proofs' = [d \in Clients |->
                CASE d = c -> [p EXCEPT !.at = "leaves", !.read = << >>]
                  [] d # c /\ p.length < length -> [proofs[d] EXCEPT !.disturbed = proofs[d].at # "none"]
                  [] OTHER -> proofs[d]]
          /\ broken' = (broken \/ (p.length < length /\ Extending(Clients \ {c})))
    /\ UNCHANGED <<headers, undone, asked>>

Proof(c, pr) == proofs' = [proofs EXCEPT ![c].at = "answered", ![c].branch = pr.branch,
                                         ![c].root = pr.root, ![c].read = << >>,
                                         ![c].leaves = << >>, ![c].level = << >>]

(* Merkle.branch_and_root_from_level; inconsistent hashes raise. *)
FromLevel(c, top) ==
    LET p == proofs[c]
        low == branch_and_root(p.leaves, p.index - _leaf_start(p.index), depth_higher)
        high == branch_and_root(top, p.index \div Segment, branch_length(Len(top)))
    IN IF p.index \div Segment < Len(top) /\ low.root = top[p.index \div Segment + 1]
       THEN Proof(c, [branch |-> low.branch \o high.branch, root |-> high.root])
       ELSE proofs' = [proofs EXCEPT ![c] = NoProof]

(* With its leaves: a prefix within one segment needs no level, and the cache's own length
   no more reading. *)
GotLeaves(c) ==
    /\ proofs[c].at = "leafed"
    /\ LET p == proofs[c]
       IN CASE p.length < Segment ->
                 Proof(c, branch_and_root(p.leaves, p.index, branch_length(Len(p.leaves))))
            [] p.length >= Segment /\ p.length = length -> FromLevel(c, level)
            [] OTHER -> proofs' = [proofs EXCEPT
                  ![c].at = "level",
                  ![c].level = SubSeq(level, 1, Min({p.length \div Segment, Len(level)}))]
    /\ UNCHANGED <<headers, length, level, undone, asked, broken>>

(* The end of _level_for. *)
GotLevel(c) ==
    /\ proofs[c].at = "leveled"
    /\ FromLevel(c, proofs[c].level \o _level(proofs[c].read))
    /\ UNCHANGED <<headers, length, level, undone, asked, broken>>

Done(c) ==
    /\ proofs[c].at = "answered"
    /\ proofs' = [proofs EXCEPT ![c] = NoProof]
    /\ UNCHANGED <<headers, length, level, undone, asked, broken>>

-----------------------------------------------------------------------------
(* The block processor: a header appended by a flush; the last one undone, with the cache
   truncated to what remains. *)

Disturbed == [c \in Clients |-> IF proofs[c].at = "none" THEN proofs[c]
                                ELSE [proofs[c] EXCEPT !.disturbed = TRUE]]

AppendHeader ==
    /\ Len(headers) < MaxHeaders
    /\ headers' = Append(headers, <<Len(headers), undone, "header">>)
    /\ UNCHANGED <<length, level, proofs, undone, asked, broken>>

UndoHeader ==
    /\ asked + undone < MaxEvents /\ Len(headers) > FirstHeaders - HeaderReorgLimit
    /\ undone' = undone + 1
    /\ headers' = Front(headers)
    /\ Cut(Len(headers) - 1)
    /\ broken' = (broken \/ Extending(Clients))
    /\ proofs' = Disturbed
    /\ UNCHANGED asked

-----------------------------------------------------------------------------
ProofsInit ==
    /\ headers = [n \in 1..FirstHeaders |-> <<n - 1, 0, "header">>]
    /\ length = FirstLength
    /\ level = _level(SubSeq(headers, 1, FirstLength))
    /\ proofs = [c \in Clients |-> NoProof]
    /\ undone = 0 /\ asked = 0 /\ broken = FALSE

ProofsNext ==
    \/ \E c \in Clients :
         \/ \E n \in 1..Len(headers) : \E index \in 0..(n - 1) : Request(c, n, index)
         \/ ReadHeaders(c) \/ Extend(c) \/ GotLeaves(c) \/ GotLevel(c) \/ Done(c)
    \/ AppendHeader
    \/ UndoHeader

-----------------------------------------------------------------------------
(* The cached level is the one of the headers on disk, unless it got shorter, by a
   reorganisation or an extension that another had overtaken, while a request was extending
   it from its former end; and an answer proves its header under the root of the prefix asked about,
   unless meanwhile the cache was cut, or made shorter by an extension that another had
   overtaken (lib/merkle.py, MerkleCache). *)
ProofsFollowChain ==
    /\ broken \/ (/\ length <= Len(headers)
                  /\ level = _level(SubSeq(headers, 1, length)))
    /\ \A c \in Clients : proofs[c].at = "answered" /\ ~proofs[c].disturbed /\ ~broken =>
         LET p == proofs[c]
         IN /\ p.root = RootOf(SubSeq(headers, 1, p.length))
            /\ root_from_proof(headers[p.index + 1], p.branch, p.index) = p.root
=============================================================================
