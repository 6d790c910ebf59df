------------------------------ MODULE BlockDeps ------------------------------
(***************************************************************************)
(* The block dependency list of main.js: getDepBlockList posts a           *)
(* synchronous /blkdeps/get request and returns the dependBlocks of a      *)
(* reply with code 0, or an empty list; modifyBlockids appends to the      *)
(* global blockids every dependency it does not hold yet.  loadBuf's calls *)
(* to both are commented out (183-185), so the viewer only ever loads      *)
(* block 113; the operators state what the functions compute for any      *)
(* reply, so that the list they would build is known before they are      *)
(* wired in again.                                                         *)
(***************************************************************************)
EXTENDS Integers, SequencesExt

CONSTANTS
    DepBlocks,   \* the block ids a /blkdeps/get reply may name
    MaxDeps      \* bound on the length of a reply's dependBlocks

\* A reply: whether the request succeeded (success is called only then), the
\* result code and the dependency list of the body.
DepReplies ==
    [received : BOOLEAN, code : {0, 1}, dependBlocks : BoundedSeq(DepBlocks, MaxDeps)]

\* getDepBlockList: the dependBlocks of a successful reply with code 0, in
\* order, and [] otherwise.
GetDepBlockList(result) ==
    IF result.received /\ result.code = 0 THEN result.dependBlocks ELSE <<>>

\* Fault variant: blockids.indexOf tested against the array as it was
\* before the loop, so a dependency named twice is pushed twice.
ModifyBlockidsStale(bids, dependBlocks) ==
    FoldLeft(LAMBDA acc, d : IF Contains(bids, d) THEN acc ELSE Append(acc, d),
             bids, dependBlocks)

\* modifyBlockids: push each dependency whose indexOf in blockids is -1; the
\* array grows inside the loop, so indexOf sees the earlier pushes.
ModifyBlockids(bids, dependBlocks) ==
    FoldLeft(LAMBDA acc, d : IF Contains(acc, d) THEN acc ELSE Append(acc, d),
             bids, dependBlocks)

\* The blockids arrays the viewer can hold, of up to two ids: the source's
\* [113] (line 138), or that array extended by an earlier modifyBlockids,
\* which only appends ids it does not hold.
BlockidArrays ==
    { s \in BoundedSeq(DepBlocks, 2) : Len(s) > 0 /\ s[1] = 113 /\ IsInjective(s) }

\* Reference: blockids followed by the first occurrence, in reply order, of
\* each dependency not in blockids.
FirstNew(bids, deps) ==
    LET idx == SelectSeq([i \in 1..Len(deps) |-> i],
                         LAMBDA i : /\ ~Contains(bids, deps[i])
                                    /\ \A j \in 1..(i - 1) : deps[j] # deps[i])
    IN [k \in 1..Len(idx) |-> deps[idx[k]]]

=============================================================================
