------------------------------ MODULE MC_Pure ------------------------------
(***************************************************************************)
(* Checks the pure functions of main.js against reference definitions over *)
(* bounded inputs, one input per state.                                    *)
(*                                                                         *)
(* The id codec: ids that include every byte boundary (0, 1, 128, 254, 255 *)
(* in each of the three low bytes) and top bytes 0, 1 and 127.  TLC        *)
(* integers are 32-bit signed, so ids with a top byte >= 128 cannot be     *)
(* evaluated; the three low bytes are the ones whose carries could go      *)
(* wrong.                                                                  *)
(*                                                                         *)
(* The dependency list: every blockids array of up to two distinct blocks *)
(* among 113, 114 and 115, and every /blkdeps/get reply: failed requests,  *)
(* codes 0 and 1, and lists of up to three of those blocks, with repeats.  *)
(***************************************************************************)
EXTENDS IdCodec, BlockDeps

VARIABLES
    n,        \* the feature id (a vertex start index) being encoded
    bids,     \* the global blockids array
    reply     \* the last /blkdeps/get reply

vars == <<n, bids, reply>>

MCDepBlocks == {113, 114, 115}

LowBytes == {0, 1, 128, 254, 255}
TopBytes == {0, 1, 127}

TestIds ==
    { a + b * ByteBase + c * ByteBase^2 + d * ByteBase^3 :
        a \in LowBytes, b \in LowBytes, c \in LowBytes, d \in TopBytes }

\* The decoding the spec states for a pixel (c0..c3):
\* id = c0*255 + c1*255*256 + c2*255*256^2 + c3*255*256^3, rounded per channel.
ReferenceDecode(rgba) ==
    MapThenSumSet(LAMBDA i : ((rgba[i].num * (ByteBase - 1)) \div rgba[i].den)
                              * ByteBase^(i - 1),
                  1..Channels)

\* The reply of a request that failed.
NoReply == [received |-> FALSE, code |-> 1, dependBlocks |-> <<>>]

\* One test input: an id for the codec (blockids and the reply at the
\* source's [113] and a failed request), or a blockids array and a reply
\* (the id at 0).
Input(i, b, r) ==
    \/ /\ i \in TestIds
       /\ b = <<113>>
       /\ r = NoReply
    \/ /\ i = 0
       /\ b \in BlockidArrays
       /\ r \in DepReplies

Init == Input(n, bids, reply)

\* The functions are stateless: each step takes another input.
NextInput == Input(n', bids', reply')

Spec == Init /\ [][NextInput]_vars

\* Round trip (encodeUInt32 then decodeUInt32): every real feature id is
\* written as a pixel that isValid accepts and that decodes to exactly that
\* id, and the decoded value agrees with the spec's reference formula.
CodecRoundTrip ==
    LET px == encodeUInt32(n) IN
    /\ isValid(px)
    /\ decodeUInt32(px) = n
    /\ ReferenceDecode(px) = n

\* Whatever /blkdeps/get returns (an error, a non-zero code, or a list with
\* repeats and blocks already loaded), modifyBlockids(getDepBlockList(...))
\* keeps blockids' entries in place and appends each new dependency once,
\* in reply order, so blockidindex would walk it without loading a block
\* twice.
BlockidsExtendedByDependencies ==
    ModifyBlockids(bids, GetDepBlockList(reply))
        = bids \o FirstNew(bids, GetDepBlockList(reply))

=============================================================================
