------------------------------ MODULE IdCodec ------------------------------
(***************************************************************************)
(* The feature-id colour codec of the viewer (main.js: encodeUInt32,       *)
(* decodeUInt32, isValid).  A feature id is written into a 4-channel float *)
(* vertex attribute as its little-endian bytes divided by 255; the picking *)
(* pass reads the pixel back and multiplies every channel by 255, rounds   *)
(* and reassembles the bytes.                                              *)
(*                                                                         *)
(* A float channel k/255 is kept as the exact rational [num |-> k,         *)
(* den |-> 255]: Math.round(k/255 * 255) is exact in float32, so the only  *)
(* thing abstracted is the representation, not the rounding step.          *)
(***************************************************************************)
EXTENDS Integers, FiniteSetsExt

CONSTANTS
    ByteBase,   \* 256: the radix of one channel
    Channels    \* 4: r, g, b, a

ASSUME ByteBase \in Nat \ {0, 1} /\ Channels \in Nat \ {0}

\* A float channel holding k / 255.
Channel(k) == [num |-> k, den |-> ByteBase - 1]

\* The clear colour of every picking scene, new THREE.Color(0xffffff) with
\* alpha 1: what a picking target reads where no feature is drawn.
Background == [i \in 1..Channels |-> Channel(ByteBase - 1)]

\* A zero-initialised Float32Array(4) entry.
ZeroRgba == [i \in 1..Channels |-> Channel(0)]

\* encodeUInt32: channel i holds (trunc(ui32 / 256^(i-1)) % 256) / 255.
encodeUInt32(ui32) ==
    [i \in 1..Channels |-> Channel((ui32 \div ByteBase^(i - 1)) % ByteBase)]

\* Math.round(c * m) for a channel c and a non-negative integer m.
RoundTimes(c, m) == (2 * c.num * m + c.den) \div (2 * c.den)

\* Fault variant: every channel weighted by 255^(i-1) instead of 256^(i-1).
decodeUInt32Radix255(rgba) ==
    MapThenSumSet(LAMBDA i : RoundTimes(rgba[i], ByteBase - 1) * (ByteBase - 1)^(i - 1),
                  1..Channels)

\* decodeUInt32: sum over channels of round(c_i * 255) * 256^(i-1).
decodeUInt32(rgba) ==
    MapThenSumSet(LAMBDA i : RoundTimes(rgba[i], ByteBase - 1) * ByteBase^(i - 1),
                  1..Channels)

\* isValid: a pixel is a feature unless all four channels equal 1.0.
isValid(rgba) == ~ \A i \in 1..Channels : rgba[i].num = rgba[i].den

=============================================================================
