----------------------------- MODULE HashBuckets -----------------------------
(***************************************************************************)
(* AdjustHash (src/producer/adjusthash.go): the shard hash of a log is cut *)
(* to one of `buckets' values, so that logs of a bucket share a batch.  A  *)
(* digest is a function from hexadecimal places to digits; 16 of the 32    *)
(* digits of the digest are looked at, the rest of the result is zero.     *)
(***************************************************************************)
EXTENDS Integers

Places == 0..15

getBitValue(val, bits) ==
  LET Clear(n) == val - (val % n)  \* val without its last bits
  IN  CASE bits >= 16 -> val
        [] bits \in 8..15 -> Clear(2)
        [] bits \in 4..7 -> Clear(4)
        [] bits \in 2..3 -> Clear(8)
        [] OTHER -> 0

\* Each round shifts buckets by 4 bits; the loop ends when nothing is left.
AdjustHash(digest, buckets) ==
  LET left[i \in Places] == IF i = 0 THEN buckets ELSE left[i - 1] \div 16
  IN  [i \in Places |-> IF left[i] > 0 THEN getBitValue(digest[i], left[i]) ELSE 0]

\* The first three digits as a number, and a digest that begins with them.
Number(digest) == 256 * digest[0] + 16 * digest[1] + digest[2]
DigestOf(x) ==
  [i \in Places |-> CASE i = 0 -> x \div 256 [] i = 1 -> (x \div 16) % 16 [] i = 2 -> x % 16
                     [] OTHER -> 15]

\* README.md:126: shard hashes are grouped into 2^k buckets, 1 to 256.  So the first k bits of
\* the digest stay (as AdjustHashOld has it) and all the others are zero.
ASSUME HashKeepsFirstBits ==
  \A k \in 0..8, x \in 0..(2^12 - 1) :
    LET hash == AdjustHash(DigestOf(x), 2^k)
    IN  Number(hash) = x - (x % 2^(12 - k)) /\ \A i \in 3..15 : hash[i] = 0
=============================================================================
