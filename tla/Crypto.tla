------------------------------- MODULE Crypto -------------------------------
(* The stream interfaces of usr/drivers/sha2.c and of                        *)
(* usr/drivers/crypto/arc4.c: a context that is fed, or drawn from, in       *)
(* pieces of any length.  The compression of a SHA-256 block is left         *)
(* uninterpreted: the hash state is the sequence of blocks it has absorbed.  *)
EXTENDS Integers, Sequences, SequencesExt, Bitwise

CONSTANTS
  SHA256_BLOCK_SIZE,   \* bytes of a block
  LengthBytes,         \* its last bytes, which hold the length in bits
  ByteBits,            \* bits of a byte of the message
  Pieces,              \* the pieces of data passed to one call
  MaxMessage,          \* bound on the message
  RC4STATE,            \* entries of the state, a power of two
  RC4Keys              \* the keys, sequences of numbers below RC4STATE

ASSUME CryptoAssumption ==
  /\ SHA256_BLOCK_SIZE \in Nat /\ LengthBytes \in 1..SHA256_BLOCK_SIZE - 1
  /\ ByteBits \in Nat \ {0} /\ MaxMessage \in Nat /\ RC4STATE \in Nat \ {0}

VARIABLES
  sha,        \* the SHA-256 context: data, datalen, bitlen, state
  message,    \* all bytes it was fed since its initialisation
  digest,     \* the blocks behind the last digest, and its message
  rc4,        \* the RC4 context: state, x, y
  stream,     \* the key, the bytes passed over, and the last call's result
  crypto_part \* which of the two contexts this run uses
crypto_vars == <<sha, message, digest, rc4, stream, crypto_part>>

Mark == 128                       \* the byte 0x80 that ends the message
PadEnd == SHA256_BLOCK_SIZE - LengthBytes
ZeroBytes(n) == [i \in 1..n |-> 0]

-----------------------------------------------------------------------------
sha256_transform(ctx, data) == [ctx EXCEPT !.state = Append(@, data)]
sha256_init ==
  [data |-> ZeroBytes(SHA256_BLOCK_SIZE), datalen |-> 0, bitlen |-> 0,
   state |-> <<>>]

\* Mutant: the bits of an absorbed block are not counted.
AbsorbUncounted(ctx, byte) ==
  LET filled == [ctx EXCEPT !.data[ctx.datalen + 1] = byte, !.datalen = @ + 1]
  IN IF filled.datalen # SHA256_BLOCK_SIZE THEN filled
     ELSE [sha256_transform(filled, filled.data) EXCEPT !.datalen = 0]

\* One byte into the block; a full block is absorbed.
Absorb(ctx, byte) ==
  LET filled == [ctx EXCEPT !.data[ctx.datalen + 1] = byte, !.datalen = @ + 1]
  IN IF filled.datalen # SHA256_BLOCK_SIZE THEN filled
     ELSE [sha256_transform(filled, filled.data)
             EXCEPT !.bitlen = @ + SHA256_BLOCK_SIZE * ByteBits, !.datalen = 0]

sha256_update(ctx, data) == FoldLeft(Absorb, ctx, data)

\* The data of the block from byte i on, i being the datalen: the mark and
\* zeros as far as byte end; what lies behind is left alone.
Padded(data, i, end) ==
  [k \in DOMAIN data |-> IF k = i + 1 THEN Mark
                         ELSE IF k > i + 1 /\ k <= end THEN 0 ELSE data[k]]
\* The length in bits: its value, then the zero bytes of a small number.
WithLength(data, bits) ==
  [k \in DOMAIN data |->
     IF k <= PadEnd THEN data[k] ELSE IF k = SHA256_BLOCK_SIZE THEN bits ELSE 0]

sha256_final(ctx) ==
  LET i == ctx.datalen
      bits == ctx.bitlen + i * ByteBits
      short == [ctx EXCEPT !.data = Padded(@, i, PadEnd)]
      long == sha256_transform(ctx, Padded(ctx.data, i, SHA256_BLOCK_SIZE))
      cleared == [long EXCEPT !.data = ZeroBytes(SHA256_BLOCK_SIZE)]
      ready == IF i < PadEnd THEN short ELSE cleared
      last == WithLength(ready.data, bits)
  IN [sha256_transform(ready, last) EXCEPT !.data = last, !.bitlen = bits]

-----------------------------------------------------------------------------
RC4SWAP(state, x, y) == [state EXCEPT ![x] = state[y], ![y] = state[x]]

rc4_keysetup(key) ==
  LET step(acc, i) ==
        LET y == (key[acc.x + 1] + acc.state[i] + acc.y) % RC4STATE
        IN [state |-> RC4SWAP(acc.state, i, y), x |-> (acc.x + 1) % Len(key),
            y |-> y]
      start == [state |-> [i \in 0..RC4STATE - 1 |-> i], x |-> 0, y |-> 0]
      done == FoldLeft(step, start, [i \in 1..RC4STATE |-> i - 1])
  IN [state |-> done.state, x |-> 0, y |-> 0]

\* One step of the generator, and the byte it yields.
rc4_skip1(ctx) ==
  LET x == (ctx.x + 1) % RC4STATE
      y == (ctx.state[x] + ctx.y) % RC4STATE
  IN [state |-> RC4SWAP(ctx.state, x, y), x |-> x, y |-> y]
Yield(ctx) == ctx.state[(ctx.state[ctx.x] + ctx.state[ctx.y]) % RC4STATE]
RECURSIVE rc4_skip(_, _)
rc4_skip(ctx, len) == IF len = 0 THEN ctx ELSE rc4_skip(rc4_skip1(ctx), len - 1)
rc4_getbytes(ctx, len) == [i \in 1..len |-> Yield(rc4_skip(ctx, i))]
rc4_crypt(ctx, src) ==
  [i \in 1..Len(src) |-> src[i] ^^ rc4_getbytes(ctx, Len(src))[i]]

-----------------------------------------------------------------------------
CryptoInit ==
  /\ crypto_part \in {"sha", "rc4"}
  /\ sha = sha256_init /\ message = <<>>
  /\ digest = [of |-> <<>>, blocks |-> <<>>]
  /\ \E key \in RC4Keys :
       /\ rc4 = rc4_keysetup(key)
       /\ stream = [key |-> key, passed |-> 0, call |-> "none", src |-> <<>>,
                    result |-> <<>>]
       /\ crypto_part = "sha" => key = CHOOSE k \in RC4Keys : TRUE

Update(data) ==
  /\ crypto_part = "sha" /\ Len(message) + Len(data) <= MaxMessage
  /\ sha' = sha256_update(sha, data) /\ message' = message \o data
  /\ UNCHANGED <<digest, rc4, stream, crypto_part>>

\* sha256_final, and the next sha256_init of the context.
Final ==
  /\ crypto_part = "sha"
  /\ digest' = [of |-> message, blocks |-> sha256_final(sha).state]
  /\ sha' = [sha256_init EXCEPT !.data = sha256_final(sha).data]
  /\ message' = <<>>
  /\ UNCHANGED <<rc4, stream, crypto_part>>

\* A call that draws n bytes; each advances the context by as many steps.
Draw(call, src, n, result) ==
  /\ crypto_part = "rc4" /\ stream.passed + n <= MaxMessage
  /\ rc4' = rc4_skip(rc4, n)
  /\ stream' = [stream EXCEPT !.passed = @ + n, !.call = call, !.src = src,
                              !.result = result]
  /\ UNCHANGED <<sha, message, digest, crypto_part>>

CryptoNext ==
  \/ \E data \in Pieces : Update(data)
  \/ Final
  \/ \E data \in Pieces : LET n == Len(data) IN
       \/ Draw("crypt", data, n, rc4_crypt(rc4, data))
       \/ Draw("bytes", data, n, rc4_getbytes(rc4, n))
       \/ Draw("skip", data, n, <<>>)

-----------------------------------------------------------------------------
\* A digest is that of the whole message however it was cut into pieces and
\* whatever the context hashed before: the blocks it absorbed are the
\* message, the mark, the fewest zeros that make whole blocks, and the
\* length in bits.  (sha2.c: sha256_update, sha256_final.)
DigestOfWhole ==
  digest.blocks = <<>> \/
  LET len == Len(digest.of)
      zeros == (2 * SHA256_BLOCK_SIZE - len - 1 - LengthBytes)
                 % SHA256_BLOCK_SIZE
  IN FlattenSeq(digest.blocks)
       = digest.of \o <<Mark>> \o ZeroBytes(zeros + LengthBytes - 1)
           \o <<len * ByteBits>>

\* The state of the generator stays a permutation, and a call returns the
\* bytes of the key's stream that follow those passed before, whichever
\* calls passed them; so what rc4_crypt wrote decrypts from a fresh context
\* that has skipped as many.  (arc4.c: rc4_crypt, rc4_getbytes, rc4_skip.)
StreamGoesOn ==
  LET before == rc4_skip(rc4_keysetup(stream.key),
                         stream.passed - Len(stream.src))
  IN /\ {rc4.state[i] : i \in DOMAIN rc4.state} = 0..RC4STATE - 1
     /\ stream.call = "crypt" => rc4_crypt(before, stream.result) = stream.src
     /\ stream.call = "bytes" =>
          stream.result = rc4_getbytes(before, Len(stream.src))
=============================================================================
