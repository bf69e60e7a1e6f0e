------------------------------ MODULE KeyCache ------------------------------
(***************************************************************************)
(* The worker of lib/crypto-worker.js: one message at a time, answered with *)
(* a result or an error, over two bounded LRU caches of parsed keys, keyed  *)
(* by the PEM text.  A JavaScript Map iterates in insertion order: a cache  *)
(* is the sequence of its entries, oldest first.                           *)
(***************************************************************************)
EXTENDS Naturals, Sequences, SequencesExt

CONSTANTS
  Pems,     \* key texts that messages carry
  BadPems,  \* those that do not parse
  LRU_MAX,  \* entries per cache (64)
  Nothing   \* no message, no key

ASSUME CacheAssumption == LRU_MAX \in Nat \ {0} /\ BadPems \subseteq Pems

VARIABLES
  pubCache, privCache,
  used,     \* history: per cache, the keys it served, least recent use first
  reply     \* the message last posted: the key it was computed with, or an error

cacheVars == <<pubCache, privCache, used, reply>>

Kinds == {"pub", "priv"}
Ops == {"encrypt", "decrypt", "sign", "verify", "other"}

\* loadPublicKey, loadPrivateKey: what parsing gives (crypto.js calls node:crypto).
KeyOf(kind, pem) == <<kind, pem>>

CacheInit ==
  /\ pubCache = <<>> /\ privCache = <<>>
  /\ used = [k \in Kinds |-> <<>>]
  /\ reply = Nothing

-----------------------------------------------------------------------------
\* Map.delete, of a key that is there.
Without(cache, pem) == RemoveAt(cache, CHOOSE i \in DOMAIN cache : cache[i].pem = pem)

Hits(cache, pem) == {e \in ToSet(cache) : e.pem = pem}
Hit(cache, pem) == CHOOSE e \in Hits(cache, pem) : TRUE

\* Plausible bug: a hit does not renew the entry.
lruGetFifo(cache, pem) == cache

\* lruGet on a hit: the entry is deleted and set again, so it is the newest.
lruGet(cache, pem) == Append(Without(cache, pem), Hit(cache, pem))

\* lruSet after a miss: the new entry, then the oldest goes if there is one too many.
lruSet(cache, pem, obj) ==
  LET c == Append(cache, [pem |-> pem, obj |-> obj]) IN
  IF Len(c) > LRU_MAX THEN Tail(c) ELSE c

\* Plausible bug: both kinds of key are looked up as public keys.
LoadedPub(kind, pem) == KeyOf("pub", pem)

\* The key that a miss loads.
Loaded(kind, pem) == KeyOf(kind, pem)

\* getPub and getPriv: the cache afterwards, and the key.
Get(cache, kind, pem) ==
  IF Hits(cache, pem) # {}
  THEN [cache |-> lruGet(cache, pem), key |-> Hit(cache, pem).obj]
  ELSE [cache |-> lruSet(cache, pem, Loaded(kind, pem)), key |-> Loaded(kind, pem)]

\* rsaVerify turns a failed publicDecrypt into the result `false'; the other
\* operations let the error of node:crypto through.
RsaResult(op, rsaThrows) == op = "verify" \/ ~rsaThrows

KindOf(op) == IF op \in {"encrypt", "verify"} THEN "pub" ELSE "priv"

\* History: key pem is used.
Renewed(s, pem) ==
  Append(IF pem \in ToSet(s) THEN RemoveAt(s, CHOOSE i \in DOMAIN s : s[i] = pem) ELSE s, pem)

\* The message handler.  A PEM that does not parse throws out of getPub or getPriv
\* before anything is cached; the RSA operation itself may throw after that.
OnMessage(op, pem, rsaThrows) ==
  LET kind == KindOf(op)
      cache == IF kind = "pub" THEN pubCache ELSE privCache
      got == Get(cache, kind, pem) IN
  IF op = "other" \/ (pem \in BadPems /\ Hits(cache, pem) = {})
  THEN /\ reply' = [op |-> op, pem |-> pem, with |-> Nothing, ok |-> FALSE]
       /\ UNCHANGED <<pubCache, privCache, used>>
  ELSE /\ pubCache' = IF kind = "pub" THEN got.cache ELSE pubCache
       /\ privCache' = IF kind = "priv" THEN got.cache ELSE privCache
       /\ used' = [used EXCEPT ![kind] = Renewed(@, pem)]
       /\ reply' = [op |-> op, pem |-> pem, with |-> got.key, ok |-> RsaResult(op, rsaThrows)]

CacheNext ==
  \E op \in Ops, pem \in Pems, rsaThrows \in BOOLEAN : OnMessage(op, pem, rsaThrows)

CacheSpec == CacheInit /\ [][CacheNext]_cacheVars

-----------------------------------------------------------------------------
PemsOf(cache) == [i \in 1..Len(cache) |-> cache[i].pem]
LastOf(s, n) == IF Len(s) <= n THEN s ELSE SubSeq(s, Len(s) - n + 1, Len(s))

\* Each cache holds exactly the LRU_MAX keys used last, in the order of their last
\* use: no hot key is evicted before a colder one, and memory is bounded.
KeepsMostRecent ==
  /\ PemsOf(pubCache) = LastOf(used["pub"], LRU_MAX)
  /\ PemsOf(privCache) = LastOf(used["priv"], LRU_MAX)

\* An answer is computed with the key of the PEM that came with the request, of
\* the kind the operation needs, whatever was cached, renewed or evicted before;
\* an operation answers without a key only if there is none to parse.
AnswersWithItsKey ==
  reply # Nothing =>
    reply.with = IF reply.op = "other" \/ reply.pem \in BadPems THEN Nothing
                 ELSE KeyOf(KindOf(reply.op), reply.pem)
=============================================================================
