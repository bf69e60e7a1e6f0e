----------------------------- MODULE MCLibrary -----------------------------
(***************************************************************************)
(* The parts of the library that share no state and no event of the        *)
(* sessions: the codec, the padding, the worker's key caches, the framing, *)
(* the cipher chain and the key loader.  A behaviour exercises one of      *)
(* them, while the others stay as they are.                                *)
(*                                                                         *)
(* Codec at its boundaries: values and deltas around 12/13 and 268/269, no *)
(* token and the longest, a payload of marker bytes, ids over 16 bits; and *)
(* buffers that end anywhere within an option.  Padding with blocks of     *)
(* three bytes and messages of up to two blocks.  Framing with bytes of    *)
(* three values: bodies of length 0, 1 and Base, the last one with a       *)
(* length that needs both length bytes; the value of the sync byte occurs  *)
(* in bodies and in lengths.  Chain with frames of one or two blocks.      *)
(***************************************************************************)
EXTENDS Codec, Padding, KeyCache, Framing, CipherChain, CoreKeys

MaxInFlight == 2  \* bound: frames of the chain on their way, both directions together

VARIABLE part  \* the part that is exercised

libraryVars == <<part, codecVars, paddingVars, cacheVars, framingVars, chainVars,
                 coreKeysVars>>

Bytes(n) == [i \in 1..n |-> 255]
Opt(n, len) == [number |-> n, value |-> Bytes(len)]
Lengths == {0, 12, 13, 268, 269}

MCTypes == {Null, 2}
MCIds == {65536 + 258}
MCTokens == {<<>>, Bytes(8), Bytes(9)}
MCPayloads == {<<>>, <<255, 0>>}
MCOptions ==
  {<<>>, <<Opt(11, 1), Opt(3, 2)>>, <<Opt(15, 3), Opt(11, 0), Opt(12, 1)>>}
    \cup {<<Opt(n, 1)>> : n \in {0, 23, 24, 279, 280}}
    \cup {<<Opt(11, len)>> : len \in Lengths}
    \cup {<<Opt(24, 13)>>, <<Opt(280, 269)>>}
    \cup {<<Opt(280, 13), Opt(m, 1)>> : m \in {12, 293, 549}}

NoToken == <<64, 2, 0, 1>>
Heads == {NoToken, <<65, 2, 0, 1, 7>>, <<80, 0, 1, 0>>}
OptionBytes == {0, 1, 13, 14, 176, 177, 189, 208, 221, 224, 238, 240, 255}
MCNoise ==
  {<<>>, <<64, 2, 0>>, <<73, 2, 0, 1, 1, 1, 1, 1, 1, 1, 1, 1, 1>>, <<128, 2, 0, 1>>, <<66, 2, 0, 1, 7>>}
    \cup {h \o t : h \in Heads, t \in UNION {[1..k -> OptionBytes] : k \in 0..2}}
    \cup {NoToken \o t : t \in [1..3 -> OptionBytes]}

MCPlains == UNION {[1..n -> {0, 1, 3, 4}] : n \in 0..6}

MCBodies == {<<>>, <<2>>, <<0, 2, 1>>}

LibraryInit ==
  /\ part \in {"codec", "padding", "cache", "framing", "chain", "core_keys"}
  /\ CodecInit /\ (part # "codec" => buffer = Null)
  /\ PaddingInit /\ (part # "padding" => plain = <<>> /\ from = "gateway")
  /\ CacheInit /\ FramingInit /\ ChainInit /\ CoreKeysInit

LibraryNext ==
  /\ UNCHANGED part
  /\ \/ /\ part = "codec" /\ CodecNext
        /\ UNCHANGED <<paddingVars, cacheVars, framingVars, chainVars, coreKeysVars>>
     \/ /\ part = "padding" /\ PaddingNext
        /\ UNCHANGED <<codecVars, cacheVars, framingVars, chainVars, coreKeysVars>>
     \/ /\ part = "cache" /\ CacheNext
        /\ UNCHANGED <<codecVars, paddingVars, framingVars, chainVars, coreKeysVars>>
     \/ /\ part = "framing" /\ FramingNext
        /\ UNCHANGED <<codecVars, paddingVars, cacheVars, chainVars, coreKeysVars>>
     \/ /\ part = "chain" /\ ChainNext /\ Len(up') + Len(down') <= MaxInFlight
        /\ UNCHANGED <<codecVars, paddingVars, cacheVars, framingVars, coreKeysVars>>
     \/ /\ part = "core_keys" /\ CoreKeysNext
        /\ UNCHANGED <<codecVars, paddingVars, cacheVars, framingVars, chainVars>>

LibrarySpec == LibraryInit /\ [][LibraryNext]_libraryVars /\ FramingFairness
=============================================================================
