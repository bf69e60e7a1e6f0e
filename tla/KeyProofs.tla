------------------------------ MODULE KeyProofs ------------------------------
(***************************************************************************)
(* Proofs about the keys: CoreKeys, for any number of concurrent calls,    *)
(* keys, file system errors and crashes, and KeyCache, for any number of   *)
(* keys and any size of the caches.                                        *)
(***************************************************************************)
EXTENDS CoreKeys, KeyCache, SequenceTheorems, TLAPS

-----------------------------------------------------------------------------
(* Core keys: type correctness.                                             *)

\* derToPem returns a text.
LEMMA PemTyped ==
  ASSUME NEW k \in Keys
  PROVE  derToPem(k) \in Texts
BY DEF derToPem, Texts

\* Only a call that was given a key comes to the quarantine, and one that writes
\* has a file open.
PathInv ==
  \A l \in Lookups :
    /\ pc[l] \in {"access", "open", "write"} => inline[l] # None
    /\ pc[l] = "write" => fd[l] # None

TypeInv == CoreKeysTypeOK /\ PathInv

\* A file is created: the inodes grow by one.
LEMMA Created ==
  ASSUME content \in Seq(Contents), content' = Append(content, Blank)
  PROVE  /\ content' \in Seq(Contents)
         /\ Len(content) \in Nat /\ Len(content') = Len(content) + 1
         /\ Inodes \subseteq Inodes' /\ Len(content) + 1 \in Inodes'
<1>1. Blank \in Contents
  BY DEF Contents
<1>2. content' \in Seq(Contents) /\ Len(content') = Len(content) + 1 /\ Len(content) \in Nat
  BY <1>1, AppendProperties, LenProperties
<1> QED BY <1>2 DEF Inodes

\* A file is written: the inodes stay.
LEMMA Written ==
  ASSUME content \in Seq(Contents), NEW i \in Inodes, NEW c \in Contents,
         content' = [content EXCEPT ![i] = c]
  PROVE  content' \in Seq(Contents) /\ Len(content') = Len(content) /\ Inodes' = Inodes
<1>1. content' \in Seq(Contents) /\ Len(content') = Len(content)
  BY ExceptSeq DEF Inodes
<1> QED BY <1>1 DEF Inodes

LEMMA TypeStep ==
  ASSUME TypeInv, [CoreKeysNext]_coreKeysVars
  PROVE  TypeInv'
<1> USE CoreKeysAssumption DEF TypeInv, CoreKeysTypeOK, PathInv
<1>1. ASSUME NEW l \in Lookups, NEW valid \in BOOLEAN, NEW der \in Keys \cup {None},
             Call(l, valid, der)
      PROVE  TypeInv'
  BY <1>1 DEF Call, Goto, Settle, fileVars, operatorVars, Inodes
<1>2. ASSUME NEW l \in Lookups, ReadCanonical(l)
      PROVE  TypeInv'
  <2>1. canonical # None => content[canonical] \in Contents
    BY ElementOfSeq DEF Inodes
  <2>2. Inodes' = Inodes /\ UNCHANGED <<fileVars, fd>>
    BY <1>2 DEF ReadCanonical, Throw, Reject, fileVars, Inodes
  <2> QED BY <1>2, <2>1, <2>2
          DEF ReadCanonical, Goto, Settle, TurnDown, Throw, Reject, Fault, fileVars, operatorVars
<1>3. ASSUME NEW l \in Lookups, Access(l)
      PROVE  TypeInv'
  <2>1. Inodes' = Inodes
    BY <1>3 DEF Access, fileVars, Inodes
  <2> QED BY <1>3, <2>1 DEF Access, Goto, Settle, TurnDown, Fault, fileVars, operatorVars
<1>4. ASSUME NEW l \in Lookups, Open(l)
      PROVE  TypeInv'
  <2>1. CASE Throw(l)
    <3>1. Inodes' = Inodes
      BY <2>1 DEF Throw, Reject, fileVars, Inodes
    <3> QED BY <1>4, <2>1, <3>1 DEF Open, Throw, Reject, Settle, Goto, Fault, fileVars, operatorVars
  <2>2. CASE ~Throw(l) /\ quarantine # None
    <3>1. /\ quarantine \in Inodes /\ content' = [content EXCEPT ![quarantine] = Blank]
          /\ Blank \in Contents
      BY <1>4, <2>2 DEF Open, Contents
    <3>2. content' \in Seq(Contents) /\ Inodes' = Inodes
      BY <3>1, Written
    <3>3. /\ fd' = [fd EXCEPT ![l] = quarantine] /\ pc' = [pc EXCEPT ![l] = "write"]
          /\ UNCHANGED <<canonical, quarantine, inline, onFile, result, operatorVars, faults>>
      BY <1>4, <2>2 DEF Open, Goto
    <3>4. fd' \in [Lookups -> Inodes' \cup {None}] /\ fd'[l] # None
          /\ \A m \in Lookups : m # l => fd'[m] = fd[m]
      BY <2>2, <3>1, <3>2, <3>3
    <3> QED BY <1>4, <2>2, <3>2, <3>3, <3>4 DEF Open, operatorVars
  <2>3. CASE ~Throw(l) /\ quarantine = None
    <3>1. content' = Append(content, Blank)
      BY <1>4, <2>3 DEF Open
    <3>2. /\ content' \in Seq(Contents) /\ Len(content) + 1 \in Nat
          /\ Inodes \subseteq Inodes' /\ Len(content) + 1 \in Inodes'
      BY <3>1, Created
    <3>3. fd' = [fd EXCEPT ![l] = Len(content) + 1]
          /\ quarantine' = Len(content) + 1 /\ canonical' = canonical
      BY <1>4, <2>3 DEF Open, Link
    <3>4. {canonical', quarantine'} \subseteq Inodes' \cup {None}
      BY <3>2, <3>3
    <3>5. fd' \in [Lookups -> Inodes' \cup {None}] /\ fd'[l] # None
          /\ \A m \in Lookups : m # l => fd'[m] = fd[m]
      BY <3>2, <3>3
    <3>6. onFile' \in [Lookups -> Inodes' \cup {None}]
      BY <1>4, <3>2 DEF Open
    <3> QED BY <1>4, <2>3, <3>2, <3>4, <3>5, <3>6 DEF Open, Goto, operatorVars
  <2> QED BY <2>1, <2>2, <2>3
<1>5. ASSUME NEW l \in Lookups, Write(l)
      PROVE  TypeInv'
  <2>1. CASE Reject(l) /\ content' = content
    <3>1. Inodes' = Inodes
      BY <2>1 DEF Inodes
    <3> QED BY <1>5, <2>1, <3>1 DEF Write, Reject, Settle, Goto, Fault, operatorVars
  <2>2. CASE ~(Reject(l) /\ content' = content)
    <3>1. fd[l] \in Inodes /\ inline[l] \in Keys
      BY <1>5 DEF Write
    <3>2. derToPem(inline[l]) \in Contents /\ Mixed \in Contents
      BY <3>1, PemTyped DEF Contents
    <3>3. PICK c \in Contents : content' = [content EXCEPT ![fd[l]] = c]
      BY <1>5, <2>2, <3>2 DEF Write
    <3>4. content' \in Seq(Contents) /\ Inodes' = Inodes
      BY <3>1, <3>3, Written
    <3> QED BY <1>5, <3>4 DEF Write, Goto, Settle, TurnDown, Reject, Fault, operatorVars
  <2> QED BY <2>1, <2>2
<1>6. CASE Review
  <2>1. reviewed' \in Contents
    BY <1>6, ElementOfSeq DEF Review, Inodes
  <2> QED BY <1>6, <2>1 DEF Review, fileVars, callVars, Inodes
<1>7. CASE Promote
  <2>1. reviewed \in Contents
    BY <1>7 DEF Promote, Contents
  <2> QED BY <1>7, <2>1 DEF Promote, callVars, Inodes
<1>8. CASE Crash
  BY <1>8 DEF Crash, Fault, fileVars, operatorVars, Inodes
<1>9. CASE UNCHANGED coreKeysVars
  BY <1>9 DEF coreKeysVars, fileVars, callVars, operatorVars, Inodes
<1> QED BY <1>1, <1>2, <1>3, <1>4, <1>5, <1>6, <1>7, <1>8, <1>9 DEF CoreKeysNext, Step

LEMMA TypeInit == CoreKeysInit => TypeInv
BY CoreKeysAssumption
   DEF CoreKeysInit, TypeInv, CoreKeysTypeOK, PathInv, Inodes

\* Every variable of the loader, its files and its operator keeps its type.
THEOREM CoreKeysTyped == CoreKeysSpec => []CoreKeysTypeOK
<1>1. TypeInv /\ [CoreKeysNext]_coreKeysVars => TypeInv'
  BY TypeStep
<1>2. TypeInv => CoreKeysTypeOK
  BY DEF TypeInv
<1> QED BY <1>1, <1>2, TypeInit, PTL DEF CoreKeysSpec

-----------------------------------------------------------------------------
(* Core keys: how the files and the answers of the loader agree.            *)

\* Nothing is in the canonical place before the operator has promoted a file.
TrustInv ==
  accepted = {} =>
    /\ canonical = None
    /\ \A l \in Lookups : result[l] \in {Pending, NoKey, Threw}

\* A call past its check of the quarantine cannot meet the file that was there
\* when it began: inodes are not used twice.
KeptInv ==
  faults = 0 =>
    \A l \in Lookups :
      /\ fd[l] # None => pc[l] \in {"write", "done"} /\ fd[l] # onFile[l]
      /\ pc[l] = "open" /\ onFile[l] # None => quarantine # onFile[l]

LEMMA TrustStep ==
  ASSUME TypeInv, TrustInv, [CoreKeysNext]_coreKeysVars
  PROVE  TrustInv'
<1> USE DEF TypeInv, CoreKeysTypeOK, TrustInv
<1>1. ASSUME NEW l \in Lookups, NEW valid \in BOOLEAN, NEW der \in Keys \cup {None},
             Call(l, valid, der)
      PROVE  TrustInv'
  BY <1>1 DEF Call, Goto, Settle, fileVars, operatorVars
<1>2. ASSUME NEW l \in Lookups, ReadCanonical(l)
      PROVE  TrustInv'
  BY <1>2 DEF ReadCanonical, Goto, Settle, TurnDown, Throw, Reject, fileVars, operatorVars
<1>3. ASSUME NEW l \in Lookups, Access(l)
      PROVE  TrustInv'
  BY <1>3 DEF Access, Goto, Settle, TurnDown, fileVars, operatorVars
<1>4. ASSUME NEW l \in Lookups, Open(l)
      PROVE  TrustInv'
  BY <1>4 DEF Open, Goto, Settle, Throw, Reject, Link, fileVars, operatorVars
<1>5. ASSUME NEW l \in Lookups, Write(l)
      PROVE  TrustInv'
  BY <1>5 DEF Write, Goto, Settle, TurnDown, Throw, Reject, fileVars, operatorVars
<1>6. CASE Review
  BY <1>6 DEF Review, fileVars, callVars
<1>7. CASE Promote
  BY <1>7 DEF Promote
<1>8. CASE Crash
  BY <1>8 DEF Crash, fileVars, operatorVars
<1>9. CASE UNCHANGED coreKeysVars
  BY <1>9 DEF coreKeysVars, fileVars, callVars, operatorVars
<1> QED BY <1>1, <1>2, <1>3, <1>4, <1>5, <1>6, <1>7, <1>8, <1>9 DEF CoreKeysNext, Step

LEMMA KeptStep ==
  ASSUME TypeInv, KeptInv, [CoreKeysNext]_coreKeysVars
  PROVE  KeptInv'
<1> USE CoreKeysAssumption DEF TypeInv, CoreKeysTypeOK, KeptInv
<1>1. ASSUME NEW l \in Lookups, NEW valid \in BOOLEAN, NEW der \in Keys \cup {None},
             Call(l, valid, der)
      PROVE  KeptInv'
  <2>1. faults = 0 => fd[l] = None
    BY <1>1 DEF Call
  <2> QED BY <1>1, <2>1 DEF Call, Goto, Settle, fileVars, operatorVars
<1>2. ASSUME NEW l \in Lookups, ReadCanonical(l)
      PROVE  KeptInv'
  BY <1>2 DEF ReadCanonical, Goto, Settle, TurnDown, Throw, Reject, Fault, fileVars
<1>3. ASSUME NEW l \in Lookups, Access(l)
      PROVE  KeptInv'
  BY <1>3 DEF Access, Goto, Settle, TurnDown, Fault, OnRecord, fileVars
<1>4. ASSUME NEW l \in Lookups, Open(l)
      PROVE  KeptInv'
  <2>1. CASE Throw(l)
    BY <1>4, <2>1 DEF Open, Throw, Reject, Fault
  <2>2. CASE ~Throw(l) /\ quarantine # None
    BY <1>4, <2>2 DEF Open, Goto
  <2>3. CASE ~Throw(l) /\ quarantine = None
    <3>1. \A m \in Lookups : onFile[m] # Len(content) + 1
      BY LenProperties DEF Inodes
    <3>2. /\ fd' = [fd EXCEPT ![l] = Len(content) + 1] /\ pc' = [pc EXCEPT ![l] = "write"]
          /\ quarantine' = Len(content) + 1 /\ UNCHANGED <<onFile, faults>>
      BY <1>4, <2>3 DEF Open, Goto, Link
    <3> QED BY <3>1, <3>2
  <2> QED BY <2>1, <2>2, <2>3
<1>5. ASSUME NEW l \in Lookups, Write(l)
      PROVE  KeptInv'
  BY <1>5 DEF Write, Goto, Settle, TurnDown, Throw, Reject, Fault
<1>6. CASE Review
  BY <1>6 DEF Review, fileVars, callVars
<1>7. CASE Promote
  BY <1>7 DEF Promote, callVars
<1>8. CASE Crash
  BY <1>8 DEF Crash, Fault
<1>9. CASE UNCHANGED coreKeysVars
  BY <1>9 DEF coreKeysVars, fileVars, callVars, operatorVars
<1> QED BY <1>1, <1>2, <1>3, <1>4, <1>5, <1>6, <1>7, <1>8, <1>9 DEF CoreKeysNext, Step

\* No call resolves to a key before the operator has promoted a file.
THEOREM CoreKeysFailClosed == CoreKeysSpec => []FailsClosed
<1>1. CoreKeysInit => TrustInv
  BY DEF CoreKeysInit, TrustInv
<1>2. TypeInv /\ TrustInv /\ [CoreKeysNext]_coreKeysVars => TypeInv' /\ TrustInv'
  BY TypeStep, TrustStep
<1>3. TrustInv => FailsClosed
  BY DEF TrustInv, FailsClosed
<1> QED BY <1>1, <1>2, <1>3, TypeInit, PTL DEF CoreKeysSpec

\* Without a file system error, the quarantined file a call finds when it begins
\* is not the one it writes.
THEOREM CoreKeysKept == CoreKeysSpec => []KeptKey
<1>1. CoreKeysInit => KeptInv
  BY DEF CoreKeysInit, KeptInv
<1>2. TypeInv /\ KeptInv /\ [CoreKeysNext]_coreKeysVars => TypeInv' /\ KeptInv'
  BY TypeStep, KeptStep
<1>3. KeptInv => KeptKey
  BY DEF KeptInv, KeptKey
<1> QED BY <1>1, <1>2, <1>3, TypeInit, PTL DEF CoreKeysSpec

-----------------------------------------------------------------------------
(* Core keys: as long as all that comes in is one key.                      *)

\* The texts of the keys presented so far.
Offered == {derToPem(inline[l]) : l \in {m \in Lookups : inline[m] # None}}

\* While there is but one key, files hold its text or no key, the operator has
\* seen nothing else, and what is in the canonical place can only become a text
\* that the operator promoted.
OneKeyInv ==
  /\ \A l \in Lookups : pc[l] = "idle" => inline[l] = None
  /\ OneKeyPresented =>
       /\ \A i \in Inodes : content[i] \in Offered \cup {Blank, Mixed}
       /\ reviewed \in Offered \cup {Blank, Mixed, None}
       /\ canonical # None => Offered # {} /\ Offered \subseteq accepted
       /\ \A l \in Lookups : result[l] \in Texts => result[l] \in accepted

\* A key text is neither the content of an empty file nor an outcome without a key.
LEMMA TextsApart ==
  {Blank, Mixed, None, Pending, NoKey, Threw} \cap Texts = {}
<1>1. {Blank, Mixed, None} \cap Texts = {}
  BY CoreKeysAssumption DEF Texts
<1>2. ASSUME NEW k PROVE <<"pem", k>> \notin {Pending, NoKey, Threw}
  BY DEF Pending, NoKey, Threw
<1> QED BY <1>1, <1>2 DEF Texts

\* One key has one text.
LEMMA OneOffered ==
  ASSUME OneKeyPresented
  PROVE  /\ \A a, b \in Offered : a = b
         /\ \A l \in Lookups : inline[l] # None => Offered = {derToPem(inline[l])}
BY DEF OneKeyPresented, Offered

\* A call that comes in with one more key only makes the premise harder to meet,
\* and leaves the texts presented as they were if it still holds.
LEMMA OneKeyBefore ==
  ASSUME TypeInv, OneKeyInv, NEW l \in Lookups, pc[l] = "idle",
         NEW der \in Keys \cup {None}, inline' = [inline EXCEPT ![l] = der], OneKeyPresented'
  PROVE  OneKeyPresented /\ Offered \subseteq Offered' /\ (Offered # {} => Offered' = Offered)
<1>1. inline \in [Lookups -> Keys \cup {None}] /\ inline[l] = None
  BY DEF TypeInv, CoreKeysTypeOK, OneKeyInv
<1>2. OneKeyPresented /\ Offered \subseteq Offered'
  BY <1>1 DEF OneKeyPresented, Offered
<1>3. ASSUME Offered # {} PROVE Offered' \subseteq Offered
  <2>1. PICK m \in Lookups : inline[m] # None
    BY <1>3 DEF Offered
  <2>2. inline'[m] = inline[m]
    BY <1>1, <2>1
  <2>3. Offered' = {derToPem(inline'[m])}
    BY <2>1, <2>2 DEF OneKeyPresented, Offered
  <2> QED BY <2>1, <2>2, <2>3 DEF Offered
<1> QED BY <1>2, <1>3

LEMMA OneKeyStep ==
  ASSUME TypeInv, OneKeyInv, [CoreKeysNext]_coreKeysVars
  PROVE  OneKeyInv'
<1> USE CoreKeysAssumption DEF TypeInv, CoreKeysTypeOK
<1>1. ASSUME NEW l \in Lookups, NEW valid \in BOOLEAN, NEW der \in Keys \cup {None},
             Call(l, valid, der)
      PROVE  OneKeyInv'
  <2>1. /\ pc[l] = "idle" /\ inline' = [inline EXCEPT ![l] = der]
        /\ UNCHANGED <<content, canonical, reviewed, accepted>>
        /\ pc' \in {[pc EXCEPT ![l] = "read"], [pc EXCEPT ![l] = "done"]}
        /\ result' \in {result, [result EXCEPT ![l] = Threw]}
    BY <1>1 DEF Call, Goto, Settle, fileVars, operatorVars
  <2>2. \A m \in Lookups : pc'[m] = "idle" => inline'[m] = None
    BY <2>1 DEF OneKeyInv
  <2>3. ASSUME OneKeyPresented'
        PROVE  /\ \A i \in Inodes' : content'[i] \in Offered' \cup {Blank, Mixed}
               /\ reviewed' \in Offered' \cup {Blank, Mixed, None}
               /\ canonical' # None => Offered' # {} /\ Offered' \subseteq accepted'
               /\ \A m \in Lookups : result'[m] \in Texts => result'[m] \in accepted'
    <3>1. OneKeyPresented /\ Offered \subseteq Offered' /\ (Offered # {} => Offered' = Offered)
      BY <2>1, <2>3, OneKeyBefore
    <3>2. Inodes' = Inodes
      BY <2>1 DEF Inodes
    <3>3. \A m \in Lookups : result'[m] \in Texts => result'[m] = result[m]
      BY <2>1, TextsApart
    <3> QED BY <2>1, <3>1, <3>2, <3>3 DEF OneKeyInv
  <2> QED BY <2>2, <2>3 DEF OneKeyInv
<1>2. SUFFICES ASSUME inline' = inline PROVE OneKeyInv'
  <2>1. \/ inline' = inline
        \/ \E l \in Lookups, valid \in BOOLEAN, der \in Keys \cup {None} :
             Call(l, valid, der)
    BY DEF CoreKeysNext, Step, ReadCanonical, Access, Open, Write, Review, Promote, Crash,
           coreKeysVars, callVars
  <2> QED BY <1>1, <1>2, <2>1
<1>3. OneKeyPresented' = OneKeyPresented /\ Offered' = Offered
  BY <1>2 DEF OneKeyPresented, Offered
<1>4. Offered \subseteq Texts
  BY PemTyped DEF Offered
<1>5. \A l \in Lookups : pc'[l] = "idle" => pc[l] = "idle"
  BY DEF CoreKeysNext, Step, Call, ReadCanonical, Access, Open, Write, Review, Promote,
         Crash, coreKeysVars, callVars, Goto, Settle, TurnDown, Throw, Reject
<1>6. SUFFICES ASSUME OneKeyPresented
               PROVE  /\ \A i \in Inodes' : content'[i] \in Offered \cup {Blank, Mixed}
                      /\ reviewed' \in Offered \cup {Blank, Mixed, None}
                      /\ canonical' # None => Offered # {} /\ Offered \subseteq accepted'
                      /\ \A l \in Lookups : result'[l] \in Texts => result'[l] \in accepted'
  BY <1>2, <1>3, <1>5 DEF OneKeyInv
<1>7. /\ \A i \in Inodes : content[i] \in Offered \cup {Blank, Mixed}
      /\ reviewed \in Offered \cup {Blank, Mixed, None}
      /\ canonical # None => Offered # {} /\ Offered \subseteq accepted
      /\ \A l \in Lookups : result[l] \in Texts => result[l] \in accepted
  BY <1>6 DEF OneKeyInv
<1> DEFINE Goal == /\ \A i \in Inodes' : content'[i] \in Offered \cup {Blank, Mixed}
                   /\ reviewed' \in Offered \cup {Blank, Mixed, None}
                   /\ canonical' # None => Offered # {} /\ Offered \subseteq accepted'
                   /\ \A l \in Lookups : result'[l] \in Texts => result'[l] \in accepted'
\* Steps that leave files and operator alone and settle at most one call.
<1>8. ASSUME UNCHANGED <<content, canonical, reviewed, accepted>>,
             \A m \in Lookups :
               result'[m] = result[m] \/ result'[m] \notin Texts \/ result'[m] \in accepted
      PROVE  Goal
  BY <1>7, <1>8 DEF Inodes
<1>9. ASSUME NEW l \in Lookups, NEW valid \in BOOLEAN, NEW der \in Keys \cup {None},
             Call(l, valid, der)
      PROVE  Goal
  BY <1>8, <1>9, TextsApart DEF Call, Goto, Settle, fileVars, operatorVars
<1>10. ASSUME NEW l \in Lookups, ReadCanonical(l)
       PROVE  Goal
  <2>1. UNCHANGED <<content, canonical, reviewed, accepted>>
    BY <1>10 DEF ReadCanonical, Throw, Reject, fileVars, operatorVars
  <2>2. ASSUME canonical # None, content[canonical] \in Texts
        PROVE  content[canonical] \in accepted
    BY <1>7, <2>2, TextsApart
  <2>3. \A m \in Lookups :
          \/ result'[m] \in {result[m], NoKey, Threw}
          \/ canonical # None /\ result'[m] = content[canonical]
    BY <1>10 DEF ReadCanonical, Goto, Settle, TurnDown, Throw, Reject
  <2> QED BY <1>8, <2>1, <2>2, <2>3, TextsApart
<1>11. ASSUME NEW l \in Lookups, Access(l)
       PROVE  Goal
  <2>1. \A m \in Lookups : result'[m] \in {result[m], NoKey}
    BY <1>11 DEF Access, Goto, Settle, TurnDown
  <2>2. UNCHANGED <<content, canonical, reviewed, accepted>>
    BY <1>11 DEF Access, fileVars, operatorVars
  <2> QED BY <1>8, <2>1, <2>2, TextsApart
<1>12. ASSUME NEW l \in Lookups, Open(l)
       PROVE  Goal
  <2>1. /\ \A m \in Lookups : result'[m] \in {result[m], Threw}
        /\ UNCHANGED <<canonical, reviewed, accepted>>
    BY <1>12 DEF Open, Goto, Settle, Throw, Reject, Link, fileVars, operatorVars
  <2>2. \A i \in Inodes' : content'[i] \in Offered \cup {Blank, Mixed}
    <3>1. CASE content' = content
      BY <1>7, <3>1 DEF Inodes
    <3>2. CASE quarantine # None /\ content' = [content EXCEPT ![quarantine] = Blank]
      <4>1. quarantine \in Inodes /\ Blank \in Contents
        BY <3>2 DEF Contents
      <4>2. Inodes' = Inodes
        BY <3>2, <4>1, Written
      <4>3. \A i \in Inodes : content'[i] \in {content[i], Blank}
        BY <3>2, <4>1, ExceptSeq DEF Inodes
      <4> QED BY <1>7, <4>2, <4>3
    <3>3. CASE content' = Append(content, Blank)
      <4>1. /\ Len(content) \in Nat /\ Len(content') = Len(content) + 1
            /\ \A i \in 1 .. Len(content) : content'[i] = content[i]
            /\ content'[Len(content) + 1] = Blank
        BY <3>3, AppendProperties, LenProperties, Blank \in Contents DEF Contents
      <4>2. \A i \in Inodes' : i \in Inodes \/ i = Len(content) + 1
        BY <4>1 DEF Inodes
      <4> QED BY <1>7, <4>1, <4>2 DEF Inodes
    <3> QED BY <1>12, <3>1, <3>2, <3>3 DEF Open, Throw, Reject, fileVars
  <2> QED BY <1>7, <2>1, <2>2, TextsApart
<1>13. ASSUME NEW l \in Lookups, Write(l)
       PROVE  Goal
  <2>1. /\ \A m \in Lookups : result'[m] \in {result[m], NoKey, Threw}
        /\ UNCHANGED <<canonical, reviewed, accepted>>
    BY <1>13 DEF Write, Goto, Settle, TurnDown, Throw, Reject, fileVars, operatorVars
  <2>2. \A i \in Inodes' : content'[i] \in Offered \cup {Blank, Mixed}
    <3>1. CASE content' = content
      BY <1>7, <3>1 DEF Inodes
    <3>2. CASE content' # content
      <4>1. fd[l] \in Inodes /\ inline[l] \in Keys
        BY <1>13 DEF Write, PathInv
      <4>2. Offered = {derToPem(inline[l])}
        BY <1>6, <4>1, OneOffered
      <4>3. PICK c \in {derToPem(inline[l]), Mixed} : content' = [content EXCEPT ![fd[l]] = c]
        BY <1>13, <3>2 DEF Write
      <4>4. c \in Contents
        BY <4>1, PemTyped DEF Contents
      <4>5. Inodes' = Inodes
        BY <4>1, <4>3, <4>4, Written
      <4>6. \A i \in Inodes : content'[i] \in {content[i], c}
        BY <4>1, <4>3, <4>4, ExceptSeq DEF Inodes
      <4> QED BY <1>7, <4>2, <4>5, <4>6
    <3> QED BY <3>1, <3>2
  <2> QED BY <1>7, <2>1, <2>2, TextsApart
<1>14. CASE Review
  <2>1. content[quarantine] \in Offered \cup {Blank, Mixed}
    BY <1>7, <1>14 DEF Review
  <2> QED BY <1>7, <1>14, <2>1 DEF Review, fileVars, callVars, Inodes
<1>15. CASE Promote
  <2>1. reviewed \in Offered
    BY <1>7, <1>15, TextsApart DEF Promote
  <2>2. Offered = {reviewed}
    BY <1>6, <2>1, OneOffered
  <2> QED BY <1>7, <1>15, <2>2 DEF Promote, callVars, Inodes
<1>16. CASE Crash
  BY <1>8, <1>16 DEF Crash, fileVars, operatorVars
<1>17. CASE UNCHANGED coreKeysVars
  BY <1>8, <1>17 DEF coreKeysVars, fileVars, callVars, operatorVars
<1> QED BY <1>9, <1>10, <1>11, <1>12, <1>13, <1>14, <1>15, <1>16, <1>17
        DEF CoreKeysNext, Step

\* As long as all that comes in is one key, whatever races with the review and the
\* rename, a call resolves only to a text that the operator reviewed and promoted.
THEOREM CoreKeysOneKeyAccepted == CoreKeysSpec => []OneKeyAccepted
<1>1. CoreKeysInit => OneKeyInv
  <2> SUFFICES ASSUME CoreKeysInit PROVE OneKeyInv
    OBVIOUS
  <2>1. Inodes = {} /\ \A l \in Lookups : result[l] = Pending
    BY DEF CoreKeysInit, Inodes
  <2> QED BY <2>1, TextsApart DEF CoreKeysInit, OneKeyInv
<1>2. TypeInv /\ OneKeyInv /\ [CoreKeysNext]_coreKeysVars => TypeInv' /\ OneKeyInv'
  BY TypeStep, OneKeyStep
<1>3. OneKeyInv => OneKeyAccepted
  BY DEF OneKeyInv, OneKeyAccepted
<1> QED BY <1>1, <1>2, <1>3, TypeInit, PTL DEF CoreKeysSpec

-----------------------------------------------------------------------------
(* Core keys: what is left in the quarantine while nothing fails.           *)

\* File i holds a key's text, or a call is about to write it.
Holds(i) == content[i] \in Offered \/ \E m \in Lookups : pc[m] = "write" /\ fd[m] = i

\* Until a key is promoted, what calls write is the file in the quarantine, and a call
\* that has turned a key down has found or left one there.
OnRecordInv ==
  /\ quarantine # None => Holds(quarantine)
  /\ \A l \in Lookups :
       /\ pc[l] = "write" => quarantine # None /\ fd[l] = quarantine
       /\ result[l] = NoKey => pc[l] = "done"
       /\ result[l] = NoKey /\ inline[l] # None => quarantine # None

\* While no file system call has failed and all that comes in is one key, files hold
\* nothing but its text.
EvidenceInv ==
  faults = 0 /\ OneKeyPresented =>
    /\ \A i \in Inodes : content[i] \in Offered \cup {Blank}
    /\ accepted = {} => OnRecordInv

\* The outcomes of a call are different.
LEMMA OutcomesApart == Pending # NoKey /\ Threw # NoKey
BY DEF Pending, NoKey, Threw

\* A call that comes in keeps the evidence.
LEMMA EvidenceCall ==
  ASSUME TypeInv, OneKeyInv, EvidenceInv, NEW l \in Lookups, NEW valid \in BOOLEAN,
         NEW der \in Keys \cup {None}, Call(l, valid, der)
  PROVE  EvidenceInv'
<1> USE CoreKeysAssumption DEF TypeInv, CoreKeysTypeOK
<1> SUFFICES ASSUME faults' = 0, OneKeyPresented'
             PROVE  /\ \A i \in Inodes' : content'[i] \in Offered' \cup {Blank}
                    /\ accepted' = {} => OnRecordInv'
  BY DEF EvidenceInv
<1>1. /\ pc[l] = "idle" /\ inline' = [inline EXCEPT ![l] = der]
      /\ UNCHANGED <<content, canonical, quarantine, fd, accepted, faults>>
      /\ pc' \in {[pc EXCEPT ![l] = "read"], [pc EXCEPT ![l] = "done"]}
      /\ result' \in {result, [result EXCEPT ![l] = Threw]}
  BY DEF Call, Goto, Settle, fileVars, operatorVars
<1>2. OneKeyPresented /\ Offered \subseteq Offered'
  BY <1>1, OneKeyBefore
<1>3. \A i \in Inodes : content[i] \in Offered \cup {Blank}
  BY <1>1, <1>2 DEF EvidenceInv
<1>4. ASSUME accepted' = {} PROVE OnRecordInv'
  <2>1. OnRecordInv
    BY <1>1, <1>2, <1>4 DEF EvidenceInv
  <2>2. \A m \in Lookups : pc'[m] = "write" <=> pc[m] = "write"
    BY <1>1
  <2>3. quarantine' # None => Holds(quarantine)'
    BY <1>1, <1>2, <2>1, <2>2 DEF OnRecordInv, Holds
  <2>4. ASSUME NEW m \in Lookups, result'[m] = NoKey
        PROVE  m # l /\ result[m] = NoKey
    BY <1>1, <2>1, <2>4, OutcomesApart DEF OnRecordInv
  <2> QED BY <1>1, <2>1, <2>2, <2>3, <2>4 DEF OnRecordInv
<1> QED BY <1>1, <1>2, <1>3, <1>4 DEF Inodes

LEMMA EvidenceStep ==
  ASSUME TypeInv, TrustInv, OneKeyInv, EvidenceInv, [CoreKeysNext]_coreKeysVars
  PROVE  EvidenceInv'
<1> USE CoreKeysAssumption DEF TypeInv, CoreKeysTypeOK
<1>1. ASSUME NEW l \in Lookups, NEW valid \in BOOLEAN, NEW der \in Keys \cup {None},
             Call(l, valid, der)
      PROVE  EvidenceInv'
  BY <1>1, EvidenceCall
<1>2. SUFFICES ASSUME inline' = inline PROVE EvidenceInv'
  <2>1. \/ inline' = inline
        \/ \E l \in Lookups, valid \in BOOLEAN, der \in Keys \cup {None} :
             Call(l, valid, der)
    BY DEF CoreKeysNext, Step, ReadCanonical, Access, Open, Write, Review, Promote, Crash,
           coreKeysVars, callVars
  <2> QED BY <1>1, <1>2, <2>1
<1>3. OneKeyPresented' = OneKeyPresented /\ Offered' = Offered
  BY <1>2 DEF OneKeyPresented, Offered
<1>4. SUFFICES ASSUME faults' = 0, OneKeyPresented
               PROVE  /\ \A i \in Inodes' : content'[i] \in Offered \cup {Blank}
                      /\ accepted' = {} => OnRecordInv'
  BY <1>3, <1>4 DEF EvidenceInv
<1>5. ~Fault
  BY <1>4 DEF Fault
<1>6. faults = 0 /\ (accepted' = {} => accepted = {})
  BY <1>1, <1>4, <1>5 DEF CoreKeysNext, Step, Call, ReadCanonical, Access, Open, Write,
    Throw, Reject, Review, Promote, Crash, coreKeysVars, operatorVars
<1>7. /\ \A i \in Inodes : content[i] \in Offered \cup {Blank}
      /\ accepted' = {} => OnRecordInv
  BY <1>4, <1>6 DEF EvidenceInv
<1> DEFINE Goal == /\ \A i \in Inodes' : content'[i] \in Offered \cup {Blank}
                   /\ accepted' = {} => OnRecordInv'
\* Steps that leave files alone, and the calls that write.
<1>8. ASSUME UNCHANGED <<content, quarantine, fd>>,
             \A m \in Lookups : pc'[m] = "write" <=> pc[m] = "write",
             \A m \in Lookups : pc[m] = "done" => pc'[m] = "done",
             accepted' = {} => \A m \in Lookups :
               \/ result'[m] = result[m]
               \/ result'[m] # NoKey
               \/ pc'[m] = "done" /\ (inline[m] = None \/ quarantine # None)
      PROVE  Goal
  <2>1. Inodes' = Inodes
    BY <1>8 DEF Inodes
  <2>2. ASSUME accepted' = {} PROVE OnRecordInv'
    <3>1. quarantine' # None => Holds(quarantine)'
      BY <1>3, <1>7, <1>8, <2>2 DEF OnRecordInv, Holds
    <3> QED BY <1>2, <1>7, <1>8, <2>2, <3>1 DEF OnRecordInv
  <2> QED BY <1>7, <1>8, <2>1, <2>2
<1>9. ASSUME NEW l \in Lookups, NEW valid \in BOOLEAN, NEW der \in Keys \cup {None},
             Call(l, valid, der)
      PROVE  Goal
  <2>1. EvidenceInv'
    BY <1>1, <1>9
  <2> QED BY <1>3, <1>4, <2>1 DEF EvidenceInv
<1>10. ASSUME NEW l \in Lookups, ReadCanonical(l)
       PROVE  Goal
  <2>1. pc[l] = "read" /\ UNCHANGED <<content, quarantine, fd, accepted>>
    BY <1>10 DEF ReadCanonical, Throw, fileVars, operatorVars
  <2>2. pc' \in {[pc EXCEPT ![l] = "done"], [pc EXCEPT ![l] = "access"]}
    BY <1>5, <1>10 DEF ReadCanonical, Goto, Settle, TurnDown, Throw, Reject
  <2>3. ASSUME accepted' = {}, result' # result
        PROVE  pc'[l] = "done" /\ inline[l] = None /\ result' = [result EXCEPT ![l] = NoKey]
    <3>1. canonical = None
      BY <1>6, <2>3 DEF TrustInv
    <3> QED BY <1>5, <1>10, <2>3, <3>1
            DEF ReadCanonical, Goto, Settle, TurnDown, Throw, Reject
  <2> QED BY <1>8, <2>1, <2>2, <2>3
<1>11. ASSUME NEW l \in Lookups, Access(l)
       PROVE  Goal
  <2>1. pc[l] = "access" /\ UNCHANGED <<content, quarantine, fd, accepted>>
    BY <1>11 DEF Access, fileVars, operatorVars
  <2>2. \/ /\ pc' = [pc EXCEPT ![l] = "done"] /\ quarantine # None
           /\ result' = [result EXCEPT ![l] = NoKey]
        \/ pc' = [pc EXCEPT ![l] = "open"] /\ result' = result
    BY <1>11 DEF Access, Goto, Settle, TurnDown, OnRecord
  <2> QED BY <1>8, <2>1, <2>2
<1>12. ASSUME NEW l \in Lookups, Open(l), quarantine # None
       PROVE  Goal
  <2>1. /\ content' = [content EXCEPT ![quarantine] = Blank]
        /\ fd' = [fd EXCEPT ![l] = quarantine] /\ pc' = [pc EXCEPT ![l] = "write"]
        /\ pc[l] = "open" /\ UNCHANGED <<quarantine, result, accepted>>
    BY <1>5, <1>12 DEF Open, Goto, Throw, Reject, operatorVars
  <2>2. quarantine \in Inodes /\ Blank \in Contents
    BY <1>12 DEF Contents
  <2>3. Inodes' = Inodes
    BY <2>1, <2>2, Written
  <2>4. \A i \in Inodes : content'[i] \in {content[i], Blank}
    BY <2>1, <2>2, ExceptSeq DEF Inodes
  <2>5. ASSUME accepted' = {} PROVE OnRecordInv'
    BY <1>2, <1>7, <1>12, <2>1, <2>5 DEF OnRecordInv, Holds
  <2> QED BY <1>7, <2>3, <2>4, <2>5
<1>13. ASSUME NEW l \in Lookups, Open(l), quarantine = None
       PROVE  Goal
  <2>1. /\ content' = Append(content, Blank)
        /\ fd' = [fd EXCEPT ![l] = Len(content) + 1] /\ pc' = [pc EXCEPT ![l] = "write"]
        /\ quarantine' = Len(content) + 1
        /\ pc[l] = "open" /\ UNCHANGED <<result, accepted>>
    BY <1>5, <1>13 DEF Open, Goto, Link, Throw, Reject, operatorVars
  <2>2. /\ Len(content) \in Nat /\ Len(content') = Len(content) + 1
        /\ \A i \in 1 .. Len(content) : content'[i] = content[i]
        /\ content'[Len(content) + 1] = Blank
    BY <2>1, AppendProperties, LenProperties, Blank \in Contents DEF Contents
  <2>3. \A i \in Inodes' : i \in Inodes \/ i = Len(content) + 1
    BY <2>2 DEF Inodes
  <2>4. \A i \in Inodes' : content'[i] \in Offered \cup {Blank}
    BY <1>7, <2>2, <2>3 DEF Inodes
  <2>5. ASSUME accepted' = {} PROVE OnRecordInv'
    <3>1. \A m \in Lookups : pc[m] # "write"
      BY <1>7, <1>13, <2>5 DEF OnRecordInv
    <3>2. quarantine' # None
      BY <2>1, <2>2
    <3> QED BY <1>2, <1>7, <2>1, <2>5, <3>1, <3>2 DEF OnRecordInv, Holds
  <2> QED BY <2>4, <2>5
<1>14. ASSUME NEW l \in Lookups, Write(l)
       PROVE  Goal
  <2>1. fd[l] \in Inodes /\ inline[l] \in Keys /\ pc[l] = "write"
    BY <1>14 DEF Write, PathInv
  <2>2. Offered = {derToPem(inline[l])} /\ content[fd[l]] \in {Blank, derToPem(inline[l])}
    BY <1>4, <1>7, <2>1, OneOffered
  <2>3. /\ content' = [content EXCEPT ![fd[l]] = derToPem(inline[l])]
        /\ result' = [result EXCEPT ![l] = NoKey] /\ pc' = [pc EXCEPT ![l] = "done"]
        /\ UNCHANGED <<quarantine, fd, accepted>>
    BY <1>5, <1>14, <2>2 DEF Write, TurnDown, Settle, Goto, Reject, operatorVars
  <2>4. derToPem(inline[l]) \in Contents
    BY <2>1, PemTyped DEF Contents
  <2>5. Inodes' = Inodes
    BY <2>1, <2>3, <2>4, Written
  <2>6. /\ \A i \in Inodes : content'[i] \in {content[i], derToPem(inline[l])}
        /\ content'[fd[l]] = derToPem(inline[l])
    BY <2>1, <2>3, <2>4, ExceptSeq DEF Inodes
  <2>7. ASSUME accepted' = {} PROVE OnRecordInv'
    <3>1. quarantine # None /\ fd[l] = quarantine
      BY <1>7, <2>1, <2>7 DEF OnRecordInv
    <3>2. Holds(quarantine)'
      BY <1>3, <2>2, <2>3, <2>6, <3>1 DEF Holds
    <3> QED BY <1>2, <1>7, <2>3, <2>7, <3>1, <3>2 DEF OnRecordInv
  <2> QED BY <1>7, <2>2, <2>5, <2>6, <2>7
<1>15. CASE Review
  BY <1>8, <1>15 DEF Review, fileVars, callVars
<1>16. CASE Promote
  BY <1>7, <1>16 DEF Promote, Inodes
<1>17. CASE Crash
  BY <1>5, <1>17 DEF Crash
<1>18. CASE UNCHANGED coreKeysVars
  BY <1>8, <1>18 DEF coreKeysVars, fileVars, callVars
<1> QED BY <1>9, <1>10, <1>11, <1>12, <1>13, <1>14, <1>15, <1>16, <1>17, <1>18
        DEF CoreKeysNext, Step

\* As long as no file system call fails and no process dies, a call that turned a key
\* down has left its text for the operator, unless a key has been promoted.
THEOREM CoreKeysLeaveEvidence == CoreKeysSpec => []LeavesEvidence
<1> DEFINE Inv == TypeInv /\ TrustInv /\ OneKeyInv /\ EvidenceInv
<1>1. CoreKeysInit => Inv
  <2> SUFFICES ASSUME CoreKeysInit PROVE TrustInv /\ OneKeyInv /\ EvidenceInv
    BY TypeInit
  <2>1. Inodes = {} /\ \A l \in Lookups : result[l] = Pending
    BY DEF CoreKeysInit, Inodes
  <2>2. TrustInv /\ OneKeyInv
    BY <2>1, TextsApart DEF CoreKeysInit, TrustInv, OneKeyInv
  <2> QED BY <2>1, <2>2, OutcomesApart DEF CoreKeysInit, EvidenceInv, OnRecordInv
<1>2. Inv /\ [CoreKeysNext]_coreKeysVars => Inv'
  BY TypeStep, TrustStep, OneKeyStep, EvidenceStep
<1>3. Inv => LeavesEvidence
  <2> SUFFICES ASSUME Inv, faults = 0, OneKeyPresented, accepted = {},
                      \A m \in Lookups : pc[m] # "write",
                      NEW l \in Lookups, result[l] = NoKey, inline[l] # None
               PROVE  quarantine # None /\ content[quarantine] = derToPem(inline[l])
    BY DEF LeavesEvidence, KeyQuarantined
  <2>1. quarantine # None /\ content[quarantine] \in Offered
    BY DEF EvidenceInv, OnRecordInv, Holds
  <2> QED BY <2>1, OneOffered
<1> QED BY <1>1, <1>2, <1>3, PTL DEF CoreKeysSpec

-----------------------------------------------------------------------------
\* What a cache holds: a key's text and an object made from it.
Entries == [pem : Pems, obj : Kinds \X Pems]

-----------------------------------------------------------------------------
(* Key caches: moving an element to the end.                                *)

\* t is s, of length n, without its element i and with e at the end.
Moved(s, n, i, e, t) ==
  /\ Len(t) = n /\ t[n] = e
  /\ \A k \in 1..(i - 1) : t[k] = s[k]
  /\ \A k \in i..(n - 1) : t[k] = s[k + 1]

\* An element is taken out of a sequence and another one put at its end.
LEMMA MovedToEnd ==
  ASSUME NEW S, NEW s \in Seq(S), NEW n, n = Len(s), NEW i \in 1..n, NEW e \in S,
         NEW t, t = Append(RemoveAt(s, i), e)
  PROVE  t \in Seq(S) /\ Moved(s, n, i, e, t)
<1> DEFINE a == SubSeq(s, 1, i - 1)
           b == SubSeq(s, i + 1, Len(s))
<1>1. n \in Nat /\ n = Len(s) /\ i \in 1..n
  BY LenProperties
<1>2. /\ a \in Seq(S) /\ Len(a) = i - 1
      /\ \A k \in 1..(i - 1) : a[k] = s[k]
  <2>1. 1 \in Int /\ i - 1 \in Int /\ \A k \in 1..(i - 1) : s[k] \in S
    BY <1>1, ElementOfSeq
  <2>2. /\ a \in Seq(S)
        /\ Len(a) = IF 1 <= i - 1 THEN (i - 1) - 1 + 1 ELSE 0
        /\ \A k \in 1..((i - 1) - 1 + 1) : a[k] = s[1 + k - 1]
    BY <2>1, SubSeqProperties
  <2> QED
    BY <1>1, <2>2
<1>3. /\ b \in Seq(S) /\ Len(b) = n - i
      /\ \A k \in 1..(n - i) : b[k] = s[i + k]
  <2>1. i + 1 \in Int /\ n \in Int /\ \A k \in (i + 1)..n : s[k] \in S
    BY <1>1, ElementOfSeq
  <2>2. /\ b \in Seq(S)
        /\ Len(b) = IF i + 1 <= n THEN n - (i + 1) + 1 ELSE 0
        /\ \A k \in 1..(n - (i + 1) + 1) : b[k] = s[(i + 1) + k - 1]
    BY <1>1, <2>1, SubSeqProperties
  <2> QED
    BY <1>1, <2>2
<1> HIDE DEF a, b
<1>4. /\ a \o b \in Seq(S) /\ Len(a \o b) = n - 1
      /\ \A k \in 1..(n - 1) : (a \o b)[k] = IF k <= i - 1 THEN a[k] ELSE b[k - (i - 1)]
  <2>1. /\ a \o b \in Seq(S) /\ Len(a \o b) = Len(a) + Len(b)
        /\ \A k \in 1..(Len(a) + Len(b)) :
             (a \o b)[k] = IF k <= Len(a) THEN a[k] ELSE b[k - Len(a)]
    BY <1>2, <1>3, ConcatProperties
  <2>2. Len(a) + Len(b) = n - 1
    BY <1>1, <1>2, <1>3
  <2> QED
    BY <1>2, <2>1, <2>2
<1>5. t = Append(a \o b, e)
  BY DEF RemoveAt, a, b
<1>6. /\ t \in Seq(S) /\ Len(t) = (n - 1) + 1
      /\ \A k \in 1..(n - 1) : t[k] = (a \o b)[k]
      /\ t[(n - 1) + 1] = e
  <2> DEFINE c == a \o b
  <2>1. c \in Seq(S) /\ Len(c) = n - 1 /\ t = Append(c, e)
    BY <1>4, <1>5
  <2> HIDE DEF c
  <2>2. /\ t \in Seq(S) /\ Len(t) = Len(c) + 1
        /\ \A k \in 1..Len(c) : t[k] = c[k]
        /\ t[Len(c) + 1] = e
    BY <2>1, AppendProperties
  <2>3. /\ t \in Seq(S) /\ Len(t) = (n - 1) + 1
        /\ \A k \in 1..(n - 1) : t[k] = c[k]
        /\ t[(n - 1) + 1] = e
    BY <2>1, <2>2
  <2> QED
    BY <2>3 DEF c
<1>7. \A k \in 1..(i - 1) : t[k] = s[k]
  <2> SUFFICES ASSUME NEW k \in 1..(i - 1) PROVE t[k] = s[k]
    OBVIOUS
  <2>1. k \in 1..(n - 1) /\ k <= i - 1
    BY <1>1
  <2>2. t[k] = (a \o b)[k] /\ (a \o b)[k] = a[k]
    BY <1>4, <1>6, <2>1
  <2> QED
    BY <1>2, <2>2
<1>8. \A k \in i..(n - 1) : t[k] = s[k + 1]
  <2> SUFFICES ASSUME NEW k \in i..(n - 1) PROVE t[k] = s[k + 1]
    OBVIOUS
  <2>1. k \in 1..(n - 1) /\ ~(k <= i - 1) /\ k - (i - 1) \in 1..(n - i)
    BY <1>1
  <2>2. t[k] = b[k - (i - 1)]
    BY <1>4, <1>6, <2>1
  <2>3. b[k - (i - 1)] = s[i + (k - (i - 1))]
    BY <1>3, <2>1
  <2> QED
    BY <1>1, <2>2, <2>3, i + (k - (i - 1)) = k + 1
<1>9. (n - 1) + 1 = n
  BY <1>1
<1> QED
  BY <1>6, <1>7, <1>8, <1>9 DEF Moved

-----------------------------------------------------------------------------
(* Key caches: one cache, and the history of the keys it served.            *)

Smaller(a, b) == IF a <= b THEN a ELSE b

\* The entries are parsed keys of the right kind; the history has each key once;
\* and the entries are those of the last LRU_MAX keys of the history, in its order.
SoundEntries(cache, kind) ==
  /\ cache \in Seq(Entries)
  /\ \A i \in 1..Len(cache) :
       cache[i].pem \notin BadPems /\ cache[i].obj = KeyOf(kind, cache[i].pem)

DistinctKeys(u) ==
  /\ u \in Seq(Pems)
  /\ \A i, j \in 1..Len(u) : u[i] = u[j] => i = j

LatestKeys(cache, u) ==
  /\ Len(cache) = Smaller(Len(u), LRU_MAX)
  /\ \A i \in 1..Len(cache) : cache[i].pem = u[Len(u) - Len(cache) + i]

LruInv(cache, u, kind) ==
  SoundEntries(cache, kind) /\ DistinctKeys(u) /\ LatestKeys(cache, u)

\* A hit is an entry of the cache.
LEMMA HitFound ==
  ASSUME NEW kind \in Kinds, NEW cache, SoundEntries(cache, kind), NEW pem,
         Hits(cache, pem) # {}
  PROVE  \E i \in 1..Len(cache) :
           /\ cache[i].pem = pem
           /\ Without(cache, pem) = RemoveAt(cache, i)
           /\ Hit(cache, pem) \in Entries
           /\ Hit(cache, pem).pem = pem
           /\ Hit(cache, pem).obj = KeyOf(kind, pem)
           /\ pem \notin BadPems
<1>1. cache \in Seq(Entries) /\ DOMAIN cache = 1..Len(cache)
  BY LenProperties DEF SoundEntries
<1>2. Hit(cache, pem) \in Hits(cache, pem)
  BY DEF Hit
<1>3. Hit(cache, pem) \in ToSet(cache) /\ Hit(cache, pem).pem = pem
  BY <1>2 DEF Hits
<1>4. PICK k \in 1..Len(cache) : Hit(cache, pem) = cache[k]
  BY <1>1, <1>3 DEF ToSet
<1> DEFINE i == CHOOSE j \in DOMAIN cache : cache[j].pem = pem
<1>5. i \in 1..Len(cache) /\ cache[i].pem = pem
  BY <1>1, <1>3, <1>4
<1>6. Without(cache, pem) = RemoveAt(cache, i)
  BY DEF Without
<1> HIDE DEF i
<1>7. cache[k] \in Entries
  BY <1>1, <1>4, ElementOfSeq
<1>8. cache[k].obj = KeyOf(kind, pem) /\ pem \notin BadPems
  BY <1>3, <1>4 DEF SoundEntries
<1> QED
  BY <1>3, <1>4, <1>5, <1>6, <1>7, <1>8

\* A miss: no entry has the key.
LEMMA MissedAll ==
  ASSUME NEW kind, NEW cache, SoundEntries(cache, kind), NEW pem, Hits(cache, pem) = {}
  PROVE  \A i \in 1..Len(cache) : cache[i].pem # pem
<1>1. DOMAIN cache = 1..Len(cache)
  BY LenProperties DEF SoundEntries
<1> QED
  BY <1>1 DEF Hits, ToSet

\* The history after a use: the key is taken from where it was, if anywhere, and
\* put at the end.
LEMMA HistoryRenewed ==
  ASSUME NEW u, DistinctKeys(u), NEW pem \in Pems
  PROVE  /\ \A j \in 1..Len(u) : u[j] = pem => Renewed(u, pem) = Append(RemoveAt(u, j), pem)
         /\ (\A j \in 1..Len(u) : u[j] # pem) => Renewed(u, pem) = Append(u, pem)
<1>1. DOMAIN u = 1..Len(u)
  BY LenProperties DEF DistinctKeys
<1>2. ASSUME NEW j \in 1..Len(u), u[j] = pem
      PROVE  Renewed(u, pem) = Append(RemoveAt(u, j), pem)
  <2>1. pem \in ToSet(u)
    BY <1>1, <1>2 DEF ToSet
  <2> DEFINE i == CHOOSE k \in DOMAIN u : u[k] = pem
  <2>2. i \in 1..Len(u) /\ u[i] = pem
    BY <1>1, <1>2
  <2>3. i = j
    BY <1>2, <2>2 DEF DistinctKeys
  <2> QED
    BY <2>1, <2>3 DEF Renewed
<1>3. ASSUME \A j \in 1..Len(u) : u[j] # pem
      PROVE  Renewed(u, pem) = Append(u, pem)
  <2>1. pem \notin ToSet(u)
    BY <1>1, <1>3 DEF ToSet
  <2> QED
    BY <2>1 DEF Renewed
<1> QED
  BY <1>2, <1>3

\* A sequence of distinct elements stays one when an element moves to its end.
LEMMA MoveKeepsDistinct ==
  ASSUME NEW u, DistinctKeys(u), NEW j \in 1..Len(u), NEW t \in Seq(Pems),
         Len(t) = Len(u),
         \A k \in 1..(j - 1) : t[k] = u[k],
         \A k \in j..(Len(u) - 1) : t[k] = u[k + 1],
         t[Len(u)] = u[j]
  PROVE  DistinctKeys(t)
<1>1. PICK n \in Nat : n = Len(u) /\ j \in 1..n
  BY LenProperties DEF DistinctKeys
<1> DEFINE from(k) == IF k < j THEN k ELSE IF k = n THEN j ELSE k + 1
<1>2. \A k \in 1..n : from(k) \in 1..n /\ t[k] = u[from(k)]
  BY <1>1
<1>3. \A k, l \in 1..n : from(k) = from(l) => k = l
  BY <1>1
<1> HIDE DEF from
<1>4. \A k, l \in 1..n : u[k] = u[l] => k = l
  BY <1>1 DEF DistinctKeys
<1>5. \A k, l \in 1..n : t[k] = t[l] => k = l
  <2> SUFFICES ASSUME NEW k \in 1..n, NEW l \in 1..n, t[k] = t[l] PROVE k = l
    OBVIOUS
  <2>1. u[from(k)] = u[from(l)] /\ from(k) \in 1..n /\ from(l) \in 1..n
    BY <1>2
  <2>2. from(k) = from(l)
    BY <1>4, <2>1
  <2> QED
    BY <1>3, <2>2
<1> QED
  BY <1>1, <1>5 DEF DistinctKeys

-----------------------------------------------------------------------------
(* lruGet and lruSet keep the cache the end of the history.                 *)

\* Places of a cache of m entries in a history of n keys.
LEMMA Places ==
  ASSUME NEW n \in Nat, NEW m \in Nat, m <= n, NEW j \in Int, NEW k \in 1..m
  PROVE  /\ n - m + k \in 1..n
         /\ n - m + k < j => n - m + k \in 1..(j - 1)
         /\ k <= m - 1 => k + 1 \in 1..m /\ (n - m + k) + 1 = n - m + (k + 1)
         /\ k <= m - 1 /\ j <= n - m + k => n - m + k \in j..(n - 1)
         /\ k = m => n - m + k = n
OBVIOUS

\* lruGet: a hit moves the entry to the end of the cache and its key to the end of
\* the history, and both are the same move.
LEMMA HitKeeps ==
  ASSUME NEW kind \in Kinds, NEW cache, NEW u, LruInv(cache, u, kind),
         NEW pem \in Pems, Hits(cache, pem) # {}
  PROVE  LruInv(lruGet(cache, pem), Renewed(u, pem), kind)
<1> DEFINE h == Hit(cache, pem)
           c == lruGet(cache, pem)
           t == Renewed(u, pem)
<1>1. SoundEntries(cache, kind) /\ DistinctKeys(u) /\ LatestKeys(cache, u)
  BY DEF LruInv
<1>2. PICK n \in Nat, m \in Nat :
        /\ n = Len(u) /\ m = Len(cache) /\ m = Smaller(n, LRU_MAX) /\ m <= n
  BY <1>1, LenProperties, CacheAssumption DEF SoundEntries, DistinctKeys, LatestKeys, Smaller
<1>3. PICK i \in 1..m :
        /\ cache[i].pem = pem /\ Without(cache, pem) = RemoveAt(cache, i)
        /\ h \in Entries /\ h.pem = pem /\ h.obj = KeyOf(kind, pem) /\ pem \notin BadPems
  <2>1. \E i \in 1..Len(cache) :
          /\ cache[i].pem = pem /\ Without(cache, pem) = RemoveAt(cache, i)
          /\ h \in Entries /\ h.pem = pem /\ h.obj = KeyOf(kind, pem) /\ pem \notin BadPems
    BY <1>1, HitFound
  <2> QED
    BY <1>2, <2>1, Zenon
<1>4. PICK j \in 1..n : j = n - m + i
  BY <1>2, Places
<1>5. /\ cache \in Seq(Entries) /\ u \in Seq(Pems)
      /\ \A k \in 1..m : cache[k].pem = u[n - m + k]
  BY <1>1, <1>2 DEF SoundEntries, DistinctKeys, LatestKeys
<1>6. u[j] = pem
  BY <1>3, <1>4, <1>5
<1>7. c = Append(RemoveAt(cache, i), h) /\ t = Append(RemoveAt(u, j), pem)
  BY <1>1, <1>2, <1>3, <1>6, HistoryRenewed DEF lruGet
<1> HIDE DEF c, t, h
<1>8. /\ c \in Seq(Entries) /\ Len(c) = m
      /\ \A k \in 1..(i - 1) : c[k] = cache[k]
      /\ \A k \in i..(m - 1) : c[k] = cache[k + 1]
      /\ c[m] = h
  <2>1. cache \in Seq(Entries) /\ m = Len(cache) /\ h \in Entries
    BY <1>2, <1>3, <1>5
  <2>2. c = Append(RemoveAt(cache, i), h)
    BY <1>7
  <2>3. c \in Seq(Entries) /\ Moved(cache, m, i, h, c)
    BY <2>1, <2>2, MovedToEnd, Zenon
  <2> QED
    BY <2>3 DEF Moved
<1>9. /\ t \in Seq(Pems) /\ Len(t) = n
      /\ \A k \in 1..(j - 1) : t[k] = u[k]
      /\ \A k \in j..(n - 1) : t[k] = u[k + 1]
      /\ t[n] = pem
  <2>1. u \in Seq(Pems) /\ n = Len(u) /\ t = Append(RemoveAt(u, j), pem)
    BY <1>2, <1>5, <1>7
  <2>2. t \in Seq(Pems) /\ Moved(u, n, j, pem, t)
    BY <2>1, MovedToEnd, Zenon
  <2> QED
    BY <2>2 DEF Moved
<1>10. DistinctKeys(t)
  BY <1>1, <1>2, <1>6, <1>9, MoveKeepsDistinct
<1>11. \A k \in 1..m : cache[k].pem \notin BadPems /\ cache[k].obj = KeyOf(kind, cache[k].pem)
  BY <1>1, <1>2 DEF SoundEntries
<1>12. ASSUME NEW k \in 1..m
       PROVE  /\ c[k].pem \notin BadPems /\ c[k].obj = KeyOf(kind, c[k].pem)
              /\ c[k].pem = t[n - m + k]
  <2>1. CASE k \in 1..(i - 1)
    <3>1. c[k] = cache[k]
      BY <1>8, <2>1
    <3>2. n - m + k < j /\ j \in Int /\ m <= n
      BY <1>2, <1>4, <2>1
    <3>3. n - m + k \in 1..(j - 1)
      BY <3>2, Places
    <3>4. t[n - m + k] = u[n - m + k]
      BY <1>9, <3>3
    <3> QED
      BY <1>5, <1>11, <3>1, <3>4
  <2>2. CASE k \in i..(m - 1)
    <3>1. c[k] = cache[k + 1] /\ k + 1 \in 1..m
      BY <1>2, <1>8, <2>2
    <3>2. n - m + k \in j..(n - 1) /\ (n - m + k) + 1 = n - m + (k + 1)
      <4>1. k <= m - 1 /\ j <= n - m + k /\ j \in Int /\ m <= n
        BY <1>2, <1>4, <2>2
      <4> QED
        BY <4>1, Places
    <3>3. t[n - m + k] = u[n - m + (k + 1)]
      BY <1>9, <3>2
    <3> QED
      BY <1>5, <1>11, <3>1, <3>3
  <2>3. CASE k = m
    <3>1. n - m + k = n
      BY <2>3
    <3> QED
      BY <1>3, <1>8, <1>9, <2>3, <3>1
  <2> QED
    BY <1>2, <2>1, <2>2, <2>3
<1>13. SoundEntries(c, kind)
  BY <1>8, <1>12 DEF SoundEntries
<1>14. LatestKeys(c, t)
  BY <1>2, <1>8, <1>9, <1>12 DEF LatestKeys
<1> QED
  BY <1>10, <1>13, <1>14 DEF LruInv, c, t

\* c is the cache, of m entries, with e at the end and the oldest entry gone if
\* there is one too many.
Inserted(cache, m, e, c) ==
  /\ m + 1 > LRU_MAX =>
       Len(c) = m /\ (\A k \in 1..(m - 1) : c[k] = cache[k + 1]) /\ (m > 0 => c[m] = e)
  /\ ~(m + 1 > LRU_MAX) =>
       Len(c) = m + 1 /\ (\A k \in 1..m : c[k] = cache[k]) /\ c[m + 1] = e

\* lruSet is that.
LEMMA SetEntries ==
  ASSUME NEW cache \in Seq(Entries), NEW m, m = Len(cache), NEW pem, NEW obj,
         NEW e \in Entries, e = [pem |-> pem, obj |-> obj],
         NEW c, c = lruSet(cache, pem, obj)
  PROVE  c \in Seq(Entries) /\ Inserted(cache, m, e, c)
<1> DEFINE b == Append(cache, e)
<1>1. m \in Nat /\ m = Len(cache)
  BY LenProperties
<1>2. /\ b \in Seq(Entries) /\ Len(b) = m + 1 /\ b[m + 1] = e
      /\ \A k \in 1..m : b[k] = cache[k]
  BY <1>1, AppendProperties
<1>3. c = IF m + 1 > LRU_MAX THEN Tail(b) ELSE b
  BY <1>2 DEF lruSet
<1> HIDE DEF b
<1>4. ASSUME m + 1 > LRU_MAX
      PROVE  /\ c \in Seq(Entries) /\ Len(c) = m
             /\ \A k \in 1..(m - 1) : c[k] = cache[k + 1]
             /\ m > 0 => c[m] = e
  <2>1. b # <<>>
    BY <1>1, <1>2
  <2>2. Tail(b) \in Seq(Entries) /\ Len(Tail(b)) = Len(b) - 1
        /\ \A k \in 1..(Len(b) - 1) : Tail(b)[k] = b[k + 1]
    BY <1>2, <2>1, HeadTailProperties
  <2>3. c \in Seq(Entries) /\ Len(c) = m /\ \A k \in 1..m : c[k] = b[k + 1]
    BY <1>1, <1>2, <1>3, <1>4, <2>2
  <2>4. ASSUME NEW k \in 1..(m - 1) PROVE c[k] = cache[k + 1]
    <3>1. k \in 1..m /\ k + 1 \in 1..m
      BY <1>1
    <3> QED
      BY <1>2, <2>3, <3>1
  <2>5. ASSUME m > 0 PROVE c[m] = e
    BY <1>1, <1>2, <2>3, <2>5
  <2> QED
    BY <2>3, <2>4, <2>5
<1>5. ASSUME ~(m + 1 > LRU_MAX)
      PROVE  /\ c \in Seq(Entries) /\ Len(c) = m + 1
             /\ (\A k \in 1..m : c[k] = cache[k]) /\ c[m + 1] = e
  BY <1>2, <1>3, <1>5
<1> QED
  BY <1>1, <1>4, <1>5 DEF Inserted

\* lruSet: after a miss the new entry is the newest of the cache and its key the
\* newest of the history.  If the key was in the history before, it had been evicted:
\* the cache is full and its oldest entry goes.
LEMMA MissKeeps ==
  ASSUME NEW kind \in Kinds, NEW cache, NEW u, LruInv(cache, u, kind),
         NEW pem \in Pems, pem \notin BadPems, Hits(cache, pem) = {}
  PROVE  LruInv(lruSet(cache, pem, KeyOf(kind, pem)), Renewed(u, pem), kind)
<1> DEFINE e == [pem |-> pem, obj |-> KeyOf(kind, pem)]
           c == lruSet(cache, pem, KeyOf(kind, pem))
           t == Renewed(u, pem)
<1>1. SoundEntries(cache, kind) /\ DistinctKeys(u) /\ LatestKeys(cache, u)
  BY DEF LruInv
<1>2. PICK n \in Nat, m \in Nat :
        /\ n = Len(u) /\ m = Len(cache) /\ m = Smaller(n, LRU_MAX) /\ m <= n
  BY <1>1, LenProperties, CacheAssumption DEF SoundEntries, DistinctKeys, LatestKeys, Smaller
<1>3. /\ cache \in Seq(Entries) /\ u \in Seq(Pems)
      /\ \A k \in 1..m : cache[k].pem = u[n - m + k]
      /\ \A k \in 1..m : cache[k].pem \notin BadPems /\ cache[k].obj = KeyOf(kind, cache[k].pem)
      /\ \A k \in 1..m : cache[k].pem # pem
  BY <1>1, <1>2, MissedAll DEF SoundEntries, DistinctKeys, LatestKeys
<1>4. e \in Entries /\ e.pem = pem /\ e.obj = KeyOf(kind, pem)
  BY DEF Entries, KeyOf
<1>5. /\ c \in Seq(Entries)
      /\ m + 1 > LRU_MAX =>
           Len(c) = m /\ (\A k \in 1..(m - 1) : c[k] = cache[k + 1]) /\ (m > 0 => c[m] = e)
      /\ ~(m + 1 > LRU_MAX) =>
           Len(c) = m + 1 /\ (\A k \in 1..m : c[k] = cache[k]) /\ c[m + 1] = e
  <2>1. c \in Seq(Entries) /\ Inserted(cache, m, e, c)
    <3> HIDE DEF e, c
    <3>1. e = [pem |-> pem, obj |-> KeyOf(kind, pem)] /\ c = lruSet(cache, pem, KeyOf(kind, pem))
      BY DEF e, c
    <3> QED
      BY <1>2, <1>3, <1>4, <3>1, SetEntries, Zenon
  <2> QED
    BY <2>1 DEF Inserted
<1> HIDE DEF c, e
<1>6. CASE \E j \in 1..n : u[j] = pem
  <2>1. PICK j \in 1..n : u[j] = pem
    BY <1>6
  <2>2. t = Append(RemoveAt(u, j), pem)
    BY <1>1, <1>2, <2>1, HistoryRenewed
  <2> HIDE DEF t
  <2>3. t \in Seq(Pems) /\ Moved(u, n, j, pem, t)
    BY <1>2, <1>3, <2>2, MovedToEnd, Zenon
  <2>4. /\ Len(t) = n /\ t[n] = pem
        /\ \A k \in 1..(j - 1) : t[k] = u[k]
        /\ \A k \in j..(n - 1) : t[k] = u[k + 1]
    BY <2>3 DEF Moved
  <2>5. DistinctKeys(t)
    BY <1>1, <1>2, <2>1, <2>3, <2>4, MoveKeepsDistinct
  <2>6. j <= n - m
    <3>1. ASSUME j > n - m PROVE FALSE
      <4>1. PICK d \in Int : d = j - (n - m)
        BY <1>2
      <4>2. d \in 1..m /\ n - m + d = j
        <5>1. \A a, b, x, y \in Int :
                1 <= x /\ x <= a /\ x > a - b /\ y = x - (a - b) => y \in 1..b /\ a - b + y = x
          OBVIOUS
        <5>2. n \in Int /\ m \in Int /\ j \in Int /\ 1 <= j /\ j <= n
          OBVIOUS
        <5> QED
          BY <3>1, <4>1, <5>1, <5>2
      <4>3. cache[d].pem = u[j]
        BY <1>3, <4>2
      <4> QED
        BY <1>3, <2>1, <4>2, <4>3
    <3>2. j \in Int /\ n - m \in Int
      BY <1>2
    <3> QED
      BY <3>1, <3>2
  <2>7. m = LRU_MAX /\ m > 0 /\ m + 1 > LRU_MAX
    BY <1>2, <2>6, CacheAssumption DEF Smaller
  <2>8. Len(c) = m /\ (\A k \in 1..(m - 1) : c[k] = cache[k + 1]) /\ c[m] = e
    BY <1>5, <2>7
  <2>9. ASSUME NEW k \in 1..m
        PROVE  /\ c[k].pem \notin BadPems /\ c[k].obj = KeyOf(kind, c[k].pem)
               /\ c[k].pem = t[n - m + k]
    <3>1. CASE k = m
      <4>1. n - m + k = n
        BY <1>2, <3>1
      <4> QED
        BY <1>4, <2>4, <2>8, <3>1, <4>1
    <3>2. CASE k \in 1..(m - 1)
      <4>1. c[k] = cache[k + 1] /\ k + 1 \in 1..m
        BY <1>2, <2>8, <3>2
      <4>2. n - m + k \in j..(n - 1) /\ (n - m + k) + 1 = n - m + (k + 1)
        <5>1. k <= m - 1 /\ j <= n - m + k /\ j \in Int /\ m <= n
          BY <1>2, <2>6, <3>2
        <5> QED
          BY <5>1, Places
      <4>3. t[n - m + k] = u[n - m + (k + 1)]
        BY <2>4, <4>2
      <4> QED
        BY <1>3, <4>1, <4>3
    <3> QED
      BY <1>2, <3>1, <3>2
  <2>10. SoundEntries(c, kind) /\ LatestKeys(c, t)
    BY <1>2, <1>5, <2>4, <2>8, <2>9 DEF SoundEntries, LatestKeys
  <2> QED
    BY <2>5, <2>10 DEF LruInv, c, t
<1>7. CASE \A j \in 1..n : u[j] # pem
  <2>1. t = Append(u, pem)
    BY <1>1, <1>2, <1>7, HistoryRenewed
  <2> HIDE DEF t
  <2>2. /\ t \in Seq(Pems) /\ Len(t) = n + 1 /\ t[n + 1] = pem
        /\ \A k \in 1..n : t[k] = u[k]
    BY <1>2, <1>3, <2>1, AppendProperties
  <2>3. \A k, l \in 1..n : u[k] = u[l] => k = l
    BY <1>1, <1>2 DEF DistinctKeys
  <2>4. DistinctKeys(t)
    <3>1. ASSUME NEW k \in 1..(n + 1), NEW l \in 1..(n + 1), t[k] = t[l] PROVE k = l
      <4>1. CASE k \in 1..n /\ l \in 1..n
        BY <2>2, <2>3, <3>1, <4>1
      <4>2. CASE k = n + 1 /\ l \in 1..n
        BY <1>7, <2>2, <3>1, <4>2
      <4>3. CASE k \in 1..n /\ l = n + 1
        BY <1>7, <2>2, <3>1, <4>3
      <4> QED
        BY <4>1, <4>2, <4>3
    <3> QED
      BY <2>2, <3>1 DEF DistinctKeys
  <2>5. CASE m + 1 > LRU_MAX
    <3>1. m = LRU_MAX /\ m > 0 /\ m = Smaller(n + 1, LRU_MAX)
      BY <1>2, <2>5, CacheAssumption DEF Smaller
    <3>2. Len(c) = m /\ (\A k \in 1..(m - 1) : c[k] = cache[k + 1]) /\ c[m] = e
      BY <1>5, <2>5, <3>1
    <3>3. ASSUME NEW k \in 1..m
          PROVE  /\ c[k].pem \notin BadPems /\ c[k].obj = KeyOf(kind, c[k].pem)
                 /\ c[k].pem = t[(n + 1) - m + k]
      <4>1. CASE k = m
        <5>1. (n + 1) - m + k = n + 1
          BY <1>2, <4>1
        <5> QED
          BY <1>4, <2>2, <3>2, <4>1, <5>1
      <4>2. CASE k \in 1..(m - 1)
        <5>1. c[k] = cache[k + 1] /\ k + 1 \in 1..m
          BY <1>2, <3>2, <4>2
        <5>2. (n + 1) - m + k \in 1..n /\ (n + 1) - m + k = n - m + (k + 1)
          BY <1>2, <4>2
        <5>3. t[(n + 1) - m + k] = u[n - m + (k + 1)]
          BY <2>2, <5>2
        <5> QED
          BY <1>3, <5>1, <5>3
      <4> QED
        BY <1>2, <4>1, <4>2
    <3>4. SoundEntries(c, kind) /\ LatestKeys(c, t)
      BY <1>5, <2>2, <3>1, <3>2, <3>3 DEF SoundEntries, LatestKeys
    <3> QED
      BY <2>4, <3>4 DEF LruInv, c, t
  <2>6. CASE ~(m + 1 > LRU_MAX)
    <3>1. m = n /\ m + 1 = Smaller(n + 1, LRU_MAX)
      BY <1>2, <2>6, CacheAssumption DEF Smaller
    <3>2. Len(c) = m + 1 /\ (\A k \in 1..m : c[k] = cache[k]) /\ c[m + 1] = e
      BY <1>5, <2>6
    <3>3. ASSUME NEW k \in 1..(m + 1)
          PROVE  /\ c[k].pem \notin BadPems /\ c[k].obj = KeyOf(kind, c[k].pem)
                 /\ c[k].pem = t[k]
      <4>1. CASE k = m + 1
        BY <1>4, <2>2, <3>1, <3>2, <4>1
      <4>2. CASE k \in 1..m
        <5>1. c[k] = cache[k] /\ t[k] = u[k] /\ n - m + k = k
          BY <1>2, <2>2, <3>1, <3>2, <4>2
        <5> QED
          BY <1>3, <4>2, <5>1
      <4> QED
        BY <4>1, <4>2
    <3>4. \A k \in 1..(m + 1) : (n + 1) - (m + 1) + k = k
      BY <3>1
    <3>5. SoundEntries(c, kind) /\ LatestKeys(c, t)
      BY <1>5, <2>2, <3>1, <3>2, <3>3, <3>4 DEF SoundEntries, LatestKeys
    <3> QED
      BY <2>4, <3>5 DEF LruInv, c, t
  <2> QED
    BY <2>5, <2>6
<1> QED
  BY <1>6, <1>7

-----------------------------------------------------------------------------
(* Key caches: the worker.                                                  *)

\* getPub and getPriv, of a key that parses or is cached: the cache stays the end of
\* the history, and the key is that of the text.
LEMMA GetSound ==
  ASSUME NEW kind \in Kinds, NEW cache, NEW u, LruInv(cache, u, kind),
         NEW pem \in Pems, pem \notin BadPems \/ Hits(cache, pem) # {}
  PROVE  /\ LruInv(Get(cache, kind, pem).cache, Renewed(u, pem), kind)
         /\ Get(cache, kind, pem).key = KeyOf(kind, pem)
         /\ pem \notin BadPems
<1>1. CASE Hits(cache, pem) # {}
  <2>1. /\ Get(cache, kind, pem).cache = lruGet(cache, pem)
        /\ Get(cache, kind, pem).key = Hit(cache, pem).obj
    BY <1>1 DEF Get
  <2>2. LruInv(lruGet(cache, pem), Renewed(u, pem), kind)
    BY <1>1, HitKeeps
  <2>3. Hit(cache, pem).obj = KeyOf(kind, pem) /\ pem \notin BadPems
    BY <1>1, HitFound DEF LruInv
  <2> QED
    BY <2>1, <2>2, <2>3
<1>2. CASE Hits(cache, pem) = {}
  <2>1. /\ Get(cache, kind, pem).cache = lruSet(cache, pem, KeyOf(kind, pem))
        /\ Get(cache, kind, pem).key = KeyOf(kind, pem)
    BY <1>2 DEF Get, Loaded
  <2>2. LruInv(lruSet(cache, pem, KeyOf(kind, pem)), Renewed(u, pem), kind)
    BY <1>2, MissKeeps
  <2> QED
    BY <1>2, <2>1, <2>2
<1> QED
  BY <1>1, <1>2

\* The inductive invariant: each cache is the end of its history, and the last answer
\* was computed with its key.
CacheInv ==
  /\ used = [k \in Kinds |-> used[k]]
  /\ LruInv(pubCache, used["pub"], "pub")
  /\ LruInv(privCache, used["priv"], "priv")
  /\ AnswersWithItsKey

\* The empty cache is the end of the empty history.
LEMMA EmptyLru == ASSUME NEW kind PROVE LruInv(<<>>, <<>>, kind)
BY CacheAssumption DEF LruInv, SoundEntries, DistinctKeys, LatestKeys, Smaller

\* The caches start empty.
LEMMA CacheInvInit == CacheInit => CacheInv
<1> SUFFICES ASSUME CacheInit PROVE CacheInv
  OBVIOUS
<1>1. used["pub"] = <<>> /\ used["priv"] = <<>> /\ used = [k \in Kinds |-> used[k]]
  BY DEF CacheInit, Kinds
<1> QED
  BY <1>1, EmptyLru DEF CacheInit, CacheInv, AnswersWithItsKey

\* Every message keeps the invariant.
LEMMA CacheInvStep == CacheInv /\ [CacheNext]_cacheVars => CacheInv'
<1> SUFFICES ASSUME CacheInv, [CacheNext]_cacheVars PROVE CacheInv'
  OBVIOUS
<1>1. CASE UNCHANGED cacheVars
  BY <1>1 DEF CacheInv, cacheVars, AnswersWithItsKey
<1>2. ASSUME NEW op \in Ops, NEW pem \in Pems, NEW rsaThrows \in BOOLEAN,
             OnMessage(op, pem, rsaThrows)
      PROVE  CacheInv'
  <2> DEFINE kind == KindOf(op)
             cache == IF kind = "pub" THEN pubCache ELSE privCache
             got == Get(cache, kind, pem)
             refused == op = "other" \/ (pem \in BadPems /\ Hits(cache, pem) = {})
  <2>1. kind \in Kinds /\ LruInv(cache, used[kind], kind)
    BY DEF KindOf, Kinds, CacheInv
  <2>2. CASE refused
    <3>1. /\ reply' = [op |-> op, pem |-> pem, with |-> Nothing, ok |-> FALSE]
          /\ UNCHANGED <<pubCache, privCache, used>>
      BY <1>2, <2>2 DEF OnMessage
    <3>2. AnswersWithItsKey'
      BY <2>2, <3>1 DEF AnswersWithItsKey
    <3> QED
      BY <3>1, <3>2 DEF CacheInv
  <2>3. CASE ~refused
    <3>1. /\ pubCache' = IF kind = "pub" THEN got.cache ELSE pubCache
          /\ privCache' = IF kind = "priv" THEN got.cache ELSE privCache
          /\ used' = [used EXCEPT ![kind] = Renewed(@, pem)]
          /\ reply' = [op |-> op, pem |-> pem, with |-> got.key, ok |-> RsaResult(op, rsaThrows)]
      BY <1>2, <2>3 DEF OnMessage
    <3>2. /\ LruInv(got.cache, Renewed(used[kind], pem), kind)
          /\ got.key = KeyOf(kind, pem) /\ pem \notin BadPems
      BY <2>1, <2>3, GetSound
    <3>3. AnswersWithItsKey'
      BY <2>3, <3>1, <3>2 DEF AnswersWithItsKey
    <3> HIDE DEF got, cache
    <3>4. /\ used' = [k \in Kinds |-> used'[k]]
          /\ used'[kind] = Renewed(used[kind], pem)
          /\ \A k \in Kinds \ {kind} : used'[k] = used[k]
      BY <2>1, <3>1 DEF CacheInv
    <3>5. CASE kind = "pub"
      BY <3>1, <3>2, <3>3, <3>4, <3>5 DEF CacheInv, Kinds
    <3>6. CASE kind = "priv"
      BY <3>1, <3>2, <3>3, <3>4, <3>6 DEF CacheInv, Kinds
    <3> QED
      BY <2>1, <3>5, <3>6 DEF Kinds
  <2> QED
    BY <2>2, <2>3
<1> QED
  BY <1>1, <1>2 DEF CacheNext

\* One cache that is the end of its history holds exactly the keys used last.
LEMMA LatestAreLast ==
  ASSUME NEW kind, NEW cache, NEW u, LruInv(cache, u, kind)
  PROVE  PemsOf(cache) = LastOf(u, LRU_MAX)
<1>1. PICK n \in Nat, m \in Nat :
        /\ n = Len(u) /\ m = Len(cache) /\ m = Smaller(n, LRU_MAX) /\ m <= n
  BY LenProperties, CacheAssumption
     DEF LruInv, SoundEntries, DistinctKeys, LatestKeys, Smaller
<1>2. /\ u \in Seq(Pems) /\ cache \in Seq(Entries)
      /\ \A k \in 1..m : cache[k].pem = u[n - m + k]
  BY <1>1 DEF LruInv, SoundEntries, DistinctKeys, LatestKeys
<1>3. PemsOf(cache) = [k \in 1..m |-> cache[k].pem]
  BY <1>1 DEF PemsOf
<1>4. CASE n <= LRU_MAX
  <2>1. m = n /\ LastOf(u, LRU_MAX) = u
    BY <1>1, <1>4, CacheAssumption DEF Smaller, LastOf
  <2>2. u = [k \in 1..n |-> u[k]]
    BY <1>1, <1>2, LenProperties
  <2>3. \A k \in 1..m : cache[k].pem = u[k]
    BY <1>1, <1>2, <2>1
  <2> QED
    BY <1>3, <2>1, <2>2, <2>3
<1>5. CASE ~(n <= LRU_MAX)
  <2>1. m = LRU_MAX /\ LastOf(u, LRU_MAX) = SubSeq(u, n - m + 1, n)
    BY <1>1, <1>5, CacheAssumption DEF Smaller, LastOf
  <2>2. /\ n - m + 1 \in Int /\ n \in Int /\ n - m + 1 <= n /\ n - (n - m + 1) + 1 = m
        /\ \A k \in (n - m + 1)..n : u[k] \in Pems
    BY <1>1, <1>2, <2>1, CacheAssumption, ElementOfSeq
  <2> DEFINE t == SubSeq(u, n - m + 1, n)
  <2>3. /\ t \in Seq(Pems) /\ Len(t) = m
        /\ \A k \in 1..m : t[k] = u[(n - m + 1) + k - 1]
    BY <2>2, SubSeqProperties
  <2>4. t = [k \in 1..m |-> t[k]]
    BY <2>3, LenProperties
  <2> HIDE DEF t
  <2>5. ASSUME NEW k \in 1..m PROVE t[k] = cache[k].pem
    <3>1. (n - m + 1) + k - 1 = n - m + k
      BY <1>1
    <3> QED
      BY <1>2, <2>3, <3>1
  <2> QED
    BY <1>3, <2>1, <2>4, <2>5 DEF t
<1> QED
  BY <1>4, <1>5

\* The worker's caches are the ends of their histories.
THEOREM CacheInvariant == CacheSpec => []CacheInv
BY CacheInvInit, CacheInvStep, PTL DEF CacheSpec

\* Whatever was cached, renewed or evicted before, the worker computes an answer with
\* the key of the request's own text, of the kind its operation needs (getPub, getPriv).
THEOREM CacheAnswersWithItsKey == CacheSpec => []AnswersWithItsKey
<1>1. CacheInv => AnswersWithItsKey
  BY DEF CacheInv
<1> QED
  BY <1>1, CacheInvariant, PTL

\* lruGet and lruSet keep, for any number of keys and any LRU_MAX, exactly the LRU_MAX
\* keys used last, oldest use first.
THEOREM CacheKeepsMostRecent == CacheSpec => []KeepsMostRecent
<1>1. CacheInv => KeepsMostRecent
  BY LatestAreLast DEF CacheInv, KeepsMostRecent
<1> QED
  BY <1>1, CacheInvariant, PTL
=============================================================================
