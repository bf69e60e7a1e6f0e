------------------------------ MODULE CoreKeys ------------------------------
(***************************************************************************)
(* The loader of lib/core-keys.js, for the two files of one device (calls  *)
(* for other devices touch other files).  Every await of loadCoreKey is a  *)
(* point where other calls, the operator and a crash of the process may    *)
(* come in.  A file is an inode: writeFile opens the path, which creates   *)
(* or truncates the file, and then writes through the descriptor, wherever *)
(* the file may have been renamed to by then.                              *)
(***************************************************************************)
EXTENDS Naturals, Sequences

CONSTANTS
  Lookups,    \* calls of loadCoreKey, each made once
  Keys,       \* inline DER keys that devices present
  MaxFaults,  \* bound: file system errors and crashes together
  Blank,      \* content of a file that was opened and not yet written
  Mixed,      \* no whole key: a write that failed half-way, or two writers' mixture
  None

ASSUME CoreKeysAssumption ==
  /\ MaxFaults \in Nat
  /\ Blank # Mixed /\ Blank # None /\ Mixed # None
  /\ Keys \cap {Blank, Mixed, None} = {}
  /\ \A k \in Keys : <<"pem", k>> \notin {Blank, Mixed, None}
  /\ None \notin Nat

VARIABLES
  content,     \* the files ever created, by inode number
  canonical,   \* inode of <coreId>.pub.pem, or None
  quarantine,  \* inode of <coreId>_handshake.pub.pem, or None
  pc,          \* where each call is
  inline,      \* inlineDer
  fd,          \* the inode a call's writeFile has open, or None
  result,      \* what the call's promise settled with
  onFile,      \* history: what was quarantined when the call began
  reviewed,    \* the content the operator last saw in the quarantine, or None
  accepted,    \* history: the contents that were reviewed and then promoted
  faults       \* file system errors and crashes so far

fileVars == <<content, canonical, quarantine>>
callVars == <<pc, inline, fd, result, onFile>>
operatorVars == <<reviewed, accepted>>
coreKeysVars == <<fileVars, callVars, operatorVars, faults>>

\* Plausible bug: the key is written as it came.
derToPemRaw(der) == der

\* derToPem: the PEM text of a DER key.
derToPem(der) == <<"pem", der>>

Texts == {<<"pem", k>> : k \in Keys}
Contents == Texts \cup {Blank, Mixed}
Inodes == 1..Len(content)

\* How a call stands: its promise is pending, resolved to null, or rejected.
Pending == <<"pending">>
NoKey == <<"null">>
Threw == <<"threw">>

\* The variables have the types the loader and the file system give them.
CoreKeysTypeOK ==
  /\ content \in Seq(Contents)
  /\ {canonical, quarantine} \subseteq Inodes \cup {None}
  /\ pc \in [Lookups -> {"idle", "read", "access", "open", "write", "done", "lost"}]
  /\ inline \in [Lookups -> Keys \cup {None}]
  /\ fd \in [Lookups -> Inodes \cup {None}]
  /\ result \in [Lookups -> Contents \cup {Pending, NoKey, Threw}]
  /\ onFile \in [Lookups -> Inodes \cup {None}]
  /\ reviewed \in Contents \cup {None}
  /\ accepted \in SUBSET Contents
  /\ faults \in 0..MaxFaults

CoreKeysInit ==
  /\ content = <<>> /\ canonical = None /\ quarantine = None
  /\ pc = [l \in Lookups |-> "idle"]
  /\ inline = [l \in Lookups |-> None]
  /\ fd = [l \in Lookups |-> None]
  /\ result = [l \in Lookups |-> Pending]
  /\ onFile = [l \in Lookups |-> None]
  /\ reviewed = None /\ accepted = {} /\ faults = 0

-----------------------------------------------------------------------------
Goto(l, where) == pc' = [pc EXCEPT ![l] = where]

Settle(l, with) ==
  /\ Goto(l, "done")
  /\ result' = [result EXCEPT ![l] = with]

\* return null
TurnDown(l) == Settle(l, NoKey)

\* One step of a call fails with a file system error, which the call lets through.
Fault == faults < MaxFaults /\ faults' = faults + 1
Reject(l) == Fault /\ Settle(l, Threw)
Throw(l) == Reject(l) /\ UNCHANGED <<fileVars, fd>>

\* loadCoreKey is called; an id that is not 24 hex characters throws at once.
Call(l, valid, der) ==
  /\ pc[l] = "idle"
  /\ inline' = [inline EXCEPT ![l] = der]
  /\ onFile' = [onFile EXCEPT ![l] = quarantine]
  /\ IF valid THEN Goto(l, "read") /\ UNCHANGED result ELSE Settle(l, Threw)
  /\ UNCHANGED <<fileVars, fd, operatorVars, faults>>

\* await readFile(canonical): its text, or on ENOENT on to the quarantine.
ReadCanonical(l) ==
  /\ pc[l] = "read"
  /\ \/ /\ canonical # None
        /\ Settle(l, content[canonical])
        /\ UNCHANGED <<fileVars, fd, faults>>
     \/ /\ canonical = None
        /\ IF inline[l] # None THEN Goto(l, "access") /\ UNCHANGED result
           ELSE TurnDown(l)
        /\ UNCHANGED <<fileVars, fd, faults>>
     \/ Throw(l)
  /\ UNCHANGED <<inline, onFile, operatorVars>>

\* Plausible bug: whether the file exists is not looked at.
OnRecordNever == FALSE

\* Plausible bug: any answer of access() is taken for yes.
OnRecordAlways == TRUE

\* await access(quarantine) succeeds.
OnRecord == quarantine # None

\* await access(quarantine): only if it rejects, for whatever reason, is the key
\* written.
Access(l) ==
  /\ pc[l] = "access"
  /\ \/ /\ OnRecord
        /\ TurnDown(l)
        /\ UNCHANGED faults
     \/ /\ ~OnRecord
        /\ Goto(l, "open")
        /\ UNCHANGED <<result, faults>>
     \/ /\ Fault
        /\ Goto(l, "open")
        /\ UNCHANGED result
  /\ UNCHANGED <<fileVars, inline, fd, onFile, operatorVars>>

\* Plausible bug: the new key goes where accepted keys are.
LinkCanonical(i) == canonical' = i /\ UNCHANGED quarantine

\* The name that writeFile gives a file it creates.
Link(i) == quarantine' = i /\ UNCHANGED canonical

\* writeFile, first half: the file is created, or truncated if it exists by now.
Open(l) ==
  /\ pc[l] = "open"
  /\ \/ /\ Goto(l, "write")
        /\ IF quarantine # None
           THEN /\ content' = [content EXCEPT ![quarantine] = Blank]
                /\ fd' = [fd EXCEPT ![l] = quarantine]
                /\ UNCHANGED <<canonical, quarantine>>
           ELSE /\ content' = Append(content, Blank)
                /\ fd' = [fd EXCEPT ![l] = Len(content) + 1]
                /\ Link(Len(content) + 1)
        /\ UNCHANGED <<result, faults>>
     \/ Throw(l)
  /\ UNCHANGED <<inline, onFile, operatorVars>>

\* writeFile, second half: derToPem's text goes to the open file; over a longer
\* text of another writer it leaves a mixture, and when it fails it may have written
\* a part.
Write(l) ==
  /\ pc[l] = "write"
  /\ \/ /\ TurnDown(l)
        /\ LET text == derToPem(inline[l]) IN
           \E c \in {text} \cup (IF content[fd[l]] \in {Blank, text} THEN {} ELSE {Mixed}) :
             content' = [content EXCEPT ![fd[l]] = c]
        /\ UNCHANGED faults
     \/ /\ Reject(l)
        /\ content' \in {content, [content EXCEPT ![fd[l]] = Mixed]}
  /\ UNCHANGED <<canonical, quarantine, fd, inline, onFile, operatorVars>>

\* The operator (external) looks at the quarantined key, and renames the file.
Review ==
  /\ quarantine # None
  /\ reviewed' = content[quarantine]
  /\ UNCHANGED <<fileVars, callVars, accepted, faults>>

Promote ==
  /\ quarantine # None /\ reviewed \in Texts
  /\ canonical' = quarantine
  /\ quarantine' = None
  /\ accepted' = accepted \cup {reviewed}
  /\ reviewed' = None
  /\ UNCHANGED <<content, callVars, faults>>

\* The process dies: its calls are gone, its files stay as they are.
Crash ==
  /\ Fault
  /\ pc' = [l \in Lookups |-> IF pc[l] \in {"idle", "done"} THEN pc[l] ELSE "lost"]
  /\ UNCHANGED <<fileVars, inline, fd, result, onFile, operatorVars>>

Step(l) == ReadCanonical(l) \/ Access(l) \/ Open(l) \/ Write(l)

CoreKeysNext ==
  \/ \E l \in Lookups :
       \/ \E valid \in BOOLEAN, der \in Keys \cup {None} : Call(l, valid, der)
       \/ Step(l)
  \/ Review
  \/ Promote
  \/ Crash

CoreKeysSpec == CoreKeysInit /\ [][CoreKeysNext]_coreKeysVars
-----------------------------------------------------------------------------
\* All that comes in is one key.
OneKeyPresented ==
  \A l, m \in Lookups : None \in {inline[l], inline[m]} \/ inline[l] = inline[m]

\* The loader fails closed: until the operator has promoted a file, no call
\* resolves to anything but null, however calls, errors and crashes interleave.
FailsClosed ==
  accepted = {} => \A l \in Lookups : result[l] \in {Pending, NoKey, Threw}

\* While the file system reports no error, a call never writes to the file that
\* was already quarantined when it began.
KeptKey ==
  faults = 0 => \A l \in Lookups : fd[l] # None => fd[l] # onFile[l]

\* "If a device presents a key that is not yet on disk, the loader quarantines it"
\* (Usage.md:39): until the operator promotes a key, and while no call is writing, a
\* call that has turned a key down has left its text in the quarantine.
KeyQuarantined ==
  OneKeyPresented /\ accepted = {} /\ (\A m \in Lookups : pc[m] # "write") =>
    \A l \in Lookups : result[l] = NoKey /\ inline[l] # None =>
      quarantine # None /\ content[quarantine] = derToPem(inline[l])

\* It does as long as no file system call fails and no process dies, however the
\* calls race with each other and with the operator.
LeavesEvidence == faults = 0 => KeyQuarantined

\* As long as all that comes in is one key, what a call resolves to is a key the
\* operator looked at and promoted ("acceptance is a deliberate operator action",
\* Implementation.md:11): writes that race with the review and the rename change
\* nothing then.  Different keys in flight at once are another matter.
OneKeyAccepted ==
  OneKeyPresented => \A l \in Lookups : result[l] \in Texts => result[l] \in accepted
=============================================================================
