----------------------------- MODULE Lifecycle -----------------------------
(***************************************************************************)
(* What the gateway promises its host about connections and devices,       *)
(* without handshake stages, sockets, timers, buffers or calls.  A         *)
(* connection opens, may come online as one device, and ends, once and for *)
(* all; its end is reported by exactly one verdict.  The directory only    *)
(* ever names connections that are online as the device they are filed     *)
(* under, but an entry is dropped when any connection of that device ends. *)
(***************************************************************************)
CONSTANTS Sessions, CoreIds, None

VARIABLES
  phase,     \* of each connection
  device,    \* which device it is online as
  directory, \* the connection to use for a device
  verdict    \* how its end was reported

lifecycleVars == <<phase, device, directory, verdict>>

LifecycleInit ==
  /\ phase = [s \in Sessions |-> "absent"]
  /\ device = [s \in Sessions |-> None]
  /\ directory = [d \in CoreIds |-> None]
  /\ verdict = [s \in Sessions |-> None]

Open(s) ==
  /\ phase[s] = "absent"
  /\ phase' = [phase EXCEPT ![s] = "opening"]
  /\ UNCHANGED <<device, directory, verdict>>

\* The connection comes online as d and takes d's entry from an older one.
Online(s, d) ==
  /\ phase[s] = "opening"
  /\ phase' = [phase EXCEPT ![s] = "online"]
  /\ device' = [device EXCEPT ![s] = d]
  /\ directory' = [directory EXCEPT ![d] = s]
  /\ UNCHANGED verdict

\* Every connection of S, none of them ended before, ends.
End(S) ==
  /\ \A s \in S : phase[s] \in {"opening", "online"}
  /\ phase' = [s \in Sessions |-> IF s \in S THEN "gone" ELSE phase[s]]
  /\ verdict' = [s \in Sessions |->
       IF s \notin S THEN verdict[s]
       ELSE IF phase[s] = "online" THEN "disconnected" ELSE "failed"]
  /\ directory' = [d \in CoreIds |->
       IF \E s \in S : device[s] = d THEN None ELSE directory[d]]
  /\ UNCHANGED device

\* The host ends the connection as it is told that it came online as d.
OnlineAndEnd(s, d) ==
  /\ phase[s] = "opening"
  /\ phase' = [phase EXCEPT ![s] = "gone"]
  /\ device' = [device EXCEPT ![s] = d]
  /\ directory' = [directory EXCEPT ![d] = None]
  /\ verdict' = [verdict EXCEPT ![s] = "disconnected"]

LifecycleNext ==
  \/ \E s \in Sessions : Open(s)
  \/ \E s \in Sessions, d \in CoreIds : Online(s, d) \/ OnlineAndEnd(s, d)
  \/ \E S \in SUBSET Sessions : End(S)

LifecycleSpec == LifecycleInit /\ [][LifecycleNext]_lifecycleVars
=============================================================================
