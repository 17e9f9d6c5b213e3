---------------------------- MODULE AdmissionGate ----------------------------
(***************************************************************************)
(* The admission mutex of the build queue (gate in build-queue.ts): a      *)
(* loopback listener the operating system closes when its process ends.    *)
(*                                                                         *)
(* Coordinators of this version listen on a current port and, to exclude   *)
(* older pinned coordinators, which know only the legacy port, on that one *)
(* too.  A legacy port that refuses a listener and has none is taken to be *)
(* occupied by a socket that stops older coordinators as well: it is       *)
(* skipped.                                                                *)
(***************************************************************************)
EXTENDS Naturals

CONSTANTS Current,   \* coordinators of this version
          Old,       \* older pinned coordinators (external)
          OldTurns,  \* how often an old coordinator takes its mutex
          Sockets,   \* how often another program occupies the legacy port
          None, Socket

(* What is assumed of the constants, and named in every theorem.           *)
GateAssumption ==
  /\ Current \cap Old = {}
  /\ {None, Socket} \cap (Current \cup Old) = {} /\ None # Socket
  /\ OldTurns \in Nat /\ Sockets \in Nat

VARIABLES port,     \* who listens on the current port
          legacy,   \* who listens on (or occupies) the legacy port
          pc,       \* the step of each coordinator
          turns,    \* old mutexes taken so far
          opened    \* sockets opened on the legacy port so far

vars == <<port, legacy, pc, turns, opened>>

(* The two listen attempts of holdLegacy and the probe after each; "bare":  *)
(* inside the gate without the legacy port.                                *)
Steps == {"idle", "listen1", "probe1", "listen2", "probe2", "busy", "inside",
          "bare", "leaving"}

TypeOK == /\ port \in Current \cup {None}
          /\ legacy \in Current \cup Old \cup {None, Socket}
          /\ pc \in [Current \cup Old -> Steps]
          /\ turns \in 0..OldTurns
          /\ opened \in 0..Sockets

Init == /\ port = None
        /\ legacy = None
        /\ pc = [c \in Current \cup Old |-> "idle"]
        /\ turns = 0
        /\ opened = 0

Goto(c, from, to) == pc[c] = from /\ pc' = [pc EXCEPT ![c] = to]

(* listen(port); a coordinator that finds it in use polls again.           *)
Listen(c) ==
  /\ Goto(c, "idle", "listen1")
  /\ port = None
  /\ port' = c
  /\ UNCHANGED <<legacy, turns, opened>>

(* holdLegacy: listen on the legacy port ...                               *)
HoldLegacy(c) ==
  /\ pc[c] \in {"listen1", "listen2"}
  /\ IF legacy = None
     THEN /\ legacy' = c
          /\ pc' = [pc EXCEPT ![c] = "inside"]
     ELSE /\ pc' = [pc EXCEPT ![c] = IF pc[c] = "listen1" THEN "probe1"
                                                          ELSE "probe2"]
          /\ UNCHANGED legacy
  /\ UNCHANGED <<port, turns, opened>>

(* ... and if that fails probe it.  Any listener there is waited for; a    *)
(* refused connection leads to the second attempt and then to the gate.    *)
Probe(c) ==
  /\ pc[c] \in {"probe1", "probe2"}
  /\ pc' = [pc EXCEPT ![c] =
       IF legacy \in Current \cup Old THEN "busy"
       ELSE IF pc[c] = "probe1" THEN "listen2" ELSE "bare"]
  /\ UNCHANGED <<port, legacy, turns, opened>>

(* Give the current port back before the next round.                       *)
BackOff(c) ==
  /\ Goto(c, "busy", "idle")
  /\ port' = None
  /\ UNCHANGED <<legacy, turns, opened>>

(* The cleanup closes the legacy listener, then the current one.           *)
CloseLegacy(c) ==
  /\ \/ Goto(c, "inside", "leaving") /\ legacy' = None
     \/ Goto(c, "bare", "leaving") /\ UNCHANGED legacy
  /\ UNCHANGED <<port, turns, opened>>

Close(c) ==
  /\ Goto(c, "leaving", "idle")
  /\ port' = None
  /\ UNCHANGED <<legacy, turns, opened>>

(* The process ends and the system closes its listeners.                   *)
Kill(c) ==
  /\ pc[c] # "idle"
  /\ pc' = [pc EXCEPT ![c] = "idle"]
  /\ port' = IF port = c THEN None ELSE port
  /\ legacy' = IF legacy = c THEN None ELSE legacy
  /\ UNCHANGED <<turns, opened>>

OldEnter(o) ==
  /\ Goto(o, "idle", "inside")
  /\ legacy = None
  /\ turns < OldTurns
  /\ legacy' = o
  /\ turns' = turns + 1
  /\ UNCHANGED <<port, opened>>

OldLeave(o) ==
  /\ Goto(o, "inside", "idle")
  /\ legacy' = None
  /\ UNCHANGED <<port, turns, opened>>

(* An outbound connection or TIME_WAIT takes the legacy port and goes.     *)
SocketOpens ==
  /\ legacy = None
  /\ opened < Sockets
  /\ legacy' = Socket
  /\ opened' = opened + 1
  /\ UNCHANGED <<port, pc, turns>>

SocketCloses ==
  /\ legacy = Socket
  /\ legacy' = None
  /\ UNCHANGED <<port, pc, turns, opened>>

CurrentStep(c) == \/ Listen(c) \/ HoldLegacy(c) \/ Probe(c) \/ BackOff(c)
                  \/ CloseLegacy(c) \/ Close(c) \/ Kill(c)

Next == \/ \E c \in Current : CurrentStep(c)
        \/ \E o \in Old : OldEnter(o) \/ OldLeave(o)
        \/ SocketOpens \/ SocketCloses

Spec == Init /\ [][Next]_vars

-----------------------------------------------------------------------------
(* admissionPorts: the ports of a queue, from the hash of its directory;   *)
(* reuse: those of the mutex of the validation reuse.                      *)
AdmissionPort(hash, reuse) == (IF reuse THEN 15000 ELSE 10000) + (hash % 5000)
LegacyPort(hash, reuse) == IF reuse THEN 50000 + (hash % 15000)
                           ELSE 20000 + (hash % 30000)

Admitting(c) == pc[c] \in {"inside", "bare"}

(* Two coordinators of this version are never inside the gate together,    *)
(* whichever of them is killed at whatever step.                           *)
CurrentExclusion ==
  \A c, d \in Current : Admitting(c) /\ Admitting(d) => c = d

(* "A port collision only delays/fails admission; it cannot over-admit     *)
(* work": an old and a current coordinator are never inside together.      *)
MixedExclusion ==
  \A c \in Current, o \in Old : ~(Admitting(c) /\ pc[o] = "inside")
==============================================================================
