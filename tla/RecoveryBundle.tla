----------------------------- MODULE RecoveryBundle -----------------------------
(* How the recovery bundle of one session is written: immutable references,  *)
(* then copies of the manifest in its history, then the manifest, then the   *)
(* session record that points to it.  Commands of the session overlap, save  *)
(* copies of the record that are old by then, fail and die at every step.    *)
(* What a snapshot says, and what resume makes of it, is in Integration.     *)
EXTENDS Integers, Sequences

CONSTANTS
  Commands,   \* integrate, resume and leading commands; none runs twice
  Attempts,   \* names of bundles: attempt_<time>
  Locals,     \* optional commits that a local recovery notes beside its state
  Depth,      \* how far a manifest is searched back: 100
  MaxManifests,  \* bound on the manifests of a bundle
  None

(* What is assumed of the constants, and named in every theorem.             *)
RecoveryBundleAssumption ==
  /\ Depth \in Nat /\ MaxManifests \in Nat
  /\ None \notin Commands \cup Attempts /\ "object" \notin Locals

VARIABLES
  refs,      \* of each bundle, the immutable references that exist
  log,       \* of each bundle, what manifest.json says, None before it: <<>>
  kept,      \* of each bundle, the manifests retained under manifests/
  used,      \* names of bundles that were taken
  record,    \* where the session record on disk points
  held,      \* where the copy of each command points
  lock,      \* the repository lock
  pc, job,   \* the step of each command, and the record it is writing
  broken     \* history: records that a failure or a death left half written

vars == <<refs, log, kept, used, record, held, lock, pc, job, broken>>
bundle == <<refs, log, kept, used>>

Kind == {"index", "tree", "validation", "staging", "local"}
Part == Locals \cup {"object", "base", "source", "target", "rollout"}
(* A manifest is known by how many were written before it and by whom: its   *)
(* hash.  One that was not published shares neither with a later one, for    *)
(* its command ends.                                                         *)
Id == (Nat \ {0}) \X Commands
Name == [kind : Kind \cup {"open"}, sequence : Nat, part : Part]
Entry == [kind : Kind \cup {"open", "archive"}, sequence : Nat, parts : SUBSET Part,
          by : Commands, previous : Id \cup {None}]
Pointer == [attempt : Attempts \cup {None}, manifest : Id \cup {None}, archived : BOOLEAN]
Job == [attempt : Attempts \cup {None}, kind : Kind \cup {"open", "archive"},
        sequence : Nat, parts : SUBSET Part, todo : SUBSET Part]
Nowhere == [attempt |-> None, manifest |-> None, archived |-> FALSE]
NoJob == [attempt |-> None, kind |-> "open", sequence |-> 0, parts |-> {}, todo |-> {}]

Writing == {"refs", "publish"}
Inside == {"locked", "verified"} \cup Writing
Steps == {"idle", "read", "wait", "late", "end"} \cup Inside

TypeOK ==
  /\ refs \in [Attempts -> SUBSET Name] /\ log \in [Attempts -> Seq(Entry)]
  /\ kept \in [Attempts -> SUBSET Id] /\ used \subseteq Attempts
  /\ record \in Pointer /\ held \in [Commands -> Pointer]
  /\ lock \in Commands \cup {None} /\ pc \in [Commands -> Steps]
  /\ job \in [Commands -> Job]
  /\ broken \subseteq [attempt : Attempts, kind : Kind \cup {"open", "archive"}, sequence : Nat]

Init ==
  /\ refs = [a \in Attempts |-> {}] /\ log = [a \in Attempts |-> <<>>]
  /\ kept = [a \in Attempts |-> {}] /\ used = {}
  /\ record = Nowhere /\ held = [c \in Commands |-> Nowhere]
  /\ lock = None /\ pc = [c \in Commands |-> "idle"]
  /\ job = [c \in Commands |-> NoJob] /\ broken = {}

Goto(c, from, to) == pc[c] = from /\ pc' = [pc EXCEPT ![c] = to]
IdAt(a, n) == <<n, log[a][n].by>>
Current(a) == IdAt(a, Len(log[a]))
Size(a) == log[a][Len(log[a])].sequence

-----------------------------------------------------------------------------
(* A command reads the record, saves it as waiting for the lock, and when it *)
(* has the lock reads it again (integrate) or saves its copy again (resume). *)
Read(c) ==
  /\ Goto(c, "idle", "read") /\ held' = [held EXCEPT ![c] = record]
  /\ UNCHANGED <<bundle, record, lock, job, broken>>

Wait(c) ==
  /\ Goto(c, "read", "wait") /\ record' = held[c]
  /\ UNCHANGED <<bundle, held, lock, job, broken>>

TakeLock(c) ==
  /\ Goto(c, "wait", "locked") /\ lock = None /\ lock' = c
  /\ \/ held' = [held EXCEPT ![c] = record] /\ UNCHANGED record
     \/ record' = held[c] /\ UNCHANGED held
  /\ UNCHANGED <<bundle, job, broken>>

SaveRecord(c) ==
  /\ pc[c] = "locked" /\ record' = held[c]
  /\ UNCHANGED <<bundle, held, lock, pc, job, broken>>

-----------------------------------------------------------------------------
(* readVerifiedManifest.  A record that is behind is repaired when its hash  *)
(* is found among the retained manifests, each linked to the one before, and *)
(* the evidence holds the state of a local recovery.                         *)
Found(a, id) ==
  \E d \in 0 .. Depth - 1 :
    /\ d < Len(log[a]) /\ id = IdAt(a, Len(log[a]) - d)
    /\ \A n \in Len(log[a]) - d + 1 .. Len(log[a]) :
         IdAt(a, n) \in kept[a] /\ log[a][n].previous = IdAt(a, n - 1)
HasLocal(a) == \E n \in 1 .. Len(log[a]) : log[a][n].kind = "local"
Accepts(p) ==
  /\ log[p.attempt] # <<>>
  /\ \/ p.manifest = Current(p.attempt)
     \/ Found(p.attempt, p.manifest) /\ HasLocal(p.attempt)

Verify(c) ==
  /\ Goto(c, "locked", "verified") /\ held[c].attempt # None /\ Accepts(held[c])
  /\ held' = [held EXCEPT ![c].manifest = Current(held[c].attempt)]
  /\ UNCHANGED <<bundle, record, lock, job, broken>>

(* A step throws: the copy is saved, the lock released, and the copy saved   *)
(* again when the incident has been investigated.                            *)
Leave(c, left) ==
  /\ pc' = [pc EXCEPT ![c] = "late"] /\ lock' = None /\ record' = held[c]
  /\ broken' = broken \cup left
  /\ UNCHANGED <<bundle, held, job>>
Unfinished(c) ==
  IF pc[c] \in Writing
  THEN {[attempt |-> job[c].attempt, kind |-> job[c].kind, sequence |-> job[c].sequence]}
  ELSE {}

Mismatch(c) ==
  pc[c] = "locked" /\ held[c].attempt # None /\ ~Accepts(held[c]) /\ Leave(c, {})
Fail(c) == pc[c] \in Inside /\ Leave(c, Unfinished(c))

SaveLate(c) ==
  /\ Goto(c, "late", "end") /\ record' = held[c]
  /\ UNCHANGED <<bundle, held, lock, job, broken>>

-----------------------------------------------------------------------------
(* A record of any kind: what it names, then the manifest with one more      *)
(* snapshot.  The first manifest is written the same way.                    *)
Start(c, j) ==
  /\ pc' = [pc EXCEPT ![c] = "refs"] /\ job' = [job EXCEPT ![c] = j]
  /\ UNCHANGED <<refs, log, kept, record, held, lock, broken>>

EnsureRecoveryBundle(c) ==
  /\ pc[c] = "locked" /\ held[c].attempt = None
  /\ \E a \in Attempts \ used :
       LET parts == {"base", "source", "target", "rollout"}
       IN /\ used' = used \cup {a}
          /\ Start(c, [attempt |-> a, kind |-> "open", sequence |-> 0, parts |-> parts,
                       todo |-> parts])

Append1(c, kind, parts) ==
  /\ pc[c] = "verified" /\ Len(log[held[c].attempt]) < MaxManifests
  /\ Start(c, [attempt |-> held[c].attempt, kind |-> kind,
               sequence |-> Size(held[c].attempt) + 1, parts |-> parts, todo |-> parts])
  /\ UNCHANGED used

SnapshotRecoveryState(c) == \E kind \in {"index", "tree"} : Append1(c, kind, {"object"})
RecordValidationRecovery(c) == Append1(c, "validation", {"object"})
RecordStagingCommitRecovery(c) == Append1(c, "staging", {"object"})
RecordLocalTargetRecovery(c) ==
  \E some \in SUBSET Locals : Append1(c, "local", some \cup {"object"})
ArchiveRecoveryBundle(c) ==
  /\ pc[c] = "verified" /\ Len(log[held[c].attempt]) < MaxManifests /\ ~held[c].archived
  /\ Start(c, [attempt |-> held[c].attempt, kind |-> "archive",
               sequence |-> Size(held[c].attempt), parts |-> {}, todo |-> {}])
  /\ UNCHANGED used

NameOf(j, part) == [kind |-> j.kind, sequence |-> j.sequence, part |-> part]

(* The object of a local recovery comes after its optional commits.          *)
CreateImmutableRef(c) ==
  /\ pc[c] = "refs"
  /\ \E part \in job[c].todo :
       /\ part = "object" => job[c].todo = {"object"}
       /\ NameOf(job[c], part) \notin refs[job[c].attempt]
       /\ refs' = [refs EXCEPT ![job[c].attempt] = @ \cup {NameOf(job[c], part)}]
       /\ job' = [job EXCEPT ![c].todo = @ \ {part}]
  /\ UNCHANGED <<log, kept, used, record, held, lock, pc, broken>>

RefExists(c) ==
  /\ pc[c] = "refs"
  /\ \E part \in job[c].todo : NameOf(job[c], part) \in refs[job[c].attempt]
  /\ Leave(c, Unfinished(c))

(* writeManifest: copies of the manifest there is and of the new one.        *)
KeepManifests(c) ==
  /\ Goto(c, "refs", "publish") /\ job[c].todo = {}
  /\ LET a == job[c].attempt
     IN kept' = [kept EXCEPT ![a] =
          @ \cup {<<Len(log[a]) + 1, c>>} \cup (IF log[a] = <<>> THEN {} ELSE {Current(a)})]
  /\ UNCHANGED <<refs, log, used, record, held, lock, job, broken>>

(* Its replacement, after which the copy of the command points to it.        *)
PublishManifest(c) ==
  LET j == job[c]
      a == j.attempt
  IN /\ Goto(c, "publish", "locked")
     /\ log' = [log EXCEPT ![a] = Append(@,
          [kind |-> j.kind, sequence |-> j.sequence, parts |-> j.parts, by |-> c,
           previous |-> held[c].manifest])]
     /\ held' = [held EXCEPT ![c] = [attempt |-> a, manifest |-> <<Len(log[a]) + 1, c>>,
                                     archived |-> @.archived \/ j.kind = "archive"]]
     /\ UNCHANGED <<refs, kept, used, record, lock, job, broken>>

(* A death; the lock it leaves is removed by hand.                           *)
Die(c) ==
  /\ pc[c] \notin {"idle", "end"} /\ pc' = [pc EXCEPT ![c] = "end"]
  /\ lock' = IF lock = c THEN None ELSE lock
  /\ broken' = broken \cup Unfinished(c)
  /\ UNCHANGED <<bundle, record, held, job>>

Next == \E c \in Commands :
  \/ Read(c) \/ Wait(c) \/ TakeLock(c) \/ SaveRecord(c) \/ Verify(c) \/ Mismatch(c)
  \/ Fail(c) \/ SaveLate(c) \/ EnsureRecoveryBundle(c) \/ SnapshotRecoveryState(c)
  \/ RecordValidationRecovery(c) \/ RecordStagingCommitRecovery(c)
  \/ RecordLocalTargetRecovery(c) \/ ArchiveRecoveryBundle(c) \/ CreateImmutableRef(c)
  \/ RefExists(c) \/ KeepManifests(c) \/ PublishManifest(c) \/ Die(c)

Spec == Init /\ [][Next]_vars

-----------------------------------------------------------------------------
(* Evidence kept: every manifest that was ever published is retained, linked *)
(* to the one before it, and all that it names exists (appendSnapshot).      *)
EvidenceKept ==
  \A a \in Attempts : \A n \in 1 .. Len(log[a]) :
    /\ IdAt(a, n) \in kept[a]
    /\ n > 1 => log[a][n].previous = IdAt(a, n - 1)
    /\ \A part \in log[a][n].parts : NameOf(log[a][n], part) \in refs[a]

(* A pointer, on disk or in a copy that may be saved, is at most behind: it  *)
(* names a manifest that was published.                                      *)
Behind(p) ==
  p.attempt # None => \E n \in 1 .. Len(log[p.attempt]) : p.manifest = IdAt(p.attempt, n)
PointerBehind == Behind(record) /\ \A c \in Commands : Behind(held[c])

(* What verification refuses is a pointer behind the manifest, with no local *)
(* recovery to repair it from or too far behind: without tampering there is  *)
(* no other mismatch (readVerifiedManifest).                                 *)
MismatchOnlyBehind ==
  \A c \in Commands : pc[c] = "locked" /\ held[c].attempt # None /\ ~Accepts(held[c]) =>
    LET a == held[c].attempt
    IN \E n \in 1 .. Len(log[a]) - 1 :
         /\ held[c].manifest = IdAt(a, n)
         /\ ~HasLocal(a) \/ Len(log[a]) - n >= Depth

(* A reference is in the way of a record only if a command failed or died    *)
(* while it wrote the same record before: commands that overlap, and copies  *)
(* saved late, never make two records take one name (createImmutableRef).    *)
RefusedOnlyAfterBreak ==
  \A c \in Commands : pc[c] = "refs" =>
    \A part \in job[c].todo : NameOf(job[c], part) \in refs[job[c].attempt] =>
      [attempt |-> job[c].attempt, kind |-> job[c].kind, sequence |-> job[c].sequence]
        \in broken
=============================================================================
