----------------------------- MODULE Configuration -----------------------------
(* config.json, the file it includes, and those who change them: register,    *)
(* enable and disable, the Settings form and the JSON tab of the dashboard    *)
(* save under the configuration lock, and under the lock of a repository      *)
(* where they change what an integration of it relies on. Forms are open for  *)
(* long without any lock, people edit the file by hand, the included file     *)
(* comes and goes, and commands die.                                          *)
(*                                                                            *)
(* A text of config.json is a function of what can be set: lockWaitSeconds,   *)
(* defaultTargetBranch, the registrations and the disabled repositories.      *)
EXTENDS Naturals, Sequences

CONSTANTS
  Tools,        \* processes, and pages of the dashboard
  Repos,
  Includes,     \* what the included file may provide
  HistoryLimit, \* configHistoryLimit
  MaxCommands, MaxEdits, MaxCrashes,   \* bounds: commands; edits by hand and
                \* changes of the included file's health; deaths
  None

ASSUME ConfigurationAssumption ==
  /\ HistoryLimit \in Nat \ {0} /\ MaxCommands \in Nat /\ MaxEdits \in Nat /\ MaxCrashes \in Nat
  /\ None \notin Repos \cup Tools

Wait == <<None, "lockWaitSeconds">>
Target == <<None, "defaultTargetBranch">>
Reg(r) == <<r, "registration">>
Off(r) == <<r, "disabled">>
Key == {Wait, Target} \cup {Reg(r) : r \in Repos} \cup {Off(r) : r \in Repos}

DefaultWait == 900
Staging == "staging"   \* the integrationBranch of every registration
Registration == [target : {None, "dev"}, setup : {"none", "detected"}]
Values(k) ==
  CASE k = Wait -> {None, DefaultWait, 5, 60}
    [] k = Target -> {None, "dev", Staging}
    [] k \in {Reg(r) : r \in Repos} -> Registration \cup {None}
    [] OTHER -> BOOLEAN
ASSUME IncludesAssumption ==
  \A i \in Includes :
    i.repos \subseteq Repos /\ \A k \in {Wait, Target} : i.settings[k] \in Values(k)
IsText(t) == DOMAIN t = Key /\ \A k \in Key : t[k] \in Values(k)

DefaultText == [k \in Key |-> IF k = Wait THEN DefaultWait
                              ELSE IF k \in {Off(r) : r \in Repos} THEN FALSE ELSE None]

NoRequest == [kind |-> "none", repo |-> None, shown |-> DefaultText, value |-> DefaultText]

VARIABLES
  file,       \* the text of config.json
  history,    \* the texts in config-history, oldest first
  include,    \* what the included file provides: settings, registrations
  readable,   \* can it be read now
  pc, req,    \* what each tool does, and for whom
  copy,       \* the text it is about to save
  lock, repo, \* who holds the configuration lock, the repository locks
  commands, edits, crashes,   \* bounded counters
  want        \* history: the value somebody last asked for, key by key

vars == <<file, history, include, readable, pc, req, copy, lock, repo,
          commands, edits, crashes, want>>
world == <<include, readable>>
counters == <<commands, edits, crashes>>

Merge(t, from, keys) == [k \in Key |-> IF k \in keys THEN from[k] ELSE t[k]]
Changed(a, b) == {k \in Key : a[k] # b[k]}
Registered(t) == {r \in Repos : t[Reg(r)] # None}

Init ==
  /\ include \in Includes /\ readable = TRUE
  /\ file \in {DefaultText} \cup
       {[DefaultText EXCEPT ![Wait] = None,
                            ![Reg(r)] = [target |-> None, setup |-> "none"]] : r \in Repos}
  /\ history = <<>> /\ want = file
  /\ pc = [p \in Tools |-> "idle"] /\ copy = [p \in Tools |-> DefaultText]
  /\ req = [p \in Tools |-> NoRequest]
  /\ lock = None /\ repo = [r \in Repos |-> None]
  /\ commands = 0 /\ edits = 0 /\ crashes = 0

------------------------------------------------------------------------------
(* What a text means                                                         *)

(* validateConfig: a staging branch must not be the target by default.       *)
Valid(t) == \A r \in Registered(t) : t[Reg(r)].target = None => t[Target] # Staging

(* loadConfigIncludes: a setting of the file wins over an included one.      *)
(* A fault of one entry, of the file's text or of a placeholder in it makes  *)
(* the whole include count as missing.                                       *)
IncludeRead == readable
Included(t) == {k \in {Wait, Target} : IncludeRead /\ t[k] = None /\ include.settings[k] # None}
Effective(t) == [k \in Key |-> IF k \in Included(t) THEN include.settings[k] ELSE t[k]]
Filled(t) == [t EXCEPT ![Wait] = IF @ = None THEN DefaultWait ELSE @]

(* readConfig throws unless the local registrations are valid.               *)
Loads(t) == Valid(Effective(t))
(* applyConfigIncludes: the registrations of an include stand or fall together. *)
Fails(t) == ~IncludeRead \/ (include.repos # {} /\ Effective(t)[Target] = Staging)
Provided(t) == IF Fails(t) THEN {} ELSE include.repos \ Registered(t)

(* localConfig: what was included and not changed is not written.            *)
LocalText(t, config) ==
  Merge(config, t, {k \in Included(t) : config[k] = include.settings[k]})

------------------------------------------------------------------------------
(* Commands and saves                                                        *)

Go(p, step) == pc' = [pc EXCEPT ![p] = step]
End(p) ==
  /\ Go(p, "idle") /\ copy' = [copy EXCEPT ![p] = DefaultText] /\ req' = [req EXCEPT ![p] = NoRequest]
  /\ lock' = IF lock = p THEN None ELSE lock
  /\ repo' = [r \in Repos |-> IF repo[r] = p THEN None ELSE repo[r]]

(* withConfigLock gives up after five seconds.                               *)
Start(p, kind, r) ==
  /\ pc[p] = "idle" /\ commands < MaxCommands /\ commands' = commands + 1
  /\ IF kind \in {"form", "global", "json"}
     THEN Go(p, "open") /\ req' = [req EXCEPT ![p] = [kind |-> kind, repo |-> r, shown |-> file, value |-> file]]
     ELSE Go(p, "lock") /\ req' = [req EXCEPT ![p].kind = kind, ![p].repo = r]
  /\ kind \in {"form", "global"} => Valid(file)
  /\ kind = "form" => r \in Registered(file)
  /\ UNCHANGED <<file, history, world, copy, lock, repo, edits, crashes, want>>

Lock(p) ==
  /\ pc[p] = "lock" /\ lock = None /\ lock' = p /\ Go(p, "decide")
  /\ UNCHANGED <<file, history, world, req, copy, repo, counters, want>>
GiveUp(p) ==
  /\ pc[p] = "lock" /\ lock # None /\ End(p)
  /\ UNCHANGED <<file, history, world, counters, want>>

(* acquireRepoLock with no wait, for each of them: all or none.              *)
Free(rs) == \A r \in rs : repo[r] = None
Hold(p, rs) == repo' = [r \in Repos |-> IF r \in rs THEN p ELSE repo[r]]

Refuse(p) == End(p) /\ UNCHANGED <<file, history, world, counters, want>>
Save(p, text, rs) ==
  /\ copy' = [copy EXCEPT ![p] = text] /\ Hold(p, rs) /\ Go(p, "keep")
  /\ UNCHANGED <<file, history, world, req, lock, counters, want>>
SaveUnderLocks(p, text, rs) == IF Free(rs) THEN Save(p, text, rs) ELSE Refuse(p)

(* register --auto-config: no repository lock is taken.                      *)
WouldReplaceNever(r) == FALSE
WouldReplace(r) == Fails(file)
Detected(t, r) ==
  [t EXCEPT ![Reg(r)] = IF @ = None THEN [target |-> None, setup |-> "detected"]
                        ELSE [@ EXCEPT !.setup = "detected"]]
Register(p) ==
  LET r == req[p].repo
      config == Filled(Effective(file))
  IN /\ pc[p] = "decide" /\ req[p].kind = "register"
     /\ IF ~Loads(file) \/ r \in Provided(file) \/ (r \notin Registered(file) /\ WouldReplace(r))
        THEN Refuse(p) ELSE Save(p, LocalText(file, Detected(config, r)), {})

Enablement(p) ==
  LET r == req[p].repo
  IN /\ pc[p] = "decide" /\ req[p].kind \in {"enable", "disable"}
     /\ IF ~Loads(file) THEN Refuse(p)
        ELSE SaveUnderLocks(p, [file EXCEPT ![Off(r)] = req[p].kind = "disable"], {r})

------------------------------------------------------------------------------
(* The dashboard                                                             *)

(* The keys a form or the JSON tab can change.                               *)
Scope(kind, r) ==
  CASE kind = "global" -> {Wait, Target}
    [] kind = "form" -> {Reg(r), Off(r)}
    [] OTHER -> Key
Settings(k, v) ==
  CASE k = Wait -> {DefaultWait, 5}
    [] k = Target -> {None, Staging}
    [] k \in {Off(r) : r \in Repos} -> BOOLEAN
    [] OTHER -> IF v = None THEN {None} ELSE {[v EXCEPT !.target = b] : b \in {None, "dev"}}

(* Somebody changes one value of what the page has loaded, and saves.        *)
Shown(q) == IF q.kind = "json" THEN q.shown ELSE Filled(q.shown)
Submit(p) ==
  /\ pc[p] = "open" /\ Go(p, "lock")
  /\ \E k \in Scope(req[p].kind, req[p].repo) : \E v \in Settings(k, req[p].shown[k]) :
       req' = [req EXCEPT ![p].value = [Shown(req[p]) EXCEPT ![k] = v]]
  /\ UNCHANGED <<file, history, world, copy, lock, repo, counters, want>>
Discard(p) == pc[p] = "open" /\ Refuse(p)

(* assertCurrent                                                             *)
CurrentAnyway(q) == TRUE
Current(q) == q.shown = file

(* applySettings: only what differs from the stored values.                  *)
FormText(q) ==
  Merge(file, q.value, Changed(Filled(file), q.value) \cap Scope(q.kind, q.repo))
SaveSettings(p) ==
  LET wish == req[p]
      next == FormText(wish)
  IN /\ pc[p] = "decide" /\ wish.kind \in {"form", "global"}
     /\ IF ~Current(wish) \/ ~Valid(next) \/ next = file
        THEN Refuse(p)
        ELSE SaveUnderLocks(p, next, IF wish.kind = "form" THEN {wish.repo} ELSE {})

(* saveSettingsJson: the entries that change are locked, all when repairing. *)
Touched(next) ==
  {r \in Registered(next) : ~Valid(file) \/ Changed(file, next) \cap {Reg(r), Off(r)} # {}}
SaveSettingsJson(p) ==
  LET next == req[p].value
  IN /\ pc[p] = "decide" /\ req[p].kind = "json"
     /\ IF \/ ~Current(req[p]) \/ ~Valid(next) \/ next = file
           \/ Valid(file) /\ Registered(next) # Registered(file)
        THEN Refuse(p)
        ELSE SaveUnderLocks(p, next, Touched(next))

------------------------------------------------------------------------------
(* writeConfigFile: the text that is replaced is kept first                  *)

KeptNew(p) == copy[p]
Kept(p) == file
Keep(p) ==
  LET room == HistoryLimit - 1
      recent == IF Len(history) > room THEN SubSeq(history, Len(history) - room + 1, Len(history)) ELSE history
  IN /\ pc[p] = "keep" /\ Go(p, "write")
     /\ history' = IF copy[p] = file THEN history ELSE Append(recent, Kept(p))
     /\ UNCHANGED <<file, world, req, copy, lock, repo, counters, want>>

(* What the command was asked to change, as its caller saw it.               *)
Asked(p) ==
  LET wish == req[p]
  IN CASE wish.kind = "register" -> {Reg(wish.repo)}
       [] wish.kind \in {"enable", "disable"} -> {Off(wish.repo)}
       [] OTHER -> Changed(Shown(wish), wish.value)
Replace(p) ==
  /\ pc[p] = "write" /\ file' = copy[p] /\ want' = Merge(want, copy[p], Asked(p))
  /\ Go(p, "unlock") /\ req' = [req EXCEPT ![p] = NoRequest] /\ copy' = [copy EXCEPT ![p] = DefaultText]
  /\ UNCHANGED <<history, world, lock, repo, counters>>
Unlock(p) == pc[p] = "unlock" /\ Refuse(p)

------------------------------------------------------------------------------
(* integrate: enabled when it starts, and when it has waited for the lock    *)

Enabled(r) == Loads(file) /\ ~file[Off(r)]
Known(r) == r \in Registered(file) \cup Provided(file)
StartIntegrate(p) ==
  /\ pc[p] = "idle" /\ commands < MaxCommands /\ commands' = commands + 1
  /\ \E r \in Repos : /\ Known(r) /\ Enabled(r)
                      /\ req' = [req EXCEPT ![p].kind = "integrate", ![p].repo = r]
  /\ Go(p, "wait")
  /\ UNCHANGED <<file, history, world, copy, lock, repo, edits, crashes, want>>
TakeRepo(p) ==
  /\ pc[p] = "wait" /\ Free({req[p].repo}) /\ Hold(p, {req[p].repo}) /\ Go(p, "check")
  /\ UNCHANGED <<file, history, world, req, copy, lock, counters, want>>
StillEnabledUnread(r) == TRUE
StillEnabled(r) == Enabled(r)
Check(p) ==
  /\ pc[p] = "check"
  /\ IF StillEnabled(req[p].repo)
     THEN Go(p, "run") /\ UNCHANGED <<file, history, world, req, copy, lock, repo, counters, want>>
     ELSE Refuse(p)
Finish(p) == pc[p] \in {"wait", "run"} /\ Refuse(p)

------------------------------------------------------------------------------
(* Around them                                                               *)

Die(p) ==
  /\ pc[p] \notin {"idle", "dead"} /\ crashes < MaxCrashes /\ crashes' = crashes + 1 /\ Go(p, "dead")
  /\ copy' = [copy EXCEPT ![p] = DefaultText] /\ req' = [req EXCEPT ![p] = NoRequest]
  /\ UNCHANGED <<file, history, world, lock, repo, commands, edits, want>>
RemoveLeftover(p) == pc[p] = "dead" /\ Refuse(p)

(* By hand: a value, or a registration that goes; not in the moments of a    *)
(* save, which replaces the file whatever it holds, and not what integrate   *)
(* checks once.                                                              *)
EditByHand ==
  /\ edits < MaxEdits /\ edits' = edits + 1
  /\ \A p \in Tools : pc[p] \notin {"keep", "write"}
  /\ \E k \in Key \ {Off(r) : r \in Repos} : \E v \in Settings(k, file[k]) \cup {None} :
       file' = [file EXCEPT ![k] = v] /\ want' = [want EXCEPT ![k] = v]
  /\ UNCHANGED <<history, world, pc, req, copy, lock, repo, commands, crashes>>
IncludeChanges ==
  /\ edits < MaxEdits /\ edits' = edits + 1 /\ readable' = ~readable
  /\ UNCHANGED <<file, history, include, pc, req, copy, lock, repo, commands, crashes, want>>

Next ==
  \/ \E p \in Tools :
       \/ \E r \in Repos : \E kind \in {"register", "enable", "disable", "form"} : Start(p, kind, r)
       \/ \E kind \in {"global", "json"} : Start(p, kind, None)
       \/ Lock(p) \/ GiveUp(p) \/ Register(p) \/ Enablement(p)
       \/ Submit(p) \/ Discard(p) \/ SaveSettings(p) \/ SaveSettingsJson(p)
       \/ Keep(p) \/ Replace(p) \/ Unlock(p)
       \/ StartIntegrate(p) \/ TakeRepo(p) \/ Check(p) \/ Finish(p)
       \/ Die(p) \/ RemoveLeftover(p)
  \/ EditByHand \/ IncludeChanges

Spec == Init /\ [][Next]_vars

------------------------------------------------------------------------------
(* Properties                                                                *)

TypeOK ==
  /\ IsText(file) /\ IsText(want)
  /\ Len(history) <= HistoryLimit /\ \A i \in DOMAIN history : IsText(history[i])
  /\ include \in Includes /\ readable \in BOOLEAN
  /\ \A p \in Tools : IsText(copy[p]) /\ IsText(req[p].shown) /\ IsText(req[p].value)
  /\ lock \in Tools \cup {None} /\ repo \in [Repos -> Tools \cup {None}]

(* Every value is the one somebody last asked for: no save undoes another's, *)
(* or copies an included value. Only a default may be written out.           *)
AcceptedStays ==
  \A k \in Key : \/ file[k] = want[k]
                 \/ k = Wait /\ want[k] = None /\ file[k] = DefaultWait

(* Lifecycle commands work only in enabled repositories: neither disable nor *)
(* the dashboard changes that while an integration runs, and one that waited *)
(* for the lock meanwhile stops. Not so where the registration is included:  *)
(* the JSON tab disables such a repository without its lock (README).        *)
QuietWhenDisabled ==
  [][\A p \in Tools :
       LET r == req'[p].repo
       IN pc'[p] = "run" /\ r \in Registered(file) /\ file'[Off(r)]
            => pc[p] = "run" /\ file[Off(r)]]_vars

(* A text that a tool replaces is in the history.                            *)
ReplacedIsKept ==
  [][\A p \in Tools : pc[p] = "write" /\ pc'[p] = "unlock" /\ file' # file
       => \E i \in DOMAIN history : history[i] = file]_vars

(* A registration that an include provides, or will again once it can be     *)
(* read, is never replaced by one that register adds.                        *)
NoSilentReplacement ==
  [][\A r \in include.repos : file[Reg(r)] = None => file'[Reg(r)] = None]_vars

(* Not so: commands stop loading config.json when an included target is the  *)
(* staging branch of a local registration, and after a register that makes   *)
(* defaultTargetBranch one (README).                                         *)
KeepsLoading == [][edits' = edits /\ Loads(file) => Loads(file')]_vars
===============================================================================
