------------------------- MODULE ConfigurationProofs -------------------------
(***************************************************************************)
(* Proofs about Configuration for any tools, repositories and included     *)
(* files, and any number of commands, edits and deaths.                    *)
(***************************************************************************)
EXTENDS Configuration, Integers, SequenceTheorems, TLAPS

(* Texts of config.json, as a set.                                         *)
Text == {t \in [Key -> UNION {Values(k) : k \in Key}] : \A k \in Key : t[k] \in Values(k)}

Kinds == {"none", "form", "global", "json", "register", "enable", "disable", "integrate"}
Request == [kind : Kinds, repo : Repos \cup {None}, shown : Text, value : Text]
Steps == {"idle", "open", "lock", "decide", "keep", "write", "unlock", "wait", "check", "run", "dead"}

Types ==
  /\ file \in Text /\ want \in Text /\ include \in Includes /\ readable \in BOOLEAN
  /\ history \in Seq(Text) /\ Len(history) <= HistoryLimit
  /\ pc \in [Tools -> Steps] /\ req \in [Tools -> Request] /\ copy \in [Tools -> Text]
  /\ lock \in Tools \cup {None} /\ repo \in [Repos -> Tools \cup {None}]

Saving(p) == pc[p] \in {"keep", "write"}
Inside(p) == Saving(p) \/ pc[p] \in {"decide", "unlock"}
LockInv == \A p \in Tools : Inside(p) => lock = p

(* What is asked of a tool: on a page, one change of what it has shown.    *)
OneChange(w) ==
  \E k \in Scope(w.kind, w.repo) : \E v \in Settings(k, w.shown[k]) :
    w.value = [Shown(w) EXCEPT ![k] = v]
Dashboard == {"form", "global", "json"}
RequestInv == \A p \in Tools :
  /\ pc[p] = "open" => req[p].kind \in Dashboard
  /\ pc[p] \in {"lock", "decide"} /\ req[p].kind \in Dashboard => OneChange(req[p])
  /\ pc[p] \notin {"idle", "dead", "unlock"} /\ req[p].kind \notin {"global", "json"}
       => req[p].repo \in Repos
  /\ pc[p] \in {"wait", "check", "run"} => req[p].kind = "integrate"

(* What a tool is about to save differs from the file where it was asked   *)
(* to, and by a default; it disables under the lock of the repository; it  *)
(* adds no registration that an include provides; and what it replaces is  *)
(* in the history by the time it does so.                                  *)
AsAsked(p, t) == \A k \in Key \ Asked(p) :
  t[k] = file[k] \/ (k = Wait /\ file[k] = None /\ t[k] = DefaultWait)
Disables(t) == {r \in Registered(file) : t[Off(r)] # file[Off(r)]}
AddsNone(t) == \A r \in include.repos : file[Reg(r)] = None => t[Reg(r)] = None
IsKept(t) == t = file \/ \E i \in DOMAIN history : history[i] = file
CopyInv == \A p \in Tools : Saving(p) =>
  /\ AsAsked(p, copy[p]) /\ AddsNone(copy[p])
  /\ \A r \in Disables(copy[p]) : repo[r] = p
  /\ pc[p] = "write" => IsKept(copy[p])

RepoInv == \A p \in Tools : pc[p] \in {"check", "run"} => repo[req[p].repo] = p

IInv == Types /\ LockInv /\ RequestInv /\ CopyInv /\ RepoInv /\ AcceptedStays

-----------------------------------------------------------------------------
(* Keys, values and texts                                                  *)

LEMMA KeyFacts ==
  /\ Wait \in Key /\ Target \in Key /\ Wait # Target
  /\ \A r \in Repos : Reg(r) \in Key /\ Reg(r) # Wait /\ Reg(r) # Target
  /\ \A r \in Repos : Off(r) \in Key /\ Off(r) # Wait /\ Off(r) # Target
  /\ \A r, s \in Repos : Reg(r) # Off(s)
  /\ \A r, s \in Repos : (Reg(r) = Reg(s) => r = s) /\ (Off(r) = Off(s) => r = s)
  /\ \A k \in Key : \/ k = Wait \/ k = Target
                    \/ \E r \in Repos : k = Reg(r) \/ k = Off(r)
BY DEF Key, Wait, Target, Reg, Off

LEMMA ValueFacts ==
  /\ Values(Wait) = {None, DefaultWait, 5, 60} /\ Values(Target) = {None, "dev", Staging}
  /\ \A r \in Repos : Values(Reg(r)) = Registration \cup {None}
  /\ \A r \in Repos : Values(Off(r)) = BOOLEAN
<1>1. Values(Wait) = {None, DefaultWait, 5, 60}
  BY KeyFacts DEF Values
<1>2. Values(Target) = {None, "dev", Staging}
  BY KeyFacts DEF Values
<1>3. ASSUME NEW r \in Repos PROVE Values(Reg(r)) = Registration \cup {None}
  BY KeyFacts DEF Values
<1>4. ASSUME NEW r \in Repos PROVE Values(Off(r)) = BOOLEAN
  BY KeyFacts DEF Values
<1>5. QED
  BY <1>1, <1>2, <1>3, <1>4

LEMMA SettingFacts ==
  /\ \A v : Settings(Wait, v) = {DefaultWait, 5}
  /\ \A v : Settings(Target, v) = {None, Staging}
  /\ \A r \in Repos : \A v : Settings(Off(r), v) = BOOLEAN
  /\ \A r \in Repos : \A v : Settings(Reg(r), v) =
       IF v = None THEN {None} ELSE {[v EXCEPT !.target = b] : b \in {None, "dev"}}
<1>1. \A v : Settings(Wait, v) = {DefaultWait, 5}
  BY KeyFacts DEF Settings
<1>2. \A v : Settings(Target, v) = {None, Staging}
  BY KeyFacts DEF Settings
<1>3. ASSUME NEW r \in Repos, NEW v PROVE Settings(Off(r), v) = BOOLEAN
  BY KeyFacts DEF Settings
<1>4. ASSUME NEW r \in Repos, NEW v
      PROVE  Settings(Reg(r), v) =
               IF v = None THEN {None} ELSE {[v EXCEPT !.target = b] : b \in {None, "dev"}}
  BY KeyFacts DEF Settings
<1>5. QED
  BY <1>1, <1>2, <1>3, <1>4

LEMMA SettingType ==
  ASSUME NEW k \in Key, NEW u \in Values(k), NEW v \in Settings(k, u) PROVE v \in Values(k)
<1>1. CASE k = Wait \/ k = Target
  BY <1>1, SettingFacts, ValueFacts
<1>2. ASSUME NEW r \in Repos, k = Off(r) PROVE v \in Values(k)
  BY <1>2, SettingFacts, ValueFacts
<1>3. ASSUME NEW r \in Repos, k = Reg(r) PROVE v \in Values(k)
  <2>1. CASE u = None
    BY <1>3, <2>1, SettingFacts, ValueFacts
  <2>2. CASE u # None
    <3>1. u \in Registration
      BY <1>3, <2>2, ValueFacts
    <3>2. PICK b \in {None, "dev"} : v = [u EXCEPT !.target = b]
      BY <1>3, <2>2, SettingFacts
    <3>3. v \in Registration
      BY <3>1, <3>2 DEF Registration
    <3>4. QED
      BY <1>3, <3>3, ValueFacts
  <2>3. QED
    BY <2>1, <2>2
<1>4. QED
  BY <1>1, <1>2, <1>3, KeyFacts


LEMMA TextIs ==
  ASSUME NEW t \in Text
  PROVE  t = [k \in Key |-> t[k]] /\ (\A k \in Key : t[k] \in Values(k)) /\ IsText(t)
BY DEF Text, IsText

LEMMA TextExcept ==
  ASSUME NEW t \in Text, NEW k \in Key, NEW v \in Values(k) PROVE [t EXCEPT ![k] = v] \in Text
<1> DEFINE F(j) == IF j = k THEN v ELSE t[j]
<1>1. [t EXCEPT ![k] = v] = [j \in Key |-> F(j)]
  BY TextIs
<1>2. \A j \in Key : F(j) \in Values(j)
  BY TextIs
<1>3. [j \in Key |-> F(j)] \in Text
  <2> HIDE DEF F
  <2> QED
    BY <1>2 DEF Text
<1>4. QED
  BY <1>1, <1>3

LEMMA TextMerge ==
  ASSUME NEW t \in Text, NEW u \in Text, NEW keys PROVE Merge(t, u, keys) \in Text
<1> DEFINE F(j) == IF j \in keys THEN u[j] ELSE t[j]
<1>1. \A j \in Key : F(j) \in Values(j)
  BY TextIs
<1>2. [j \in Key |-> F(j)] \in Text
  <2> HIDE DEF F
  <2> QED
    BY <1>1 DEF Text
<1>3. QED
  BY <1>2 DEF Merge

LEMMA DefaultIsText == DefaultText \in Text /\ NoRequest \in Request
<1> DEFINE F(k) == IF k = Wait THEN DefaultWait ELSE IF k \in {Off(r) : r \in Repos} THEN FALSE ELSE None
<1>1. ASSUME NEW k \in Key PROVE F(k) \in Values(k)
  <2>1. CASE k = Wait
    BY <2>1, ValueFacts
  <2>2. CASE k = Target
    BY <2>2, ValueFacts, KeyFacts
  <2>3. ASSUME NEW r \in Repos, k = Reg(r) PROVE F(k) \in Values(k)
    BY <2>3, ValueFacts, KeyFacts
  <2>4. ASSUME NEW r \in Repos, k = Off(r) PROVE F(k) \in Values(k)
    BY <2>4, ValueFacts, KeyFacts
  <2>5. QED
    BY <2>1, <2>2, <2>3, <2>4, KeyFacts
<1>2. [k \in Key |-> F(k)] \in Text
  <2> HIDE DEF F
  <2> QED
    BY <1>1 DEF Text
<1>3. DefaultText \in Text
  BY <1>2 DEF DefaultText
<1>4. QED
  BY <1>3 DEF NoRequest, Request, Kinds

(* What an include makes of a text, and what is shown of it.               *)
LEMMA FilledIsText ==
  ASSUME NEW t \in Text
  PROVE  /\ Filled(t) \in Text
         /\ Filled(t)[Wait] = IF t[Wait] = None THEN DefaultWait ELSE t[Wait]
         /\ \A k \in Key \ {Wait} : Filled(t)[k] = t[k]
<1>1. Filled(t) = [t EXCEPT ![Wait] = IF t[Wait] = None THEN DefaultWait ELSE t[Wait]]
  BY DEF Filled
<1>2. (IF t[Wait] = None THEN DefaultWait ELSE t[Wait]) \in Values(Wait)
  BY TextIs, ValueFacts, KeyFacts
<1> DEFINE v == IF t[Wait] = None THEN DefaultWait ELSE t[Wait]
<1>3. [t EXCEPT ![Wait] = v] \in Text
  <2> HIDE DEF v
  <2> QED
    BY <1>2, TextExcept, KeyFacts DEF v
<1>4. DOMAIN t = Key
  BY TextIs
<1>5. QED
  BY <1>1, <1>3, <1>4, KeyFacts

LEMMA EffectiveIsText ==
  ASSUME Types, NEW t \in Text
  PROVE  /\ Effective(t) \in Text /\ Included(t) \subseteq {Wait, Target}
         /\ \A k \in Key : Effective(t)[k] = IF k \in Included(t) THEN include.settings[k] ELSE t[k]
<1>1. Included(t) \subseteq {Wait, Target}
  BY DEF Included
<1>2. \A k \in {Wait, Target} : include.settings[k] \in Values(k)
  BY IncludesAssumption DEF Types
<1> DEFINE F(k) == IF k \in Included(t) THEN include.settings[k] ELSE t[k]
<1>3. \A k \in Key : F(k) \in Values(k)
  BY <1>1, <1>2, TextIs
<1>4. [k \in Key |-> F(k)] \in Text
  <2> HIDE DEF F
  <2> QED
    BY <1>3 DEF Text
<1>5. QED
  BY <1>1, <1>4 DEF Effective

LEMMA ShownIsText ==
  ASSUME NEW w \in Request
  PROVE  Shown(w) \in Text /\ \A k \in Key \ {Wait} : Shown(w)[k] = w.shown[k]
BY FilledIsText DEF Shown, Request

-----------------------------------------------------------------------------
(* The steps                                                               *)

Step(p) ==
  \/ \E r \in Repos : \E kind \in {"register", "enable", "disable", "form"} : Start(p, kind, r)
  \/ \E kind \in {"global", "json"} : Start(p, kind, None)
  \/ Lock(p) \/ GiveUp(p) \/ Register(p) \/ Enablement(p)
  \/ Submit(p) \/ Discard(p) \/ SaveSettings(p) \/ SaveSettingsJson(p)
  \/ Keep(p) \/ Replace(p) \/ Unlock(p)
  \/ StartIntegrate(p) \/ TakeRepo(p) \/ Check(p) \/ Finish(p)
  \/ Die(p) \/ RemoveLeftover(p)

Asks(p) ==
  \E kind \in Dashboard \cup {"register", "enable", "disable"} : \E r \in Repos \cup {None} :
    (kind \notin {"global", "json"} => r \in Repos) /\ Start(p, kind, r)

(* What a tool decides to save, and the repositories it has to lock.       *)
Decides(p, t, rs) ==
  /\ pc[p] = "decide" /\ Free(rs)
  /\ \/ /\ req[p].kind = "register" /\ rs = {}
        /\ t = LocalText(file, Detected(Filled(Effective(file)), req[p].repo))
        /\ req[p].repo \notin Provided(file)
        /\ req[p].repo \in Registered(file) \/ ~Fails(file)
     \/ /\ req[p].kind \in {"enable", "disable"} /\ rs = {req[p].repo}
        /\ t = [file EXCEPT ![Off(req[p].repo)] = req[p].kind = "disable"]
     \/ /\ req[p].kind \in {"form", "global"} /\ Current(req[p])
        /\ t = FormText(req[p]) /\ rs = IF req[p].kind = "form" THEN {req[p].repo} ELSE {}
     \/ req[p].kind = "json" /\ Current(req[p]) /\ t = req[p].value /\ rs = Touched(t)

Begins(p) == pc[p] = "check" /\ StillEnabled(req[p].repo) /\ Check(p) /\ Go(p, "run")

LEMMA StepKinds ==
  ASSUME NEW p \in Tools, Step(p)
  PROVE  \/ Refuse(p) \/ \E t, rs : Decides(p, t, rs) /\ Save(p, t, rs)
         \/ Asks(p) \/ Lock(p) \/ Submit(p) \/ Keep(p) \/ Replace(p)
         \/ StartIntegrate(p) \/ TakeRepo(p) \/ Begins(p) \/ Die(p)
<1>1. CASE \/ \E r \in Repos : \E kind \in {"register", "enable", "disable", "form"} : Start(p, kind, r)
           \/ \E kind \in {"global", "json"} : Start(p, kind, None)
  BY <1>1 DEF Asks, Dashboard
<1>2. CASE GiveUp(p) \/ Discard(p) \/ Unlock(p) \/ Finish(p) \/ RemoveLeftover(p)
  BY <1>2 DEF GiveUp, Discard, Unlock, Finish, RemoveLeftover, Refuse
<1>3. CASE Register(p)
  BY <1>3 DEF Register, Decides, Free, WouldReplace
<1>4. CASE Enablement(p)
  BY <1>4 DEF Enablement, Decides, SaveUnderLocks
<1>5. CASE SaveSettings(p)
  BY <1>5 DEF SaveSettings, Decides, SaveUnderLocks
<1>6. CASE SaveSettingsJson(p)
  BY <1>6 DEF SaveSettingsJson, Decides, SaveUnderLocks
<1>7. CASE Check(p)
  BY <1>7 DEF Check, Begins
<1>8. QED
  BY <1>1, <1>2, <1>3, <1>4, <1>5, <1>6, <1>7 DEF Step

(* A step of a tool leaves the others what they do and hold.               *)
LEMMA Others ==
  ASSUME Types, NEW p \in Tools, Step(p), NEW q \in Tools, q # p
  PROVE  /\ pc'[q] = pc[q] /\ req'[q] = req[q] /\ copy'[q] = copy[q]
         /\ lock = q => lock' = q
         /\ \A r \in Repos : repo[r] = q => repo'[r] = q
<1> USE ConfigurationAssumption DEF ConfigurationAssumption, Types, Go
<1>1. CASE Refuse(p)
  BY <1>1 DEF Refuse, End
<1>2. ASSUME NEW t, NEW rs, Decides(p, t, rs), Save(p, t, rs)
      PROVE  /\ pc'[q] = pc[q] /\ req'[q] = req[q] /\ copy'[q] = copy[q] /\ lock' = lock
             /\ \A r \in Repos : repo[r] = q => repo'[r] = q
  BY <1>2 DEF Decides, Save, Hold, Free
<1>3. CASE Asks(p)
  BY <1>3 DEF Asks, Start
<1>4. CASE Lock(p) \/ Submit(p) \/ Keep(p) \/ Replace(p) \/ Begins(p)
  BY <1>4 DEF Lock, Submit, Keep, Replace, Begins, Check, Refuse, End
<1>5. CASE StartIntegrate(p) \/ Die(p)
  BY <1>5 DEF StartIntegrate, Die
<1>6. CASE TakeRepo(p)
  BY <1>6 DEF TakeRepo, Hold, Free
<1>7. QED
  BY <1>1, <1>2, <1>3, <1>4, <1>5, <1>6, StepKinds

(* Only who saves changes the file and its history.                        *)
LEMMA Writers ==
  ASSUME NEW p \in Tools, Step(p)
  PROVE  /\ UNCHANGED <<file, want>> \/ Replace(p)
         /\ UNCHANGED history \/ Keep(p)
         /\ UNCHANGED <<include, readable>>
<1> USE DEF world
<1>1. CASE Refuse(p)
  BY <1>1 DEF Refuse
<1>2. ASSUME NEW t, NEW rs, Save(p, t, rs) PROVE UNCHANGED <<file, want, history, include, readable>>
  BY <1>2 DEF Save
<1>3. CASE Asks(p)
  BY <1>3 DEF Asks, Start
<1>4. CASE Lock(p) \/ Submit(p) \/ Keep(p) \/ Replace(p) \/ Begins(p)
  BY <1>4 DEF Lock, Submit, Keep, Replace, Begins, Check, Refuse
<1>5. CASE StartIntegrate(p) \/ Die(p) \/ TakeRepo(p)
  BY <1>5 DEF StartIntegrate, Die, TakeRepo
<1>6. QED
  BY <1>1, <1>2, <1>3, <1>4, <1>5, StepKinds

(* Two tools are never inside a save together.                             *)
LEMMA LockStep == ASSUME IInv, NEW p \in Tools, Step(p) PROVE LockInv'
<1> USE ConfigurationAssumption DEF ConfigurationAssumption, IInv, Types, Go, Inside, Saving
<1>1. ASSUME NEW q \in Tools, q # p PROVE Inside(q)' => lock' = q
  BY <1>1, Others DEF LockInv
<1>2. Inside(p)' => lock' = p
  <2>1. CASE Refuse(p)
    BY <2>1 DEF Refuse, End
  <2>2. ASSUME NEW t, NEW rs, Decides(p, t, rs), Save(p, t, rs) PROVE lock' = p
    BY <2>2 DEF Decides, Save, LockInv
  <2>3. CASE Asks(p) \/ Submit(p)
    BY <2>3 DEF Asks, Start, Submit
  <2>4. CASE Lock(p) \/ Keep(p) \/ Replace(p)
    BY <2>4 DEF LockInv, Lock, Keep, Replace
  <2>5. CASE StartIntegrate(p) \/ Die(p) \/ TakeRepo(p) \/ Begins(p)
    BY <2>5 DEF StartIntegrate, Die, TakeRepo, Begins
  <2>6. QED
    BY <2>1, <2>2, <2>3, <2>4, <2>5, StepKinds
<1>3. QED
  BY <1>1, <1>2 DEF LockInv

-----------------------------------------------------------------------------
(* What is saved                                                           *)

LEMMA DetectedIsText ==
  ASSUME NEW t \in Text, NEW r \in Repos
  PROVE  Detected(t, r) \in Text /\ \A k \in Key \ {Reg(r)} : Detected(t, r)[k] = t[k]
<1> DEFINE v == IF t[Reg(r)] = None THEN [target |-> None, setup |-> "detected"]
                ELSE [t[Reg(r)] EXCEPT !.setup = "detected"]
<1>1. t[Reg(r)] \in Registration \cup {None}
  BY TextIs, KeyFacts, ValueFacts
<1>2. v \in Registration
  BY <1>1 DEF Registration
<1>3. [t EXCEPT ![Reg(r)] = v] \in Text
  <2>1. v \in Values(Reg(r))
    BY <1>2, ValueFacts
  <2> HIDE DEF v
  <2> QED
    BY <2>1, TextExcept, KeyFacts
<1>4. DOMAIN t = Key
  BY TextIs
<1>5. QED
  BY <1>3, <1>4 DEF Detected

LEMMA RegisterSaves ==
  ASSUME IInv, NEW p \in Tools, req[p].kind = "register", req[p].repo \in Repos,
         req[p].repo \notin Provided(file),
         req[p].repo \in Registered(file) \/ ~Fails(file)
  PROVE  LET t == LocalText(file, Detected(Filled(Effective(file)), req[p].repo))
         IN t \in Text /\ AsAsked(p, t) /\ AddsNone(t) /\ Disables(t) = {}
<1> DEFINE r == req[p].repo
           e == Effective(file)
           d == Detected(Filled(e), r)
           keys == {k \in Included(file) : d[k] = include.settings[k]}
           t == LocalText(file, d)
<1> USE DEF IInv, Types
<1>1. /\ e \in Text /\ Included(file) \subseteq {Wait, Target}
      /\ \A k \in Key : e[k] = IF k \in Included(file) THEN include.settings[k] ELSE file[k]
  BY EffectiveIsText
<1>2. /\ Filled(e) \in Text /\ Filled(e)[Wait] = IF e[Wait] = None THEN DefaultWait ELSE e[Wait]
      /\ \A k \in Key \ {Wait} : Filled(e)[k] = e[k]
  BY <1>1, FilledIsText
<1>3. d \in Text /\ \A k \in Key \ {Reg(r)} : d[k] = Filled(e)[k]
  BY <1>2, DetectedIsText
<1>4. t = Merge(d, file, keys)
  BY DEF LocalText
<1>5. t \in Text
  BY <1>3, <1>4, TextMerge
<1>6. \A k \in Key : t[k] = IF k \in keys THEN file[k] ELSE d[k]
  BY <1>4 DEF Merge
<1>7. \A k \in Included(file) : include.settings[k] # None /\ file[k] = None
  BY DEF Included
<1>8. ASSUME NEW k \in Key \ {Reg(r)}
      PROVE  t[k] = file[k] \/ (k = Wait /\ file[k] = None /\ t[k] = DefaultWait)
  <2>1. CASE k \in Included(file)
    <3>1. d[k] = include.settings[k]
      BY <1>1, <1>2, <1>3, <1>7, <2>1
    <3>2. QED
      BY <1>6, <2>1, <3>1
  <2>2. CASE k \notin Included(file)
    <3>1. t[k] = Filled(e)[k] /\ e[k] = file[k]
      BY <1>1, <1>3, <1>6, <2>2
    <3>2. QED
      BY <1>2, <3>1
  <2>3. QED
    BY <2>1, <2>2
<1>9. AsAsked(p, t)
  BY <1>8 DEF AsAsked, Asked
<1>10. AddsNone(t)
  <2> SUFFICES ASSUME NEW s \in include.repos, file[Reg(s)] = None PROVE t[Reg(s)] = None
    BY DEF AddsNone
  <2>1. s \in Repos
    BY IncludesAssumption
  <2>2. s # r
    BY <2>1 DEF Provided, Registered
  <2>3. QED
    BY <1>8, <2>1, <2>2, KeyFacts
<1>11. Disables(t) = {}
  BY <1>8, KeyFacts DEF Disables, Registered
<1>12. QED
  BY <1>5, <1>9, <1>10, <1>11

LEMMA EnablementSaves ==
  ASSUME IInv, NEW p \in Tools, req[p].kind \in {"enable", "disable"}, req[p].repo \in Repos
  PROVE  LET t == [file EXCEPT ![Off(req[p].repo)] = req[p].kind = "disable"]
         IN t \in Text /\ AsAsked(p, t) /\ AddsNone(t) /\ Disables(t) \subseteq {req[p].repo}
<1> DEFINE r == req[p].repo
           v == req[p].kind = "disable"
           t == [file EXCEPT ![Off(r)] = v]
<1> USE DEF IInv, Types
<1>1. v \in Values(Off(r)) /\ Off(r) \in Key
  BY ValueFacts, KeyFacts
<1>2. t \in Text /\ \A k \in Key \ {Off(r)} : t[k] = file[k]
  <2> HIDE DEF v
  <2> QED
    BY <1>1, TextExcept, TextIs
<1> HIDE DEF t
<1>3. AsAsked(p, t)
  BY <1>2 DEF AsAsked, Asked
<1>4. AddsNone(t)
  BY <1>2, KeyFacts, IncludesAssumption DEF AddsNone
<1>5. Disables(t) \subseteq {r}
  BY <1>2, KeyFacts DEF Disables, Registered
<1>6. QED
  BY <1>2, <1>3, <1>4, <1>5 DEF t

(* A page changes one value, and adds no registration.                     *)
LEMMA Changes ==
  ASSUME Types, NEW w \in Request, OneChange(w)
  PROVE  /\ \A s \in Repos : w.shown[Reg(s)] = None => w.value[Reg(s)] = None
         /\ \E k \in Scope(w.kind, w.repo) : \A j \in Key \ {k} : w.value[j] = Shown(w)[j]
<1>1. PICK k \in Scope(w.kind, w.repo) : \E v \in Settings(k, w.shown[k]) :
         w.value = [Shown(w) EXCEPT ![k] = v]
  BY DEF OneChange
<1>2. PICK v \in Settings(k, w.shown[k]) : w.value = [Shown(w) EXCEPT ![k] = v]
  BY <1>1
<1>3. Shown(w) \in Text /\ \A j \in Key \ {Wait} : Shown(w)[j] = w.shown[j]
  BY ShownIsText
<1>4. DOMAIN Shown(w) = Key
  BY <1>3, TextIs
<1>5. \A j \in Key \ {k} : w.value[j] = Shown(w)[j]
  BY <1>2, <1>4
<1>6. ASSUME NEW s \in Repos, w.shown[Reg(s)] = None PROVE w.value[Reg(s)] = None
  <2>1. CASE k = Reg(s)
    BY <1>2, <1>4, <1>6, <2>1, KeyFacts, SettingFacts
  <2>2. CASE k # Reg(s)
    BY <1>3, <1>5, <1>6, <2>2, KeyFacts
  <2>3. QED
    BY <2>1, <2>2
<1>7. QED
  BY <1>5, <1>6

LEMMA FormSaves ==
  ASSUME IInv, NEW p \in Tools, pc[p] = "decide", req[p].kind \in {"form", "global"}, Current(req[p])
  PROVE  LET t == FormText(req[p])
         IN /\ t \in Text /\ AsAsked(p, t) /\ AddsNone(t)
            /\ Disables(t) \subseteq IF req[p].kind = "form" THEN {req[p].repo} ELSE {}
<1> DEFINE w == req[p]
           keys == Changed(Filled(file), w.value) \cap Scope(w.kind, w.repo)
           t == FormText(w)
<1> USE DEF IInv, Types
<1>1. w \in Request /\ w.value \in Text /\ w.shown = file /\ Shown(w) = Filled(file) /\ OneChange(w)
  BY DEF Request, Current, Shown, RequestInv, Dashboard
<1>2. t = Merge(file, w.value, keys)
  BY DEF FormText
<1>3. t \in Text /\ \A k \in Key : t[k] = IF k \in keys THEN w.value[k] ELSE file[k]
  <2>1. t \in Text
    <3> HIDE DEF keys, t, w
    <3> QED
      BY <1>1, <1>2, TextMerge
  <2>2. QED
    BY <1>2, <2>1 DEF Merge
<1>4. AsAsked(p, t)
  <2>1. Asked(p) = Changed(Filled(file), w.value)
    BY <1>1 DEF Asked
  <2>2. QED
    BY <1>3, <2>1 DEF AsAsked
<1>5. AddsNone(t)
  BY <1>1, <1>3, Changes, KeyFacts, IncludesAssumption DEF AddsNone
<1>6. ASSUME NEW r \in Disables(t) PROVE w.kind = "form" /\ r = w.repo
  <2>1. r \in Repos /\ Off(r) \in keys
    BY <1>3, <1>6, KeyFacts DEF Disables, Registered
  <2>2. CASE w.kind = "global"
    BY <2>1, <2>2, KeyFacts DEF Scope
  <2>3. CASE w.kind = "form"
    BY <2>1, <2>3, <1>1, KeyFacts DEF Scope, RequestInv
  <2>4. QED
    BY <2>2, <2>3
<1>7. QED
  BY <1>3, <1>4, <1>5, <1>6

LEMMA JsonSaves ==
  ASSUME IInv, NEW p \in Tools, pc[p] = "decide", req[p].kind = "json", Current(req[p])
  PROVE  LET t == req[p].value
         IN t \in Text /\ AsAsked(p, t) /\ AddsNone(t) /\ Disables(t) \subseteq Touched(t)
<1> DEFINE w == req[p]
           t == w.value
<1> USE DEF IInv, Types
<1>1. w \in Request /\ t \in Text /\ w.shown = file /\ Shown(w) = file /\ OneChange(w)
  BY DEF Request, Current, Shown, RequestInv, Dashboard
<1>2. AsAsked(p, t)
  <2>1. Asked(p) = Changed(file, t)
    BY <1>1 DEF Asked
  <2>2. QED
    BY <2>1 DEF AsAsked, Changed
<1>3. AddsNone(t)
  BY <1>1, Changes, IncludesAssumption DEF AddsNone
<1>4. ASSUME NEW r \in Disables(t) PROVE r \in Touched(t)
  <2>1. PICK k \in Scope(w.kind, w.repo) : \A j \in Key \ {k} : t[j] = file[j]
    BY <1>1, Changes
  <2>2. r \in Repos /\ file[Reg(r)] # None /\ t[Off(r)] # file[Off(r)]
    BY <1>4 DEF Disables, Registered
  <2>3. k = Off(r)
    BY <2>1, <2>2, KeyFacts
  <2>4. t[Reg(r)] = file[Reg(r)]
    BY <2>1, <2>2, <2>3, KeyFacts
  <2>5. Off(r) \in Changed(file, t)
    BY <2>2, KeyFacts DEF Changed
  <2>6. QED
    BY <2>2, <2>4, <2>5 DEF Touched, Registered
<1>5. QED
  BY <1>1, <1>2, <1>3, <1>4

LEMMA Decided ==
  ASSUME IInv, NEW p \in Tools, NEW t, NEW rs, Decides(p, t, rs)
  PROVE  t \in Text /\ AsAsked(p, t) /\ AddsNone(t) /\ Disables(t) \subseteq rs /\ rs \subseteq Repos
<1> DEFINE r == req[p].repo
<1>1. pc[p] = "decide" /\ req[p] \in Request
  BY DEF Decides, IInv, Types
<1>2. req[p].kind \notin {"global", "json"} => r \in Repos
  BY <1>1 DEF IInv, RequestInv
<1>3. CASE req[p].kind = "register"
  BY <1>2, <1>3, RegisterSaves DEF Decides
<1>4. CASE req[p].kind \in {"enable", "disable"}
  BY <1>2, <1>4, EnablementSaves DEF Decides
<1>5. CASE req[p].kind \in {"form", "global"}
  BY <1>1, <1>2, <1>5, FormSaves DEF Decides
<1>6. CASE req[p].kind = "json"
  BY <1>1, <1>6, JsonSaves DEF Decides, Touched, Registered
<1>7. QED
  BY <1>3, <1>4, <1>5, <1>6 DEF Decides

-----------------------------------------------------------------------------
(* The invariant, part by part                                             *)

LEMMA InitIInv == Init => IInv
<1> SUFFICES ASSUME Init PROVE IInv
  OBVIOUS
<1> USE DEF Init
<1>1. file \in Text
  <2>1. ASSUME NEW r \in Repos,
               file = [DefaultText EXCEPT ![Wait] = None, ![Reg(r)] = [target |-> None, setup |-> "none"]]
        PROVE file \in Text
    <3> DEFINE u == [DefaultText EXCEPT ![Wait] = None]
               v == [target |-> None, setup |-> "none"]
    <3>1. u \in Text
      BY DefaultIsText, TextExcept, KeyFacts, ValueFacts
    <3>2. v \in Values(Reg(r))
      BY ValueFacts DEF Registration
    <3>3. [u EXCEPT ![Reg(r)] = v] \in Text
      <4> HIDE DEF u, v
      <4> QED
        BY <3>1, <3>2, TextExcept, KeyFacts
    <3>4. QED
      BY <2>1, <3>3
  <2>2. QED
    BY <2>1, DefaultIsText
<1>2. Types
  BY <1>1, DefaultIsText, ConfigurationAssumption DEF Types, Steps, ConfigurationAssumption
<1>3. LockInv /\ RequestInv /\ CopyInv /\ RepoInv
  BY DEF LockInv, Inside, Saving, RequestInv, CopyInv, RepoInv
<1>4. AcceptedStays
  BY DEF AcceptedStays
<1>5. QED
  BY <1>2, <1>3, <1>4 DEF IInv

(* Steps and locks, requests, and texts keep their types.                  *)
LEMMA PlacesType ==
  ASSUME IInv, NEW p \in Tools, Step(p)
  PROVE  pc' \in [Tools -> Steps] /\ lock' \in Tools \cup {None} /\ repo' \in [Repos -> Tools \cup {None}]
<1> USE DEF IInv, Types, Go, Steps
<1>1. CASE Refuse(p)
  BY <1>1 DEF Refuse, End
<1>2. ASSUME NEW t, NEW rs, Save(p, t, rs)
      PROVE  /\ pc' \in [Tools -> Steps] /\ lock' \in Tools \cup {None}
             /\ repo' \in [Repos -> Tools \cup {None}]
  BY <1>2 DEF Save, Hold
<1>3. CASE Asks(p) \/ Lock(p) \/ Submit(p) \/ Keep(p) \/ Replace(p)
  BY <1>3 DEF Asks, Start, Lock, Submit, Keep, Replace
<1>4. CASE StartIntegrate(p) \/ Die(p) \/ TakeRepo(p) \/ Begins(p)
  BY <1>4 DEF StartIntegrate, Die, TakeRepo, Hold, Begins, Check, Refuse, End
<1>5. QED
  BY <1>1, <1>2, <1>3, <1>4, StepKinds

LEMMA RequestsType ==
  ASSUME IInv, NEW p \in Tools, Step(p) PROVE req' \in [Tools -> Request]
<1> USE DEF IInv, Types
<1>0. req[p] \in Request /\ NoRequest \in Request
  BY DefaultIsText
<1>1. CASE Refuse(p) \/ Replace(p) \/ Die(p)
  BY <1>0, <1>1 DEF Refuse, End, Replace, Die
<1>2. ASSUME NEW t, NEW rs, Save(p, t, rs) PROVE req' = req
  BY <1>2 DEF Save
<1>3. CASE Asks(p)
  <2>1. PICK kind \in Kinds, r \in Repos \cup {None} : Start(p, kind, r)
    BY <1>3 DEF Asks, Dashboard, Kinds
  <2>2. CASE req' = [req EXCEPT ![p] = [kind |-> kind, repo |-> r, shown |-> file, value |-> file]]
    BY <2>2 DEF Request
  <2>3. CASE req' = [req EXCEPT ![p].kind = kind, ![p].repo = r]
    <3>1. req' = [req EXCEPT ![p] = [req[p] EXCEPT !.kind = kind, !.repo = r]]
      BY <2>3
    <3>2. [req[p] EXCEPT !.kind = kind, !.repo = r] \in Request
      BY <1>0 DEF Request
    <3>3. QED
      BY <3>1, <3>2
  <2>4. QED
    BY <2>1, <2>2, <2>3 DEF Start
<1>4. CASE Submit(p)
  <2>1. PICK k \in Scope(req[p].kind, req[p].repo) : \E v \in Settings(k, req[p].shown[k]) :
          req' = [req EXCEPT ![p].value = [Shown(req[p]) EXCEPT ![k] = v]]
    BY <1>4 DEF Submit
  <2>2. PICK v \in Settings(k, req[p].shown[k]) :
          req' = [req EXCEPT ![p].value = [Shown(req[p]) EXCEPT ![k] = v]]
    BY <2>1
  <2>3. k \in Key
    <3>1. pc[p] = "open" /\ req[p].kind \in Dashboard
      BY <1>4 DEF Submit, RequestInv
    <3>2. req[p].kind = "form" => req[p].repo \in Repos
      BY <3>1 DEF RequestInv
    <3>3. QED
      BY <2>1, <3>1, <3>2, KeyFacts DEF Scope, Dashboard
  <2>4. v \in Values(k)
    <3>1. req[p].shown \in Text
      BY <1>0 DEF Request
    <3>2. req[p].shown[k] \in Values(k)
      BY <2>3, <3>1, TextIs
    <3>3. QED
      BY <2>2, <2>3, <3>2, SettingType
  <2> DEFINE value == [Shown(req[p]) EXCEPT ![k] = v]
  <2>5. value \in Text
    BY <1>0, <2>3, <2>4, ShownIsText, TextExcept
  <2>6. req' = [req EXCEPT ![p] = [req[p] EXCEPT !.value = value]]
    BY <2>2
  <2>7. [req[p] EXCEPT !.value = value] \in Request
    <3> HIDE DEF value
    <3> QED
      BY <1>0, <2>5 DEF Request
  <2>8. QED
    BY <2>6, <2>7
<1>5. CASE StartIntegrate(p)
  <2>1. PICK r \in Repos : req' = [req EXCEPT ![p].kind = "integrate", ![p].repo = r]
    BY <1>5 DEF StartIntegrate
  <2>2. req' = [req EXCEPT ![p] = [req[p] EXCEPT !.kind = "integrate", !.repo = r]]
    BY <2>1
  <2>3. [req[p] EXCEPT !.kind = "integrate", !.repo = r] \in Request
    BY <1>0 DEF Request, Kinds
  <2>4. QED
    BY <2>2, <2>3
<1>6. CASE Lock(p) \/ Keep(p) \/ TakeRepo(p) \/ Begins(p)
  BY <1>6 DEF Lock, Keep, TakeRepo, Begins, Check, Refuse, End, Go
<1>7. QED
  BY <1>1, <1>2, <1>3, <1>4, <1>5, <1>6, StepKinds

LEMMA TextsType ==
  ASSUME IInv, NEW p \in Tools, Step(p)
  PROVE  file' \in Text /\ want' \in Text /\ copy' \in [Tools -> Text]
<1> USE DEF IInv, Types
<1>1. copy[p] \in Text /\ DefaultText \in Text
  BY DefaultIsText
<1>2. file' \in Text /\ want' \in Text
  <2>1. CASE Replace(p)
    BY <1>1, <2>1, TextMerge DEF Replace
  <2>2. QED
    BY <2>1, Writers
<1>3. copy' \in [Tools -> Text]
  <2>1. CASE Refuse(p) \/ Replace(p) \/ Die(p)
    BY <1>1, <2>1 DEF Refuse, End, Replace, Die
  <2>2. ASSUME NEW t, NEW rs, Decides(p, t, rs), Save(p, t, rs) PROVE copy' \in [Tools -> Text]
    BY <2>2, Decided DEF Save
  <2>3. CASE Asks(p) \/ Lock(p) \/ Submit(p) \/ Keep(p)
    BY <2>3 DEF Asks, Start, Lock, Submit, Keep
  <2>4. CASE StartIntegrate(p) \/ TakeRepo(p) \/ Begins(p)
    BY <2>4 DEF StartIntegrate, TakeRepo, Begins, Check, Refuse, End, Go
  <2>5. QED
    BY <2>1, <2>2, <2>3, <2>4, StepKinds
<1>4. QED
  BY <1>2, <1>3

(* The history keeps its limit.                                            *)
LEMMA HistoryType ==
  ASSUME IInv, NEW p \in Tools, Step(p) PROVE history' \in Seq(Text) /\ Len(history') <= HistoryLimit
<1> USE ConfigurationAssumption DEF ConfigurationAssumption, IInv, Types
<1>1. CASE Keep(p) /\ history' # history
  <2> DEFINE room == HistoryLimit - 1
             len == Len(history)
             recent == IF len > room THEN SubSeq(history, len - room + 1, len) ELSE history
  <2>1. history' = Append(recent, file)
    BY <1>1 DEF Keep, Kept
  <2>2. recent \in Seq(Text) /\ Len(recent) <= room
    <3>1. CASE len > room
      <4>1. len - room + 1 \in Int /\ len \in Int /\ \A i \in len - room + 1 .. len : history[i] \in Text
        BY <3>1
      <4>2. /\ SubSeq(history, len - room + 1, len) \in Seq(Text)
            /\ Len(SubSeq(history, len - room + 1, len))
                 = IF len - room + 1 <= len THEN len - (len - room + 1) + 1 ELSE 0
        BY <4>1, SubSeqProperties
      <4>3. QED
        BY <3>1, <4>2
    <3>2. CASE ~(len > room)
      BY <3>2
    <3>3. QED
      BY <3>1, <3>2
  <2> HIDE DEF recent
  <2>3. QED
    BY <2>1, <2>2
<1>2. QED
  BY <1>1, Writers

LEMMA TypeStep == ASSUME IInv, NEW p \in Tools, Step(p) PROVE Types'
BY PlacesType, RequestsType, TextsType, HistoryType, Writers DEF IInv, Types

LEMMA IsOneChange ==
  ASSUME NEW w, NEW k \in Scope(w.kind, w.repo), NEW v \in Settings(k, w.shown[k]),
         w.value = [Shown(w) EXCEPT ![k] = v]
  PROVE  OneChange(w)
BY DEF OneChange

LEMMA RequestStep == ASSUME IInv, NEW p \in Tools, Step(p) PROVE RequestInv'
<1> USE DEF IInv, Types, Go
<1> DEFINE Fits(q) ==
      /\ pc[q] = "open" => req[q].kind \in Dashboard
      /\ pc[q] \in {"lock", "decide"} /\ req[q].kind \in Dashboard => OneChange(req[q])
      /\ pc[q] \notin {"idle", "dead", "unlock"} /\ req[q].kind \notin {"global", "json"}
           => req[q].repo \in Repos
      /\ pc[q] \in {"wait", "check", "run"} => req[q].kind = "integrate"
<1>0. Fits(p) /\ req[p] \in Request
  BY DEF RequestInv
<1>1. ASSUME NEW q \in Tools, q # p PROVE Fits(q)'
  <2>1. Fits(q) /\ pc'[q] = pc[q] /\ req'[q] = req[q]
    BY <1>1, Others DEF RequestInv
  <2>2. QED
    BY <2>1
<1>2. Fits(p)'
  <2>1. CASE Refuse(p) \/ Replace(p) \/ Die(p)
    BY <2>1 DEF Refuse, End, Replace, Die
  <2>2. ASSUME NEW t, NEW rs, Decides(p, t, rs), Save(p, t, rs) PROVE Fits(p)'
    BY <1>0, <2>2 DEF Decides, Save
  <2>3. CASE Asks(p)
    <3>1. PICK kind \in Dashboard \cup {"register", "enable", "disable"}, r \in Repos \cup {None} :
            (kind \notin {"global", "json"} => r \in Repos) /\ Start(p, kind, r)
      BY <2>3 DEF Asks
    <3>2. CASE kind \in Dashboard
      BY <3>1, <3>2 DEF Start, Dashboard
    <3>3. CASE kind \notin Dashboard
      <4>1. req' = [req EXCEPT ![p] = [req[p] EXCEPT !.kind = kind, !.repo = r]] /\ pc'[p] = "lock"
        BY <3>1, <3>3 DEF Start, Dashboard
      <4>2. req'[p].kind = kind /\ req'[p].repo = r
        BY <1>0, <4>1 DEF Request
      <4>3. QED
        BY <3>1, <3>3, <4>1, <4>2
    <3>4. QED
      BY <3>2, <3>3
  <2>4. CASE Lock(p)
    BY <1>0, <2>4 DEF Lock
  <2>5. CASE Submit(p)
    <3>1. PICK k \in Scope(req[p].kind, req[p].repo) : \E v \in Settings(k, req[p].shown[k]) :
            req' = [req EXCEPT ![p].value = [Shown(req[p]) EXCEPT ![k] = v]]
      BY <2>5 DEF Submit
    <3>2. PICK v \in Settings(k, req[p].shown[k]) :
            req' = [req EXCEPT ![p].value = [Shown(req[p]) EXCEPT ![k] = v]]
      BY <3>1
    <3> DEFINE value == [Shown(req[p]) EXCEPT ![k] = v]
    <3>3. req'[p] = [req[p] EXCEPT !.value = value]
      BY <3>2
    <3>4. /\ req'[p].kind = req[p].kind /\ req'[p].repo = req[p].repo /\ req'[p].shown = req[p].shown
          /\ req'[p].value = value
      <4> HIDE DEF value
      <4> QED
        BY <1>0, <3>3 DEF Request
    <3>5. Shown(req'[p]) = Shown(req[p])
      BY <3>4 DEF Shown
    <3>6. OneChange(req'[p])
      BY <3>2, <3>4, <3>5, IsOneChange
    <3>7. pc[p] = "open" /\ pc'[p] = "lock"
      BY <2>5 DEF Submit
    <3>8. QED
      BY <1>0, <3>4, <3>6, <3>7
  <2>6. CASE StartIntegrate(p)
    <3>1. PICK r \in Repos : req' = [req EXCEPT ![p].kind = "integrate", ![p].repo = r]
      BY <2>6 DEF StartIntegrate
    <3>2. req'[p].kind = "integrate" /\ req'[p].repo = r
      BY <1>0, <3>1 DEF Request
    <3>3. QED
      BY <2>6, <3>2 DEF StartIntegrate
  <2>7. CASE Keep(p) \/ TakeRepo(p) \/ Begins(p)
    BY <1>0, <2>7 DEF Keep, TakeRepo, Begins, Check
  <2>8. QED
    BY <2>1, <2>2, <2>3, <2>4, <2>5, <2>6, <2>7, StepKinds
<1>3. \A q \in Tools : Fits(q)'
  BY <1>1, <1>2
<1>4. QED
  BY <1>3 DEF RequestInv

(* While one tool saves no other changes the file or its history.          *)
LEMMA Alone ==
  ASSUME IInv, NEW p \in Tools, Step(p), NEW q \in Tools, q # p, Saving(q)
  PROVE  UNCHANGED <<file, history, include>>
<1>1. lock = q
  BY DEF IInv, LockInv, Inside
<1>2. ~Keep(p) /\ ~Replace(p)
  BY <1>1 DEF IInv, LockInv, Inside, Saving, Keep, Replace
<1>3. QED
  BY <1>2, Writers

LEMMA CopyStep == ASSUME IInv, NEW p \in Tools, Step(p) PROVE CopyInv'
<1> USE DEF IInv, Types, Go, Saving
<1> DEFINE Good(q) ==
      /\ AsAsked(q, copy[q]) /\ AddsNone(copy[q])
      /\ \A r \in Disables(copy[q]) : repo[r] = q
      /\ pc[q] = "write" => IsKept(copy[q])
<1>1. ASSUME NEW q \in Tools, q # p, Saving(q)' PROVE Good(q)'
  <2>1. Saving(q) /\ Good(q) /\ pc'[q] = pc[q] /\ req'[q] = req[q] /\ copy'[q] = copy[q]
    BY <1>1, Others DEF CopyInv
  <2>2. UNCHANGED <<file, history, include>>
    BY <1>1, <2>1, Alone
  <2>3. Asked(q)' = Asked(q)
    BY <2>1 DEF Asked, Shown
  <2>4. \A r \in Repos : repo[r] = q => repo'[r] = q
    BY <1>1, Others
  <2>5. Disables(copy[q])' = Disables(copy[q]) /\ Disables(copy[q]) \subseteq Repos
    BY <2>1, <2>2 DEF Disables, Registered
  <2>6. QED
    BY <2>1, <2>2, <2>3, <2>4, <2>5 DEF AsAsked, AddsNone, IsKept
<1>2. ASSUME Saving(p)' PROVE Good(p)'
  <2>1. ASSUME NEW t, NEW rs, Decides(p, t, rs), Save(p, t, rs) PROVE Good(p)'
    <3>1. AsAsked(p, t) /\ AddsNone(t) /\ Disables(t) \subseteq rs /\ rs \subseteq Repos
      BY <2>1, Decided
    <3>2. /\ copy'[p] = t /\ pc'[p] = "keep" /\ \A r \in rs : repo'[r] = p
          /\ UNCHANGED <<file, history, include, req>>
      BY <2>1, <3>1 DEF Save, Hold, world
    <3>3. Asked(p)' = Asked(p)
      BY <3>2 DEF Asked, Shown
    <3>4. Disables(copy[p])' = Disables(t)
      BY <3>2 DEF Disables, Registered
    <3>5. QED
      BY <3>1, <3>2, <3>3, <3>4 DEF AsAsked, AddsNone
  <2>2. CASE Keep(p)
    <3>1. Good(p) /\ pc'[p] = "write" /\ UNCHANGED <<file, include, req, copy, repo>>
      BY <2>2 DEF CopyInv, Keep, world
    <3>2. Asked(p)' = Asked(p) /\ Disables(copy[p])' = Disables(copy[p])
      BY <3>1 DEF Asked, Shown, Disables, Registered
    <3>3. copy[p] # file => \E i \in DOMAIN history' : history'[i] = file
      <4> DEFINE room == HistoryLimit - 1
                 len == Len(history)
                 recent == IF len > room THEN SubSeq(history, len - room + 1, len) ELSE history
      <4> SUFFICES ASSUME copy[p] # file PROVE \E i \in DOMAIN history' : history'[i] = file
        OBVIOUS
      <4>1. history' = Append(recent, file)
        BY <2>2 DEF Keep, Kept
      <4>2. recent \in Seq(Text)
        <5>1. CASE len > room
          <6>1. len - room + 1 \in Int /\ len \in Int /\ \A i \in len - room + 1 .. len : history[i] \in Text
            BY <5>1, ConfigurationAssumption DEF ConfigurationAssumption
          <6>2. QED
            BY <5>1, <6>1, SubSeqProperties
        <5>2. QED
          BY <5>1
      <4> HIDE DEF recent
      <4>3. Len(history') \in DOMAIN history' /\ history'[Len(history')] = file
        BY <4>1, <4>2
      <4>4. QED
        BY <4>3
    <3>4. IsKept(copy[p])'
      BY <3>1, <3>3 DEF IsKept
    <3>5. QED
      BY <3>1, <3>2, <3>4 DEF AsAsked, AddsNone
  <2>3. CASE Refuse(p) \/ Replace(p) \/ Die(p)
    BY <1>2, <2>3 DEF Refuse, End, Replace, Die
  <2>4. CASE Asks(p) \/ Lock(p) \/ Submit(p)
    BY <1>2, <2>4 DEF Asks, Start, Lock, Submit
  <2>5. CASE StartIntegrate(p) \/ TakeRepo(p) \/ Begins(p)
    BY <1>2, <2>5 DEF StartIntegrate, TakeRepo, Begins
  <2>6. QED
    BY <2>1, <2>2, <2>3, <2>4, <2>5, StepKinds
<1>3. \A q \in Tools : Saving(q)' => Good(q)'
  BY <1>1, <1>2
<1>4. QED
  BY <1>3 DEF CopyInv

LEMMA RepoStep == ASSUME IInv, NEW p \in Tools, Step(p) PROVE RepoInv'
<1> USE DEF IInv, Types, Go
<1>1. ASSUME NEW q \in Tools, q # p, pc'[q] \in {"check", "run"} PROVE repo'[req'[q].repo] = q
  <2>1. pc[q] \in {"check", "run"} /\ req'[q] = req[q]
    BY <1>1, Others
  <2>2. repo[req[q].repo] = q /\ req[q].repo \in Repos
    BY <2>1 DEF RepoInv, RequestInv
  <2>3. QED
    BY <1>1, <2>1, <2>2, Others
<1>2. ASSUME pc'[p] \in {"check", "run"} PROVE repo'[req'[p].repo] = p
  <2>1. CASE TakeRepo(p)
    <3>1. req[p].repo \in Repos
      BY <2>1 DEF TakeRepo, RequestInv
    <3>2. QED
      BY <2>1, <3>1 DEF TakeRepo, Hold
  <2>2. CASE Begins(p)
    BY <2>2 DEF Begins, Check, RepoInv
  <2>3. CASE Refuse(p) \/ Replace(p) \/ Die(p)
    BY <1>2, <2>3 DEF Refuse, End, Replace, Die
  <2>4. ASSUME NEW t, NEW rs, Save(p, t, rs) PROVE FALSE
    BY <1>2, <2>4 DEF Save
  <2>5. CASE Asks(p) \/ Lock(p) \/ Submit(p) \/ Keep(p) \/ StartIntegrate(p)
    BY <1>2, <2>5 DEF Asks, Start, Lock, Submit, Keep, StartIntegrate
  <2>6. QED
    BY <2>1, <2>2, <2>3, <2>4, <2>5, StepKinds
<1>3. QED
  BY <1>1, <1>2 DEF RepoInv

LEMMA AcceptedStep == ASSUME IInv, NEW p \in Tools, Step(p) PROVE AcceptedStays'
<1> USE DEF IInv, Types
<1>1. CASE Replace(p)
  <2>1. AsAsked(p, copy[p])
    BY <1>1 DEF Replace, CopyInv, Saving
  <2>2. /\ file' = copy[p]
        /\ \A k \in Key : want'[k] = IF k \in Asked(p) THEN copy[p][k] ELSE want[k]
    BY <1>1 DEF Replace, Merge
  <2>3. QED
    BY <2>1, <2>2 DEF AcceptedStays, AsAsked
<1>2. QED
  BY <1>1, Writers DEF AcceptedStays

(* Nobody edits by hand while a tool saves.                                *)
LEMMA EditStep == ASSUME IInv, EditByHand PROVE IInv'
<1> USE DEF IInv
<1>1. PICK k \in Key \ {Off(r) : r \in Repos} : \E v \in Settings(k, file[k]) \cup {None} :
        file' = [file EXCEPT ![k] = v] /\ want' = [want EXCEPT ![k] = v]
  BY DEF EditByHand
<1>2. PICK v \in Settings(k, file[k]) \cup {None} :
        file' = [file EXCEPT ![k] = v] /\ want' = [want EXCEPT ![k] = v]
  BY <1>1
<1>3. /\ UNCHANGED <<history, include, readable, pc, req, copy, lock, repo>>
      /\ \A p \in Tools : ~Saving(p)
  BY DEF EditByHand, world, Saving
<1>4. v \in Values(k)
  <2>1. None \in Values(k)
    BY KeyFacts, ValueFacts
  <2>2. file[k] \in Values(k)
    BY TextIs DEF Types
  <2>3. QED
    BY <1>2, <2>1, <2>2, SettingType
<1>5. Types'
  BY <1>2, <1>3, <1>4, TextExcept DEF Types
<1>6. AcceptedStays'
  BY <1>2, TextIs DEF Types, AcceptedStays
<1>7. LockInv' /\ RequestInv' /\ CopyInv' /\ RepoInv'
  BY <1>3 DEF LockInv, RequestInv, CopyInv, RepoInv, Inside, Saving
<1>8. QED
  BY <1>5, <1>6, <1>7

LEMMA Invariance == ASSUME IInv, [Next]_vars PROVE IInv'
<1>1. ASSUME NEW p \in Tools, Step(p) PROVE IInv'
  BY <1>1, TypeStep, LockStep, RequestStep, CopyStep, RepoStep, AcceptedStep DEF IInv
<1>2. CASE IncludeChanges \/ UNCHANGED vars
  <2>1. UNCHANGED <<file, history, include, pc, req, copy, lock, repo, want>> /\ readable' \in BOOLEAN
    BY <1>2 DEF IncludeChanges, vars, IInv, Types
  <2>2. Types' /\ AcceptedStays'
    BY <2>1 DEF IInv, Types, AcceptedStays
  <2>3. LockInv' /\ RequestInv' /\ RepoInv'
    BY <2>1 DEF IInv, LockInv, RequestInv, RepoInv, Inside, Saving, OneChange, Shown
  <2>4. CopyInv'
    BY <2>1 DEF IInv, CopyInv, Saving, AsAsked, Asked, Shown, Disables, Registered, AddsNone, IsKept
  <2>5. QED
    BY <2>2, <2>3, <2>4 DEF IInv
<1>3. QED
  BY <1>1, <1>2, EditStep DEF Next, Step

-----------------------------------------------------------------------------
(* The theorems                                                            *)

(* The file, the history within its limit, what tools hold and are asked:  *)
(* all keep their types (writeConfigFile, pruneConfigHistory).             *)
THEOREM TypeCorrect == Spec => []TypeOK
<1>1. IInv => TypeOK
  <2>1. Types => IsText(file) /\ IsText(want)
    BY TextIs DEF Types
  <2>2. Types => \A i \in DOMAIN history : IsText(history[i])
    <3>1. Types => \A i \in DOMAIN history : history[i] \in Text
      BY DEF Types
    <3>2. QED
      BY <3>1, TextIs
  <2>3. Types => \A p \in Tools : IsText(copy[p]) /\ IsText(req[p].shown) /\ IsText(req[p].value)
    BY TextIs DEF Types, Request
  <2>4. QED
    BY <2>1, <2>2, <2>3 DEF IInv, Types, TypeOK
<1>2. QED
  BY <1>1, InitIInv, Invariance, PTL DEF Spec

(* No save of a tool undoes what another, or a hand, asked for, and none   *)
(* writes an included value (localConfig, assertCurrent, applySettings).   *)
THEOREM AcceptedHolds == Spec => []AcceptedStays
<1>1. IInv => AcceptedStays
  BY DEF IInv
<1>2. QED
  BY <1>1, InitIInv, Invariance, PTL DEF Spec

(* Whoever replaces the file has put what was there into the history,      *)
(* whatever its limit (writeConfigFile).                                   *)
THEOREM ReplacedKept == Spec => ReplacedIsKept
<1> DEFINE Body == \A p \in Tools : pc[p] = "write" /\ pc'[p] = "unlock" /\ file' # file
                     => \E i \in DOMAIN history : history[i] = file
<1>1. ASSUME IInv, Next, NEW p \in Tools, pc[p] = "write", file' # file
      PROVE  \E i \in DOMAIN history : history[i] = file
  <2>1. ~EditByHand /\ ~IncludeChanges
    BY <1>1 DEF EditByHand, IncludeChanges
  <2>2. PICK q \in Tools : Step(q)
    BY <1>1, <2>1 DEF Next, Step
  <2>3. Replace(q)
    BY <1>1, <2>2, Writers
  <2>4. q = p
    BY <1>1, <2>3 DEF Replace, IInv, LockInv, Inside, Saving
  <2>5. IsKept(copy[p]) /\ file' = copy[p]
    BY <1>1, <2>3, <2>4 DEF Replace, IInv, CopyInv, Saving
  <2>6. QED
    BY <1>1, <2>5 DEF IsKept
<1>2. IInv /\ [Next]_vars => [Body]_vars
  BY <1>1
<1>3. QED
  BY <1>2, InitIInv, Invariance, PTL DEF Spec, ReplacedIsKept

(* Neither register, enable, disable, the pages of the dashboard nor an    *)
(* edit of a value adds a registration that an include provides.           *)
THEOREM NothingReplacedSilently == Spec => NoSilentReplacement
<1> DEFINE Body == \A r \in include.repos : file[Reg(r)] = None => file'[Reg(r)] = None
<1>1. ASSUME IInv, Next, NEW r \in include.repos, file[Reg(r)] = None PROVE file'[Reg(r)] = None
  <2>1. r \in Repos
    BY <1>1, IncludesAssumption DEF IInv, Types
  <2>2. ASSUME NEW p \in Tools, Step(p) PROVE file'[Reg(r)] = None
    <3>1. CASE Replace(p)
      <4>1. AddsNone(copy[p]) /\ file' = copy[p]
        BY <1>1, <3>1 DEF Replace, IInv, CopyInv, Saving
      <4>2. QED
        BY <1>1, <4>1 DEF AddsNone
    <3>2. QED
      BY <1>1, <2>2, <3>1, Writers
  <2>3. CASE EditByHand
    <3>1. PICK k \in Key : \E v \in Settings(k, file[k]) \cup {None} : file' = [file EXCEPT ![k] = v]
      BY <2>3 DEF EditByHand
    <3>2. PICK v \in Settings(k, file[k]) \cup {None} : file' = [file EXCEPT ![k] = v]
      BY <3>1
    <3>3. DOMAIN file = Key /\ Reg(r) \in Key
      BY <1>1, <2>1, TextIs, KeyFacts DEF IInv, Types
    <3>4. k = Reg(r) => v = None
      BY <1>1, <2>1, <3>2, SettingFacts
    <3>5. QED
      BY <1>1, <3>2, <3>3, <3>4
  <2>4. CASE IncludeChanges
    BY <1>1, <2>4 DEF IncludeChanges
  <2>5. QED
    BY <1>1, <2>2, <2>3, <2>4 DEF Next, Step
<1>2. IInv /\ [Next]_vars => [Body]_vars
  BY <1>1
<1>3. QED
  BY <1>2, InitIInv, Invariance, PTL DEF Spec, NoSilentReplacement

(* A repository that is registered in config.json is not disabled while an *)
(* integration of it runs, and none begins in a disabled one: who disables *)
(* has its lock, and who waited for that looks again.                      *)
THEOREM DisabledIsQuiet == Spec => QuietWhenDisabled
<1> DEFINE Body == \A p \in Tools :
                     LET r == req'[p].repo
                     IN pc'[p] = "run" /\ r \in Registered(file) /\ file'[Off(r)]
                          => pc[p] = "run" /\ file[Off(r)]
<1>1. ASSUME IInv, Next, NEW p \in Tools, pc'[p] = "run", req'[p].repo \in Registered(file),
             file'[Off(req'[p].repo)]
      PROVE  pc[p] = "run" /\ file[Off(req'[p].repo)]
  <2> DEFINE r == req'[p].repo
  <2>1. CASE Step(p)
    <3>1. Begins(p)
      <4>1. ~Refuse(p) /\ ~Asks(p) /\ ~Lock(p) /\ ~Submit(p) /\ ~Keep(p) /\ ~Replace(p)
        BY <1>1 DEF IInv, Types, Go, Refuse, End, Asks, Start, Lock, Submit, Keep, Replace
      <4>2. ~StartIntegrate(p) /\ ~TakeRepo(p) /\ ~Die(p)
        BY <1>1 DEF IInv, Types, Go, StartIntegrate, TakeRepo, Die
      <4>3. \A t, rs : ~Save(p, t, rs)
        BY <1>1 DEF IInv, Types, Go, Save
      <4>4. QED
        BY <2>1, <4>1, <4>2, <4>3, StepKinds
    <3>2. UNCHANGED <<file, req>> /\ ~file[Off(req[p].repo)]
      BY <3>1 DEF Begins, Check, StillEnabled, Enabled
    <3>3. QED
      BY <1>1, <3>2
  <2>2. ASSUME NEW q \in Tools, q # p, Step(q) PROVE pc[p] = "run" /\ file[Off(r)]
    <3>1. pc[p] = "run" /\ req'[p] = req[p]
      BY <1>1, <2>2, Others DEF IInv
    <3>2. repo[r] = p
      BY <1>1, <3>1 DEF IInv, RepoInv
    <3>3. CASE Replace(q)
      <4>1. file' = copy[q] /\ \A s \in Disables(copy[q]) : repo[s] = q
        BY <1>1, <3>3 DEF Replace, IInv, CopyInv, Saving
      <4>2. copy[q][Off(r)] = file[Off(r)]
        BY <1>1, <2>2, <3>2, <4>1 DEF Disables
      <4>3. QED
        BY <1>1, <3>1, <4>1, <4>2
    <3>4. QED
      BY <1>1, <2>2, <3>1, <3>3, Writers
  <2>3. CASE EditByHand
    <3>1. PICK k \in Key \ {Off(s) : s \in Repos} : \E v : file' = [file EXCEPT ![k] = v]
      BY <2>3 DEF EditByHand
    <3>2. PICK v : file' = [file EXCEPT ![k] = v]
      BY <3>1
    <3>3. Off(r) \in Key /\ k # Off(r) /\ DOMAIN file = Key
      BY <1>1, <3>1, TextIs, KeyFacts DEF IInv, Types, Registered
    <3>4. QED
      BY <1>1, <2>3, <3>2, <3>3 DEF EditByHand
  <2>4. CASE IncludeChanges
    BY <1>1, <2>4 DEF IncludeChanges
  <2>5. QED
    BY <1>1, <2>1, <2>2, <2>3, <2>4 DEF Next, Step
<1>2. IInv /\ [Next]_vars => [Body]_vars
  BY <1>1
<1>3. QED
  BY <1>2, InitIInv, Invariance, PTL DEF Spec, QuietWhenDisabled

-----------------------------------------------------------------------------
(* The files setup installs and the builds sessions are pinned to, under   *)
(* the same lock (Installation), for any commands, agents, files, builds,  *)
(* sessions and copies.                                                    *)
CONSTANTS Procs, Harness, Path, AgentOf, Build, Custom, Session, Repair, Damaged
VARIABLES project, placed, receipt, stopped, status, agent, reopened, copies, pinned, lost,
          configLock, step, job
In == INSTANCE Installation WITH file <- placed, lock <- configLock, pc <- step

Retaining == {"digest", "look", "copy", "publish"}

(* The steps a command takes with the configuration lock.                  *)
Locked(p) ==
  \/ step[p] \in {"plan", "stop", "write", "replace", "verify", "enroll", "create"}
  \/ step[p] \in Retaining /\ job[p].kind # "resume"
SetupLockInv == \A p \in Procs : Locked(p) => configLock = p

(* The steps from the plan of a command to its last change.                *)
Working(p) ==
  \/ step[p] \in {"stop", "write", "replace", "verify"}
  \/ step[p] \in Retaining /\ job[p].kind = "setup"

SetupKinds(p) ==
  /\ step[p] \in {"plan", "stop", "write", "replace", "verify", "enroll"}
       => job[p].kind \in {"setup", "uninstall"}
  /\ step[p] = "stop" => job[p].kind = "uninstall"
  /\ step[p] \in {"wait", "create"} => job[p].kind = "begin"
  /\ step[p] \in Retaining => job[p].kind # "none"
  /\ step[p] \in Retaining /\ job[p].kind = "resume" => job[p].session \in Session

(* What is to be changed was owned, and is noted before it is changed.     *)
Plans(p) ==
  /\ Working(p) => \A r \in job[p].todo :
       AgentOf[r] \in job[p].selected /\ job[p].before[r] \in Build \cup {None}
  /\ Working(p) /\ job[p].kind = "setup" => job[p].version \in Build /\ job[p].receipt = receipt
  /\ step[p] \in {"replace", "verify"} =>
       /\ job[p].at \in job[p].todo
       /\ job[p].kind = "setup" => job[p].receipt[job[p].at].current = job[p].version
  /\ step[p] = "replace" => placed[job[p].at] = job[p].before[job[p].at]

Ids(p) ==
  /\ step[p] \in {"look", "copy", "publish", "create"} => job[p].id \in Build
  /\ step[p] \in {"copy", "publish", "create"} => job[p].place \in In!Place

JobInv == \A p \in Procs : SetupKinds(p) /\ Plans(p) /\ Ids(p)

SetupIInv == In!TypeOK /\ SetupLockInv /\ JobInv

LEMMA SetupInitIInv == ASSUME In!InstallationAssumption PROVE In!Init => SetupIInv
<1> SUFFICES ASSUME In!Init PROVE SetupIInv
  OBVIOUS
<1> USE In!InstallationAssumption DEF In!InstallationAssumption, In!Init, In!NoJob, In!NoReceipt
<1>1. In!NoReceipt \in [Path -> In!Note]
  BY DEF In!Note
<1>2. In!NoJob \in In!Job
  BY <1>1 DEF In!Job
<1>3. In!TypeOK
  BY <1>1, <1>2 DEF In!TypeOK, In!Steps
<1>4. SetupLockInv
  BY DEF SetupLockInv, Locked, Retaining
<1>5. JobInv
  BY DEF JobInv, SetupKinds, Plans, Ids, Working, Retaining
<1>6. QED
  BY <1>3, <1>4, <1>5 DEF SetupIInv

(* A command changes its own step and job only.                            *)
LEMMA SetupOthers ==
  ASSUME SetupIInv, NEW p \in Procs, In!Step(p), NEW q \in Procs, q # p
  PROVE  step'[q] = step[q] /\ job'[q] = job[q]
<1> USE DEF SetupIInv, In!TypeOK, In!Goto, In!Holds, In!Leave
<1>1. CASE In!Start(p) \/ In!Defer(p) \/ In!Plan(p) \/ In!Stop(p) \/ In!Check(p) \/ In!Replace(p) \/ In!Verify(p)
  BY <1>1 DEF In!Start, In!Defer, In!Plan, In!Stop, In!Check, In!Replace, In!Verify
<1>2. CASE In!SaveReceipt(p) \/ In!Enroll(p) \/ In!Ask(p) \/ In!TakeLock(p) \/ In!Create(p) \/ In!Resume(p)
  BY <1>2 DEF In!SaveReceipt, In!Enroll, In!Ask, In!TakeLock, In!Create, In!Resume
<1>3. CASE In!Digest(p) \/ In!Look(p) \/ In!Copy(p) \/ In!Publish(p) \/ In!Throw(p) \/ In!Die(p)
  BY <1>3 DEF In!Digest, In!Look, In!Copy, In!Publish, In!Retained, In!Throw, In!Die
<1>4. QED
  BY <1>1, <1>2, <1>3 DEF In!Step

LEMMA NoJobType == ASSUME In!InstallationAssumption PROVE In!NoJob \in In!Job
<1>1. In!NoReceipt \in [Path -> In!Note]
  BY DEF In!Note, In!NoReceipt
<1>2. QED
  BY <1>1 DEF In!Job, In!NoJob

(* Types, one group of variables after the other.                          *)
LEMMA StepsType ==
  ASSUME SetupIInv, NEW p \in Procs, In!Step(p)
  PROVE  step' \in [Procs -> In!Steps] /\ configLock' \in Procs \cup {None} /\ project' \in Build
<1> USE DEF SetupIInv, In!TypeOK, In!Goto, In!Leave, In!Release, In!Steps
<1>1. CASE In!Start(p) \/ In!Defer(p) \/ In!Plan(p) \/ In!Stop(p) \/ In!Check(p) \/ In!Replace(p) \/ In!Verify(p)
  BY <1>1 DEF In!Start, In!Defer, In!Plan, In!Stop, In!Check, In!Replace, In!Verify
<1>2. CASE In!SaveReceipt(p) \/ In!Enroll(p) \/ In!Ask(p) \/ In!TakeLock(p) \/ In!Create(p) \/ In!Resume(p)
  BY <1>2 DEF In!SaveReceipt, In!Enroll, In!Ask, In!TakeLock, In!Create, In!Resume
<1>3. CASE In!Digest(p) \/ In!Look(p) \/ In!Copy(p)
  BY <1>3 DEF In!Digest, In!Look, In!Copy, In!Retained
<1>4. CASE In!Publish(p) \/ In!Throw(p) \/ In!Die(p)
  BY <1>4 DEF In!Publish, In!Retained, In!Throw, In!Die
<1>5. QED
  BY <1>1, <1>2, <1>3, <1>4 DEF In!Step

LEMMA Held ==
  ASSUME In!TypeOK, NEW p \in Procs, NEW j \in In!Job, In!Holds(p, j) PROVE job' \in [Procs -> In!Job]
  BY DEF In!TypeOK, In!Holds

LEMMA JobsType ==
  ASSUME In!InstallationAssumption, SetupIInv, NEW p \in Procs, In!Step(p) PROVE job' \in [Procs -> In!Job]
<1> DEFINE j == job[p]
<1>0. In!TypeOK /\ j \in In!Job /\ In!NoJob \in In!Job /\ SetupKinds(p) /\ Plans(p) /\ Ids(p)
  BY NoJobType DEF SetupIInv, In!TypeOK, JobInv
<1>1. CASE In!Start(p)
  <2>1. PICK kind \in {"setup", "uninstall"}, chosen \in SUBSET Harness :
          In!Holds(p, [j EXCEPT !.kind = kind, !.selected = chosen])
    BY <1>1 DEF In!Start
  <2>2. [j EXCEPT !.kind = kind, !.selected = chosen] \in In!Job
    BY <1>0 DEF In!Job
  <2>3. QED
    BY <1>0, <2>1, <2>2, Held
<1>2. CASE In!Defer(p) \/ In!Stop(p) \/ In!Replace(p) \/ In!SaveReceipt(p) \/ In!TakeLock(p)
  BY <1>0, <1>2 DEF In!TypeOK, In!Defer, In!Stop, In!Replace, In!SaveReceipt, In!TakeLock
<1>3. CASE In!Plan(p)
  <2> DEFINE owned == {r \in Path : AgentOf[r] \in j.selected /\ In!Owned(r)}
             k == [j EXCEPT !.todo = owned, !.before = placed, !.receipt = receipt, !.version = project]
  <2>1. In!Holds(p, k)
    BY <1>3 DEF In!Plan
  <2>2. owned \in SUBSET Path
    OBVIOUS
  <2>3. k \in In!Job
    <3> HIDE DEF owned
    <3> QED
      BY <1>0, <2>2 DEF In!Job, In!TypeOK
  <2>4. QED
    BY <1>0, <2>1, <2>3, Held
<1>4. CASE In!Check(p)
  <2>1. PICK r \in j.todo : In!Holds(p, [j EXCEPT !.at = r, !.receipt = In!Noted(j, r)])
    BY <1>4 DEF In!Check
  <2>2. r \in Path /\ j.before[r] \in Build \cup {None}
    BY <1>0, <1>4, <2>1 DEF In!Check, In!Goto, Plans, Working, In!Job
  <2>3. In!Noted(j, r) \in [Path -> In!Note]
    BY <1>0, <2>2 DEF In!Noted, In!Note, In!Job
  <2>4. [j EXCEPT !.at = r, !.receipt = In!Noted(j, r)] \in In!Job
    <3> DEFINE n == In!Noted(j, r)
    <3>1. n \in [Path -> In!Note]
      BY <2>3
    <3> HIDE DEF n
    <3>2. [j EXCEPT !.at = r, !.receipt = n] \in In!Job
      BY <1>0, <2>2, <3>1 DEF In!Job
    <3> QED
      BY <3>2 DEF n
  <2>5. QED
    BY <1>0, <2>1, <2>4, Held
<1>5. CASE In!Verify(p)
  <2> DEFINE n == [j.receipt EXCEPT ![j.at].current = In!After(j)]
  <2>1. In!Holds(p, [j EXCEPT !.todo = @ \ {j.at}, !.receipt[j.at].current = In!After(j)])
    BY <1>5 DEF In!Verify
  <2>2. j.at \in Path /\ In!After(j) \in Build \cup {None}
    BY <1>0, <1>5 DEF In!Verify, In!Goto, Plans, In!Job, In!After
  <2>3. n \in [Path -> In!Note]
    BY <1>0, <2>2 DEF In!Job, In!Note
  <2>4. [j EXCEPT !.todo = @ \ {j.at}, !.receipt = n] \in In!Job
    <3> HIDE DEF n
    <3> QED
      BY <1>0, <2>3 DEF In!Job
  <2>5. [j EXCEPT !.todo = @ \ {j.at}, !.receipt[j.at].current = In!After(j)]
          = [j EXCEPT !.todo = @ \ {j.at}, !.receipt = n]
    BY <1>0 DEF In!Job
  <2>6. QED
    BY <1>0, <2>1, <2>4, <2>5, Held
<1>6. CASE In!Enroll(p) \/ In!Create(p) \/ In!Throw(p)
  BY <1>0, <1>6, Held DEF In!Enroll, In!Create, In!Throw, In!Leave
<1>7. CASE In!Die(p)
  BY <1>0, <1>7, Held DEF In!Die
<1>8. CASE In!Ask(p)
  <2>1. PICK h \in Harness : In!Holds(p, [j EXCEPT !.kind = "begin", !.selected = {h}])
    BY <1>8 DEF In!Ask
  <2>2. [j EXCEPT !.kind = "begin", !.selected = {h}] \in In!Job
    BY <1>0 DEF In!Job
  <2>3. QED
    BY <1>0, <2>1, <2>2, Held
<1>9. CASE In!Resume(p)
  <2>1. PICK s \in Session : In!Holds(p, [j EXCEPT !.kind = "resume", !.session = s])
    BY <1>9 DEF In!Resume
  <2>2. [j EXCEPT !.kind = "resume", !.session = s] \in In!Job
    BY <1>0 DEF In!Job
  <2>3. QED
    BY <1>0, <2>1, <2>2, Held
<1>10. CASE In!Digest(p)
  <2>1. [j EXCEPT !.id = project] \in In!Job
    BY <1>0 DEF In!Job, In!TypeOK
  <2>2. QED
    BY <1>0, <1>10, <2>1, Held DEF In!Digest
<1>11. ASSUME NEW c \in In!Coordinator, In!Retained(p, c) PROVE job' \in [Procs -> In!Job]
  <2>1. [j EXCEPT !.place = c.place, !.temp = None] \in In!Job
    BY <1>0, <1>11 DEF In!Job, In!Coordinator
  <2>2. In!Holds(p, [j EXCEPT !.place = c.place, !.temp = None]) \/ In!Holds(p, In!NoJob)
    BY <1>11 DEF In!Retained, In!Leave
  <2>3. QED
    BY <1>0, <2>1, <2>2, Held
<1>12. CASE In!Look(p)
  <2> DEFINE c == [id |-> j.id, place |-> <<j.id, None>>]
  <2>1. j.id \in Build
    BY <1>0, <1>12 DEF In!Look, Ids
  <2>2. c \in In!Coordinator
    BY <2>1 DEF In!Coordinator, In!Place
  <2>3. CASE In!Retained(p, c)
    BY <1>11, <2>2, <2>3
  <2>4. ASSUME NEW n \in Repair \cup {None}, In!Holds(p, [j EXCEPT !.place = <<j.id, n>>])
        PROVE job' \in [Procs -> In!Job]
    <3>1. [j EXCEPT !.place = <<j.id, n>>] \in In!Job
      BY <1>0, <2>1 DEF In!Job, In!Place
    <3>2. QED
      BY <1>0, <2>4, <3>1, Held
  <2>5. QED
    BY <1>12, <2>3, <2>4 DEF In!Look
<1>13. CASE In!Copy(p)
  <2>1. PICK what \in {project, Damaged} : In!Holds(p, [j EXCEPT !.temp = what])
    BY <1>13 DEF In!Copy
  <2>2. [j EXCEPT !.temp = what] \in In!Job
    BY <1>0 DEF In!Job, In!TypeOK
  <2>3. QED
    BY <1>0, <2>1, <2>2, Held
<1>14. CASE In!Publish(p)
  <2>1. [id |-> j.id, place |-> j.place] \in In!Coordinator
    BY <1>0, <1>14 DEF In!Publish, Ids, In!Coordinator
  <2>2. QED
    BY <1>11, <1>14, <2>1 DEF In!Publish
<1>15. QED
  BY <1>1, <1>2, <1>3, <1>4, <1>5, <1>6, <1>7, <1>8, <1>9, <1>10, <1>12, <1>13, <1>14 DEF In!Step

LEMMA FilesType ==
  ASSUME In!InstallationAssumption, SetupIInv, NEW p \in Procs, In!Step(p)
  PROVE  /\ placed' \in [Path -> Build \cup Custom \cup {None}] /\ receipt' \in [Path -> In!Note]
         /\ stopped' \subseteq Harness
<1> DEFINE j == job[p]
<1>0. In!TypeOK /\ j \in In!Job /\ SetupKinds(p) /\ Plans(p)
  BY DEF SetupIInv, In!TypeOK, JobInv
<1>1. CASE In!Defer(p) \/ In!Stop(p)
  BY <1>0, <1>1 DEF In!TypeOK, In!Job, In!Defer, In!Stop
<1>2. CASE In!Check(p)
  <2>1. job' \in [Procs -> In!Job]
    BY JobsType
  <2>2. receipt' = receipt \/ receipt' = job'[p].receipt
    BY <1>0, <1>2 DEF In!Check, In!Holds, In!TypeOK, In!Job
  <2>3. receipt' \in [Path -> In!Note]
    BY <1>0, <2>1, <2>2 DEF In!TypeOK, In!Job
  <2>4. QED
    BY <1>0, <1>2, <2>3 DEF In!TypeOK, In!Check
<1>3. CASE In!Replace(p)
  <2>1. j.at \in Path /\ In!After(j) \in Build \cup {None}
    BY <1>0, <1>3 DEF In!Replace, In!Goto, Plans, In!Job, In!After
  <2>2. QED
    BY <1>0, <1>3, <2>1 DEF In!TypeOK, In!Replace
<1>4. CASE In!SaveReceipt(p) \/ In!Enroll(p)
  BY <1>0, <1>4 DEF In!TypeOK, In!Job, In!SaveReceipt, In!Enroll
<1>5. CASE In!Start(p) \/ In!Plan(p) \/ In!Verify(p) \/ In!Ask(p) \/ In!TakeLock(p) \/ In!Create(p) \/ In!Resume(p)
  BY <1>0, <1>5 DEF In!TypeOK, In!installed, In!Start, In!Plan, In!Verify, In!Ask, In!TakeLock,
       In!Create, In!Resume
<1>6. CASE In!Digest(p) \/ In!Look(p) \/ In!Copy(p) \/ In!Publish(p) \/ In!Throw(p) \/ In!Die(p)
  BY <1>0, <1>6 DEF In!TypeOK, In!installed, In!Digest, In!Look, In!Copy, In!Publish, In!Retained,
       In!Throw, In!Die
<1>7. QED
  BY <1>1, <1>2, <1>3, <1>4, <1>5, <1>6 DEF In!Step

LEMMA SessionsType ==
  ASSUME In!InstallationAssumption, SetupIInv, NEW p \in Procs, In!Step(p)
  PROVE  /\ status' \in [Session -> {"none", "unfinished", "succeeded", "no_changes", "abandoned"}]
         /\ agent' \in [Session -> Harness \cup {None}] /\ reopened' \subseteq Session
         /\ pinned' \in [Session -> SUBSET In!Coordinator]
<1> DEFINE j == job[p]
<1>0. In!TypeOK /\ j \in In!Job /\ SetupKinds(p) /\ Ids(p)
  BY DEF SetupIInv, In!TypeOK, JobInv
<1>1. CASE In!Create(p)
  <2>1. [id |-> j.id, place |-> j.place] \in In!Coordinator
    BY <1>0, <1>1 DEF In!Create, In!Leave, In!Goto, Ids, In!Coordinator
  <2>2. j.selected \subseteq Harness
    BY <1>0 DEF In!Job
  <2>3. QED
    BY <1>0, <1>1, <2>1, <2>2 DEF In!Create, In!TypeOK
<1>2. ASSUME NEW c \in In!Coordinator, In!Retained(p, c)
      PROVE  /\ UNCHANGED <<status, agent, reopened>> /\ pinned' \in [Session -> SUBSET In!Coordinator]
  <2>1. pinned' = pinned \/ \E s : pinned' = [pinned EXCEPT ![s] = @ \cup {c}]
    BY <1>2 DEF In!Retained
  <2>2. QED
    BY <1>0, <1>2, <2>1 DEF In!Retained, In!TypeOK
<1>3. CASE In!Look(p)
  <2>1. [id |-> j.id, place |-> <<j.id, None>>] \in In!Coordinator
    BY <1>0, <1>3 DEF In!Look, Ids, In!Coordinator, In!Place
  <2>2. QED
    BY <1>0, <1>2, <1>3, <2>1 DEF In!Look, In!TypeOK, In!sessions
<1>4. CASE In!Publish(p)
  <2>1. [id |-> j.id, place |-> j.place] \in In!Coordinator
    BY <1>0, <1>4 DEF In!Publish, Ids, In!Coordinator
  <2>2. QED
    BY <1>0, <1>2, <1>4, <2>1 DEF In!Publish, In!TypeOK
<1>5. CASE In!Start(p) \/ In!Defer(p) \/ In!Plan(p) \/ In!Stop(p) \/ In!Check(p) \/ In!Replace(p) \/ In!Verify(p)
  BY <1>0, <1>5 DEF In!TypeOK, In!sessions, In!Start, In!Defer, In!Plan, In!Stop, In!Check,
       In!Replace, In!Verify
<1>6. CASE In!SaveReceipt(p) \/ In!Enroll(p) \/ In!Ask(p) \/ In!TakeLock(p) \/ In!Resume(p)
  BY <1>0, <1>6 DEF In!TypeOK, In!sessions, In!SaveReceipt, In!Enroll, In!Ask, In!TakeLock,
       In!Resume
<1>7. CASE In!Digest(p) \/ In!Copy(p) \/ In!Throw(p) \/ In!Die(p)
  BY <1>0, <1>7 DEF In!TypeOK, In!sessions, In!Digest, In!Copy, In!Throw, In!Die
<1>8. QED
  BY <1>1, <1>3, <1>4, <1>5, <1>6, <1>7 DEF In!Step

LEMMA CopiesType ==
  ASSUME SetupIInv, NEW p \in Procs, In!Step(p)
  PROVE  copies' \in [In!Place -> Build \cup {None, Damaged}] /\ lost' \subseteq In!Place
<1>0. In!TypeOK /\ Ids(p)
  BY DEF SetupIInv, In!TypeOK, JobInv
<1>1. CASE In!Publish(p)
  <2>1. job[p].temp \in Build
    BY <1>0, <1>1 DEF In!Publish, Ids
  <2>2. QED
    BY <1>0, <1>1, <2>1 DEF In!Publish, In!Retained, In!TypeOK
<1>2. CASE In!Look(p)
  BY <1>0, <1>2 DEF In!Look, In!Retained, In!TypeOK, In!kept
<1>3. CASE In!Start(p) \/ In!Defer(p) \/ In!Plan(p) \/ In!Stop(p) \/ In!Check(p) \/ In!Replace(p) \/ In!Verify(p)
  BY <1>0, <1>3 DEF In!TypeOK, In!kept, In!Start, In!Defer, In!Plan, In!Stop, In!Check, In!Replace,
       In!Verify
<1>4. CASE In!SaveReceipt(p) \/ In!Enroll(p) \/ In!Ask(p) \/ In!TakeLock(p) \/ In!Create(p) \/ In!Resume(p)
  BY <1>0, <1>4 DEF In!TypeOK, In!kept, In!SaveReceipt, In!Enroll, In!Ask, In!TakeLock, In!Create,
       In!Resume
<1>5. CASE In!Digest(p) \/ In!Copy(p) \/ In!Throw(p) \/ In!Die(p)
  BY <1>0, <1>5 DEF In!TypeOK, In!kept, In!Digest, In!Copy, In!Throw, In!Die
<1>6. QED
  BY <1>1, <1>2, <1>3, <1>4, <1>5 DEF In!Step

(* What is not a step of a command: sessions end and are reopened, users.  *)
Environment ==
  \/ \E s \in Session : In!End(s) \/ In!Restore(s) \/ In!StaleSave(s)
  \/ \E r \in Path : In!UserEdits(r)
  \/ In!RemoveLeftover \/ In!Rebuild \/ \E l \in In!Place : In!Lose(l)

LEMMA TypeKept ==
  ASSUME In!InstallationAssumption, SetupIInv, [In!Next]_In!vars PROVE In!TypeOK'
<1>0. In!TypeOK
  BY DEF SetupIInv
<1>1. ASSUME NEW p \in Procs, In!Step(p) PROVE In!TypeOK'
  BY <1>1, StepsType, JobsType, FilesType, SessionsType, CopiesType DEF In!TypeOK
<1>2. CASE Environment
  BY <1>0, <1>2 DEF Environment, In!TypeOK, In!installed, In!sessions, In!kept, In!End, In!Restore,
       In!StaleSave, In!UserEdits, In!RemoveLeftover, In!Rebuild, In!Lose
<1>3. CASE UNCHANGED In!vars
  BY <1>0, <1>3 DEF In!TypeOK, In!vars
<1>4. QED
  BY <1>1, <1>2, <1>3 DEF In!Next, Environment

LEMMA LockMoves ==
  ASSUME NEW p \in Procs, In!Step(p)
  PROVE  configLock' = configLock \/ (configLock = None /\ configLock' = p) \/ (configLock = p /\ configLock' = None)
<1> USE DEF In!Leave, In!Release
<1>1. CASE In!Start(p) \/ In!Defer(p) \/ In!Plan(p) \/ In!Stop(p) \/ In!Check(p) \/ In!Replace(p) \/ In!Verify(p)
  BY <1>1 DEF In!Start, In!Defer, In!Plan, In!Stop, In!Check, In!Replace, In!Verify
<1>2. CASE In!SaveReceipt(p) \/ In!Enroll(p) \/ In!Ask(p) \/ In!TakeLock(p) \/ In!Create(p) \/ In!Resume(p)
  BY <1>2 DEF In!SaveReceipt, In!Enroll, In!Ask, In!TakeLock, In!Create, In!Resume
<1>3. CASE In!Digest(p) \/ In!Look(p) \/ In!Copy(p) \/ In!Publish(p) \/ In!Throw(p) \/ In!Die(p)
  BY <1>3 DEF In!Digest, In!Look, In!Copy, In!Publish, In!Retained, In!Throw, In!Die
<1>4. QED
  BY <1>1, <1>2, <1>3 DEF In!Step

LEMMA OwnLock ==
  ASSUME In!InstallationAssumption, SetupIInv, NEW p \in Procs, In!Step(p) PROVE Locked(p)' => configLock' = p
<1> USE DEF In!Goto, In!Holds, In!Leave, Locked, Retaining
<1>0. /\ step \in [Procs -> In!Steps] /\ job \in [Procs -> In!Job] /\ job[p] \in In!Job
      /\ Locked(p) => configLock = p
  BY DEF SetupIInv, In!TypeOK, SetupLockInv
<1>1. CASE In!Start(p) \/ In!TakeLock(p)
  BY <1>1 DEF In!Start, In!TakeLock
<1>2. CASE In!Defer(p) \/ In!Plan(p) \/ In!Stop(p) \/ In!Check(p) \/ In!Replace(p) \/ In!Verify(p) \/ In!SaveReceipt(p)
  BY <1>0, <1>2 DEF In!Defer, In!Plan, In!Stop, In!Check, In!Replace, In!Verify, In!SaveReceipt
<1>3. CASE In!Enroll(p) \/ In!Ask(p) \/ In!Create(p) \/ In!Throw(p) \/ In!Die(p)
  BY <1>0, <1>3 DEF In!Enroll, In!Ask, In!Create, In!Throw, In!Die
<1>4. CASE In!Resume(p)
  <2>1. job'[p].kind = "resume"
    BY <1>0, <1>4 DEF In!Resume, In!Job
  <2>2. QED
    BY <1>0, <1>4, <2>1 DEF In!Resume
<1>9. CASE In!Digest(p) \/ In!Copy(p)
  <2>1. job'[p].kind = job[p].kind
    BY <1>0, <1>9 DEF In!Digest, In!Copy, In!Job
  <2>2. QED
    BY <1>0, <1>9, <2>1 DEF In!Digest, In!Copy
<1>5. ASSUME NEW c, In!Retained(p, c), step[p] \in Retaining PROVE Locked(p)' => configLock' = p
  BY <1>0, <1>5 DEF In!Retained, In!Job
<1>6. CASE In!Look(p)
  <2>1. CASE In!Retained(p, [id |-> job[p].id, place |-> <<job[p].id, None>>])
    BY <1>5, <1>6, <2>1 DEF In!Look
  <2>2. ASSUME NEW n, In!Holds(p, [job[p] EXCEPT !.place = <<job[p].id, n>>]), UNCHANGED configLock
        PROVE  Locked(p)' => configLock' = p
    <3>1. job'[p].kind = job[p].kind
      BY <1>0, <2>2 DEF In!Job
    <3>2. step[p] = "look"
      BY <1>6 DEF In!Look
    <3>3. Locked(p)' => (step'[p] = "copy" /\ job[p].kind # "resume") \/ configLock' = p
      BY <1>0, <1>6, <3>1, <3>2 DEF In!Look, In!Retained
    <3>4. QED
      BY <1>0, <2>2, <3>2, <3>3
  <2>3. QED
    BY <1>6, <2>1, <2>2 DEF In!Look
<1>7. CASE In!Publish(p)
  BY <1>5, <1>7 DEF In!Publish
<1>8. QED
  BY <1>1, <1>2, <1>3, <1>4, <1>6, <1>7, <1>9 DEF In!Step

LEMMA LockKept ==
  ASSUME In!InstallationAssumption, SetupIInv, [In!Next]_In!vars PROVE SetupLockInv'
<1> SUFFICES ASSUME NEW q \in Procs, Locked(q)' PROVE configLock' = q
  BY DEF SetupLockInv
<1>0. (Locked(q) => configLock = q) /\ None \notin Procs
  BY DEF SetupIInv, SetupLockInv, In!InstallationAssumption
<1>1. ASSUME NEW p \in Procs, In!Step(p) PROVE configLock' = q
  <2>1. CASE q = p
    BY <1>1, <2>1, OwnLock
  <2>2. CASE q # p
    <3>1. step'[q] = step[q] /\ job'[q] = job[q]
      BY <1>1, <2>2, SetupOthers
    <3>2. configLock = q
      BY <1>0, <3>1 DEF Locked
    <3>3. QED
      BY <1>0, <1>1, <2>2, <3>2, LockMoves
  <2>3. QED
    BY <2>1, <2>2
<1>2. CASE Environment
  BY <1>0, <1>2 DEF Environment, Locked, Retaining, In!End, In!Restore, In!StaleSave, In!UserEdits,
       In!RemoveLeftover, In!Rebuild, In!Lose
<1>3. CASE UNCHANGED In!vars
  BY <1>0, <1>3 DEF In!vars, Locked
<1>4. QED
  BY <1>1, <1>2, <1>3 DEF In!Next, Environment

(* Files and receipts change under the lock only.                          *)
LEMMA UnlockedKeeps ==
  ASSUME NEW p \in Procs, In!Step(p), ~Locked(p) PROVE UNCHANGED <<placed, receipt>>
<1> USE DEF In!Goto, In!Leave, Locked, In!installed
<1>1. CASE In!Start(p) \/ In!Defer(p) \/ In!Plan(p) \/ In!Stop(p) \/ In!Check(p) \/ In!Replace(p) \/ In!Verify(p)
  BY <1>1 DEF In!Start, In!Defer, In!Plan, In!Stop, In!Check, In!Replace, In!Verify
<1>2. CASE In!SaveReceipt(p) \/ In!Enroll(p) \/ In!Ask(p) \/ In!TakeLock(p) \/ In!Create(p) \/ In!Resume(p)
  BY <1>2 DEF In!SaveReceipt, In!Enroll, In!Ask, In!TakeLock, In!Create, In!Resume
<1>3. CASE In!Digest(p) \/ In!Look(p) \/ In!Copy(p) \/ In!Publish(p) \/ In!Throw(p) \/ In!Die(p)
  BY <1>3 DEF In!Digest, In!Look, In!Copy, In!Publish, In!Retained, In!Throw, In!Die
<1>4. QED
  BY <1>1, <1>2, <1>3 DEF In!Step

LEMMA OwnKinds ==
  ASSUME SetupIInv, NEW p \in Procs, In!Step(p) PROVE SetupKinds(p)'
<1> USE DEF SetupKinds, In!Goto, In!Holds, In!Leave, Retaining, In!NoJob
<1>0. step \in [Procs -> In!Steps] /\ job \in [Procs -> In!Job] /\ job[p] \in In!Job /\ SetupKinds(p)
  BY DEF SetupIInv, In!TypeOK, JobInv
<1>1. CASE In!Enroll(p) \/ In!Create(p) \/ In!Throw(p) \/ In!Die(p)
  BY <1>0, <1>1 DEF In!Enroll, In!Create, In!Throw, In!Die
<1>2. CASE In!Defer(p) \/ In!Stop(p) \/ In!Replace(p) \/ In!SaveReceipt(p) \/ In!TakeLock(p)
  BY <1>0, <1>2 DEF In!Defer, In!Stop, In!Replace, In!SaveReceipt, In!TakeLock
<1>3. CASE In!Plan(p) \/ In!Check(p) \/ In!Verify(p)
  <2>1. job'[p].kind = job[p].kind
    <3>1. CASE In!Plan(p)
      BY <1>0, <3>1 DEF In!Plan, In!Job
    <3>2. CASE In!Check(p)
      BY <1>0, <3>2 DEF In!Check, In!Job
    <3>3. CASE In!Verify(p)
      BY <1>0, <3>3 DEF In!Verify, In!Job
    <3>4. QED
      BY <1>3, <3>1, <3>2, <3>3
  <2>2. QED
    BY <1>0, <1>3, <2>1 DEF In!Plan, In!Check, In!Verify
<1>4. CASE In!Start(p)
  <2>1. job'[p].kind \in {"setup", "uninstall"}
    BY <1>0, <1>4 DEF In!Start, In!Job
  <2>2. QED
    BY <1>0, <1>4, <2>1 DEF In!Start
<1>5. CASE In!Ask(p)
  <2>1. job'[p].kind = "begin"
    BY <1>0, <1>5 DEF In!Ask, In!Job
  <2>2. QED
    BY <1>0, <1>5, <2>1 DEF In!Ask
<1>6. CASE In!Resume(p)
  <2>1. job'[p].kind = "resume" /\ job'[p].session \in Session
    BY <1>0, <1>6 DEF In!Resume, In!Job
  <2>2. QED
    BY <1>0, <1>6, <2>1 DEF In!Resume
<1>7. CASE In!Digest(p) \/ In!Copy(p)
  <2>1. job'[p].kind = job[p].kind /\ job'[p].session = job[p].session
    BY <1>0, <1>7 DEF In!Digest, In!Copy, In!Job
  <2>2. QED
    BY <1>0, <1>7, <2>1 DEF In!Digest, In!Copy
<1>8. ASSUME NEW c, In!Retained(p, c) PROVE SetupKinds(p)'
  <2>1. CASE job[p].kind \in {"begin", "setup"}
    <3>0. job'[p] = [job[p] EXCEPT !.place = c.place, !.temp = None]
      BY <1>0, <1>8, <2>1 DEF In!Retained
    <3>1. job'[p].kind = job[p].kind
      BY <1>0, <3>0 DEF In!Job
    <3>2. QED
      BY <1>0, <1>8, <2>1, <3>1 DEF In!Retained
  <2>2. CASE job[p].kind \notin {"begin", "setup"}
    <3>1. In!Leave(p, step[p])
      BY <1>8, <2>2 DEF In!Retained
    <3>2. step'[p] = "idle"
      BY <1>0, <3>1
    <3>3. QED
      BY <3>2
  <2>3. QED
    BY <2>1, <2>2
<1>9. CASE In!Look(p)
  <2>1. CASE In!Retained(p, [id |-> job[p].id, place |-> <<job[p].id, None>>])
    BY <1>8, <2>1
  <2>2. CASE ~In!Retained(p, [id |-> job[p].id, place |-> <<job[p].id, None>>])
    <3>1. step' = [step EXCEPT ![p] = "copy"] /\ step[p] = "look"
      BY <1>9, <2>2 DEF In!Look
    <3>0. PICK n : job'[p] = [job[p] EXCEPT !.place = <<job[p].id, n>>]
      BY <1>0, <1>9, <2>2 DEF In!Look
    <3>2. job'[p].kind = job[p].kind /\ job'[p].session = job[p].session
      BY <1>0, <3>0 DEF In!Job
    <3>3. QED
      BY <1>0, <3>1, <3>2
  <2>3. QED
    BY <2>1, <2>2
<1>10. CASE In!Publish(p)
  BY <1>8, <1>10 DEF In!Publish
<1>11. QED
  BY <1>1, <1>2, <1>3, <1>4, <1>5, <1>6, <1>7, <1>9, <1>10 DEF In!Step

LEMMA OwnIds ==
  ASSUME SetupIInv, NEW p \in Procs, In!Step(p) PROVE Ids(p)'
<1> USE DEF Ids, In!Goto, In!Holds, In!Leave
<1>0. /\ step \in [Procs -> In!Steps] /\ job \in [Procs -> In!Job] /\ job[p] \in In!Job /\ Ids(p)
      /\ project \in Build
  BY DEF SetupIInv, In!TypeOK, JobInv
<1>1. CASE In!Start(p) \/ In!Defer(p) \/ In!Plan(p) \/ In!Stop(p) \/ In!Check(p) \/ In!Replace(p) \/ In!Verify(p)
  BY <1>0, <1>1 DEF In!Start, In!Defer, In!Plan, In!Stop, In!Check, In!Replace, In!Verify
<1>2. CASE In!SaveReceipt(p) \/ In!Enroll(p) \/ In!Ask(p) \/ In!TakeLock(p) \/ In!Create(p) \/ In!Resume(p)
  BY <1>0, <1>2 DEF In!SaveReceipt, In!Enroll, In!Ask, In!TakeLock, In!Create, In!Resume
<1>3. CASE In!Throw(p) \/ In!Die(p)
  BY <1>0, <1>3 DEF In!Throw, In!Die
<1>4. CASE In!Digest(p)
  <2>1. job'[p].id = project
    BY <1>0, <1>4 DEF In!Digest, In!Job
  <2>2. QED
    BY <1>0, <1>4, <2>1 DEF In!Digest
<1>5. CASE In!Copy(p)
  <2>1. job'[p].id = job[p].id /\ job'[p].place = job[p].place
    BY <1>0, <1>5 DEF In!Copy, In!Job
  <2>2. QED
    BY <1>0, <1>5, <2>1 DEF In!Copy
<1>6. ASSUME NEW c, In!Retained(p, c), job[p].id \in Build, c.place \in In!Place PROVE Ids(p)'
  <2>1. CASE job[p].kind \in {"begin", "setup"}
    <3>0. job'[p] = [job[p] EXCEPT !.place = c.place, !.temp = None]
      BY <1>0, <1>6, <2>1 DEF In!Retained
    <3>1. job'[p].id = job[p].id /\ job'[p].place = c.place
      BY <1>0, <3>0 DEF In!Job
    <3>2. QED
      BY <1>0, <1>6, <2>1, <3>1 DEF In!Retained
  <2>2. CASE job[p].kind \notin {"begin", "setup"}
    <3>1. In!Leave(p, step[p])
      BY <1>6, <2>2 DEF In!Retained
    <3>2. step'[p] = "idle"
      BY <1>0, <3>1
    <3>3. QED
      BY <3>2
  <2>3. QED
    BY <2>1, <2>2
<1>7. CASE In!Look(p)
  <2>0. job[p].id \in Build /\ <<job[p].id, None>> \in In!Place
    BY <1>0, <1>7 DEF In!Look, In!Place
  <2>1. CASE In!Retained(p, [id |-> job[p].id, place |-> <<job[p].id, None>>])
    BY <1>6, <2>0, <2>1
  <2>2. CASE ~In!Retained(p, [id |-> job[p].id, place |-> <<job[p].id, None>>])
    <3>1. PICK n \in Repair \cup {None} : In!Holds(p, [job[p] EXCEPT !.place = <<job[p].id, n>>])
      BY <1>7, <2>2 DEF In!Look
    <3>2. job'[p].id = job[p].id /\ job'[p].place = <<job[p].id, n>>
      BY <1>0, <3>1 DEF In!Job
    <3>3. <<job[p].id, n>> \in In!Place
      BY <2>0 DEF In!Place
    <3>4. step'[p] = "copy"
      BY <1>0, <1>7, <2>2 DEF In!Look
    <3>5. QED
      BY <2>0, <3>2, <3>3, <3>4
  <2>3. QED
    BY <2>1, <2>2
<1>8. CASE In!Publish(p)
  <2>1. job[p].id \in Build /\ job[p].place \in In!Place
    BY <1>0, <1>8 DEF In!Publish
  <2>2. QED
    BY <1>6, <1>8, <2>1 DEF In!Publish
<1>9. QED
  BY <1>1, <1>2, <1>3, <1>4, <1>5, <1>7, <1>8 DEF In!Step

LEMMA OwnPlans ==
  ASSUME In!InstallationAssumption, SetupIInv, NEW p \in Procs, In!Step(p) PROVE Plans(p)'
<1> DEFINE j == job[p]
<1> USE DEF In!Goto, Retaining
<1>0. /\ step \in [Procs -> In!Steps] /\ job \in [Procs -> In!Job] /\ j \in In!Job /\ SetupKinds(p) /\ Plans(p)
      /\ project \in Build /\ placed \in [Path -> Build \cup Custom \cup {None}]
      /\ receipt \in [Path -> In!Note]
  BY DEF SetupIInv, In!TypeOK, JobInv
<1>1. CASE In!Enroll(p) \/ In!Create(p) \/ In!Throw(p) \/ In!Die(p)
  <2>1. job'[p] = In!NoJob /\ step'[p] \in {"idle", "dead"}
    BY <1>0, <1>1 DEF In!Enroll, In!Create, In!Throw, In!Die, In!Leave, In!Holds
  <2>2. QED
    BY <2>1 DEF Plans, Working, In!NoJob
<1>2. ASSUME step'[p] \in {"wait", "plan", "enroll"} PROVE Plans(p)'
  BY <1>2 DEF Plans, Working
<1>3. CASE In!Start(p) \/ In!SaveReceipt(p) \/ In!Ask(p)
  BY <1>0, <1>2, <1>3 DEF In!Start, In!SaveReceipt, In!Ask
<1>4. ASSUME step'[p] \in Retaining, job'[p].kind # "setup" PROVE Plans(p)'
  BY <1>4 DEF Plans, Working
<1>5. CASE In!TakeLock(p)
  BY <1>0, <1>4, <1>5 DEF In!TakeLock, SetupKinds
<1>6. CASE In!Resume(p)
  <2>1. job'[p].kind = "resume"
    BY <1>0, <1>6 DEF In!Resume, In!Holds, In!Job
  <2>2. QED
    BY <1>0, <1>4, <1>6, <2>1 DEF In!Resume
<1>7. CASE In!Defer(p)
  BY <1>0, <1>4, <1>7 DEF In!Defer
<1>8. CASE In!Plan(p)
  <2> DEFINE owned == {r \in Path : AgentOf[r] \in j.selected /\ In!Owned(r)}
  <2>1. /\ job'[p].todo = owned /\ job'[p].before = placed /\ job'[p].receipt = receipt
        /\ job'[p].version = project /\ job'[p].selected = j.selected
    BY <1>0, <1>8 DEF In!Plan, In!Holds, In!Job
  <2>2. \A r \in owned : AgentOf[r] \in j.selected /\ placed[r] \in Build \cup {None}
    BY <1>0 DEF In!Owned, In!Note
  <2>3. UNCHANGED receipt /\ step'[p] \in {"digest", "stop"}
    BY <1>0, <1>8 DEF In!Plan, In!installed
  <2>4. QED
    <3> HIDE DEF owned
    <3> QED
      BY <1>0, <2>1, <2>2, <2>3 DEF Plans
<1>9. ASSUME UNCHANGED <<receipt, job>>, Working(p), step'[p] \in {"write"} PROVE Plans(p)'
  BY <1>0, <1>9 DEF Plans, Working
<1>10. CASE In!Stop(p)
  BY <1>0, <1>9, <1>10 DEF In!Stop, Working
<1>11. CASE In!Check(p)
  <2>1. PICK r \in j.todo :
          /\ placed[r] = j.before[r]
          /\ receipt' = IF j.kind = "setup" THEN In!Noted(j, r) ELSE receipt
          /\ In!Holds(p, [j EXCEPT !.at = r, !.receipt = In!Noted(j, r)])
    BY <1>11 DEF In!Check
  <2>2. /\ job'[p].at = r /\ job'[p].receipt = In!Noted(j, r) /\ job'[p].todo = j.todo
        /\ job'[p].kind = j.kind /\ job'[p].version = j.version /\ job'[p].before = j.before
        /\ job'[p].selected = j.selected
    BY <1>0, <2>1 DEF In!Holds, In!Job
  <2>3. r \in Path /\ Working(p)
    BY <1>0, <1>11 DEF In!Check, Working, In!Job
  <2>4. j.kind = "setup" => In!Noted(j, r)[r].current = j.version
    BY <1>0, <2>3 DEF In!Noted, In!Job
  <2>5. step'[p] = "replace" /\ UNCHANGED placed
    BY <1>0, <1>11 DEF In!Check
  <2>6. QED
    BY <1>0, <2>1, <2>2, <2>3, <2>4, <2>5 DEF Plans
<1>12. CASE In!Replace(p)
  <2>1. UNCHANGED <<receipt, job>> /\ step'[p] = "verify" /\ step[p] = "replace"
    BY <1>0, <1>12 DEF In!Replace
  <2>2. QED
    BY <1>0, <2>1 DEF Plans, Working
<1>13. CASE In!Verify(p)
  <2>1. In!Holds(p, [j EXCEPT !.todo = @ \ {j.at}, !.receipt[j.at].current = In!After(j)])
    BY <1>13 DEF In!Verify
  <2>2. /\ job'[p].receipt = [j.receipt EXCEPT ![j.at].current = In!After(j)]
        /\ job'[p].todo = j.todo \ {j.at} /\ job'[p].kind = j.kind
        /\ job'[p].version = j.version /\ job'[p].before = j.before
        /\ job'[p].selected = j.selected
    BY <1>0, <2>1 DEF In!Holds, In!Job
  <2>3. step[p] = "verify" /\ step'[p] = "write" /\ UNCHANGED receipt
    BY <1>0, <1>13 DEF In!Verify, In!installed
  <2>4. j.kind = "setup" => [j.receipt EXCEPT ![j.at].current = In!After(j)] = receipt
    BY <1>0, <2>3 DEF Plans, Working, In!After, In!Note, In!Job
  <2>5. QED
    BY <1>0, <2>2, <2>3, <2>4 DEF Plans, Working
<1>14. ASSUME /\ job'[p].todo = j.todo /\ job'[p].kind = j.kind /\ job'[p].version = j.version
              /\ job'[p].before = j.before /\ job'[p].receipt = j.receipt
              /\ job'[p].selected = j.selected,
              step[p] \in Retaining, step'[p] \notin Retaining => step'[p] = "write" /\ j.kind = "setup",
              UNCHANGED receipt
       PROVE  Plans(p)'
  BY <1>0, <1>14 DEF Plans, Working
<1>15. CASE In!Digest(p)
  <2>1. In!Holds(p, [j EXCEPT !.id = project]) /\ UNCHANGED receipt
        /\ step[p] \in Retaining /\ step'[p] \in Retaining
    BY <1>0, <1>15 DEF In!Digest, In!installed
  <2>2. /\ job'[p].todo = j.todo /\ job'[p].kind = j.kind /\ job'[p].version = j.version
        /\ job'[p].before = j.before /\ job'[p].receipt = j.receipt
        /\ job'[p].selected = j.selected
    BY <1>0, <2>1 DEF In!Holds, In!Job
  <2>3. QED
    BY <1>14, <2>1, <2>2
<1>16. CASE In!Copy(p)
  <2>1. PICK what : In!Holds(p, [j EXCEPT !.temp = what])
    BY <1>16 DEF In!Copy
  <2>2. UNCHANGED receipt /\ step[p] \in Retaining /\ step'[p] \in Retaining
    BY <1>0, <1>16 DEF In!Copy, In!installed
  <2>3. /\ job'[p].todo = j.todo /\ job'[p].kind = j.kind /\ job'[p].version = j.version
        /\ job'[p].before = j.before /\ job'[p].receipt = j.receipt
        /\ job'[p].selected = j.selected
    BY <1>0, <2>1 DEF In!Holds, In!Job
  <2>4. QED
    BY <1>14, <2>2, <2>3
<1>17. ASSUME NEW c, In!Retained(p, c), step[p] \in Retaining PROVE Plans(p)'
  <2>1. CASE j.kind = "begin"
    <3>1. step'[p] = "create"
      BY <1>0, <1>17, <2>1 DEF In!Retained
    <3>2. QED
      BY <3>1 DEF Plans, Working
  <2>2. CASE j.kind = "setup"
    <3>1. In!Holds(p, [j EXCEPT !.place = c.place, !.temp = None])
          /\ step'[p] = "write" /\ UNCHANGED receipt
      BY <1>0, <1>17, <2>2 DEF In!Retained, In!installed
    <3>2. /\ job'[p].todo = j.todo /\ job'[p].kind = j.kind /\ job'[p].version = j.version
          /\ job'[p].before = j.before /\ job'[p].receipt = j.receipt
          /\ job'[p].selected = j.selected
      BY <1>0, <3>1 DEF In!Holds, In!Job
    <3>3. QED
      BY <1>14, <1>17, <2>2, <3>1, <3>2
  <2>3. CASE j.kind \notin {"begin", "setup"}
    <3>1. In!Leave(p, step[p])
      BY <1>17, <2>3 DEF In!Retained
    <3>2. step'[p] = "idle"
      BY <1>0, <3>1 DEF In!Leave
    <3>3. QED
      BY <3>2 DEF Plans, Working
  <2>4. QED
    BY <2>1, <2>2, <2>3
<1>18. CASE In!Look(p)
  <2>1. CASE In!Retained(p, [id |-> j.id, place |-> <<j.id, None>>])
    BY <1>17, <1>18, <2>1 DEF In!Look
  <2>2. CASE ~In!Retained(p, [id |-> j.id, place |-> <<j.id, None>>])
    <3>1. PICK n : In!Holds(p, [j EXCEPT !.place = <<j.id, n>>])
      BY <1>18, <2>2 DEF In!Look
    <3>2. UNCHANGED receipt /\ step[p] \in Retaining /\ step'[p] \in Retaining
      BY <1>0, <1>18, <2>2 DEF In!Look, In!installed
    <3>3. /\ job'[p].todo = j.todo /\ job'[p].kind = j.kind /\ job'[p].version = j.version
          /\ job'[p].before = j.before /\ job'[p].receipt = j.receipt
          /\ job'[p].selected = j.selected
      BY <1>0, <3>1 DEF In!Holds, In!Job
    <3>4. QED
      BY <1>14, <3>2, <3>3
  <2>3. QED
    BY <2>1, <2>2
<1>19. CASE In!Publish(p)
  BY <1>17, <1>19 DEF In!Publish
<1>20. QED
  BY <1>1, <1>3, <1>5, <1>6, <1>7, <1>8, <1>10, <1>11, <1>12, <1>13, <1>15, <1>16, <1>18,
       <1>19 DEF In!Step

(* The jobs of the others stand: a file they compared, and the receipt of  *)
(* a setup, change under the lock only.                                    *)
LEMMA JobKept ==
  ASSUME In!InstallationAssumption, SetupIInv, [In!Next]_In!vars PROVE JobInv'
<1> SUFFICES ASSUME NEW q \in Procs PROVE (SetupKinds(q) /\ Plans(q) /\ Ids(q))'
  BY DEF JobInv
<1>0. SetupKinds(q) /\ Plans(q) /\ Ids(q) /\ (Locked(q) => configLock = q)
  BY DEF SetupIInv, JobInv, SetupLockInv
<1>1. ASSUME step'[q] = step[q], job'[q] = job[q], Working(q) /\ job[q].kind = "setup" => UNCHANGED receipt,
             step[q] = "replace" => placed'[job[q].at] = placed[job[q].at]
      PROVE  (SetupKinds(q) /\ Plans(q) /\ Ids(q))'
  <2>1. SetupKinds(q)' /\ Ids(q)'
    BY <1>0, <1>1 DEF SetupKinds, Ids
  <2>2. Plans(q)'
    BY <1>0, <1>1 DEF Plans, Working
  <2>3. QED
    BY <2>1, <2>2
<1>2. ASSUME NEW p \in Procs, In!Step(p) PROVE (SetupKinds(q) /\ Plans(q) /\ Ids(q))'
  <2>1. CASE q = p
    BY <1>2, <2>1, OwnKinds, OwnPlans, OwnIds
  <2>2. CASE q # p
    <3>1. step'[q] = step[q] /\ job'[q] = job[q]
      BY <1>2, <2>2, SetupOthers
    <3>2. Locked(q) => ~Locked(p)
      BY <1>0, <2>2 DEF SetupIInv, SetupLockInv
    <3>3. Locked(q) => UNCHANGED <<placed, receipt>>
      BY <1>2, <3>2, UnlockedKeeps
    <3>4. (Working(q) /\ job[q].kind = "setup" => Locked(q)) /\ (step[q] = "replace" => Locked(q))
      BY DEF Working, Locked
    <3>5. QED
      BY <1>1, <3>1, <3>3, <3>4
  <2>3. QED
    BY <2>1, <2>2
<1>3. CASE Environment
  <2>1. UNCHANGED <<step, job, receipt>>
    BY <1>3 DEF Environment, In!installed, In!End, In!Restore, In!StaleSave,
         In!UserEdits, In!RemoveLeftover,
         In!Rebuild, In!Lose
  <2>2. step[q] = "replace" => placed'[job[q].at] = placed[job[q].at]
    <3>1. CASE \E r \in Path : In!UserEdits(r)
      BY <3>1 DEF In!UserEdits, SetupIInv, In!TypeOK
    <3>2. CASE ~\E r \in Path : In!UserEdits(r)
      BY <1>3, <3>2 DEF Environment, In!installed, In!End, In!Restore, In!StaleSave,
           In!RemoveLeftover, In!Rebuild, In!Lose
    <3>3. QED
      BY <3>1, <3>2
  <2>3. QED
    BY <1>1, <2>1, <2>2
<1>4. CASE UNCHANGED In!vars
  BY <1>1, <1>4 DEF In!vars
<1>5. QED
  BY <1>2, <1>3, <1>4 DEF In!Next, Environment

LEMMA Inductive == ASSUME In!InstallationAssumption PROVE In!Spec => []SetupIInv
<1>1. In!Init => SetupIInv
  BY SetupInitIInv
<1>2. SetupIInv /\ [In!Next]_In!vars => SetupIInv'
  BY TypeKept, LockKept, JobKept DEF SetupIInv
<1>3. QED
  BY <1>1, <1>2, PTL DEF In!Spec

(* Whatever the order of commands, edits, rebuilds and deaths, the state   *)
(* that setup, uninstall and the coordinators keep is of its type.         *)
THEOREM SetupTypes == ASSUME In!InstallationAssumption PROVE In!Spec => []In!TypeOK
<1>1. SetupIInv => In!TypeOK
  BY DEF SetupIInv
<1>2. QED
  BY <1>1, Inductive, PTL

(* No step of any command replaces a file that a user wrote: what is at a  *)
(* path when it is replaced is what setup or uninstall found there.        *)
THEOREM Customized == ASSUME In!InstallationAssumption PROVE In!Spec => In!CustomizedKept
<1>1. SetupIInv /\ [In!Next]_In!vars => [\A p \in Procs : In!Replace(p) => placed[job[p].at] \notin Custom]_In!vars
  <2> SUFFICES ASSUME SetupIInv, NEW p \in Procs, In!Replace(p) PROVE placed[job[p].at] \notin Custom
    OBVIOUS
  <2>1. step[p] = "replace" /\ Plans(p)
    BY DEF In!Replace, In!Goto, SetupIInv, JobInv
  <2>2. placed[job[p].at] \in Build \cup {None}
    BY <2>1 DEF Plans, Working
  <2>3. QED
    BY <2>2 DEF In!InstallationAssumption
<1>2. QED
  BY <1>1, Inductive, PTL DEF In!Spec, In!CustomizedKept

------------------------------------------------------------------------------
(* The receipt that a command holds also names what is installed: the file *)
(* is replaced after the receipt was saved, and struck out of the receipt  *)
(* of an uninstall after the file is gone.                                 *)
Named(r, notes) == placed[r] \in Build => placed[r] \in {notes[r].current, notes[r].previous}
HeldOwns(p) == Working(p) => \A r \in Path : Named(r, job[p].receipt)
Owns == In!OwnIsOwned /\ \A p \in Procs : HeldOwns(p)

LEMMA OwnsStep ==
  ASSUME In!InstallationAssumption, SetupIInv, Owns, NEW p \in Procs, In!Step(p)
  PROVE  In!OwnIsOwned' /\ HeldOwns(p)'
<1> DEFINE j == job[p]
<1> USE DEF In!OwnIsOwned, HeldOwns, Named
<1>0. /\ step \in [Procs -> In!Steps] /\ job \in [Procs -> In!Job] /\ j \in In!Job /\ SetupKinds(p) /\ Plans(p)
      /\ placed \in [Path -> Build \cup Custom \cup {None}] /\ receipt \in [Path -> In!Note]
      /\ In!OwnIsOwned /\ HeldOwns(p)
  BY DEF SetupIInv, In!TypeOK, JobInv, Owns
<1>1. ASSUME UNCHANGED <<placed, receipt>>, Working(p)' => job'[p].receipt = j.receipt /\ Working(p)
      PROVE  In!OwnIsOwned' /\ HeldOwns(p)'
  BY <1>0, <1>1
<1>2. CASE In!Enroll(p) \/ In!Create(p) \/ In!Throw(p) \/ In!Die(p)
  <2>1. UNCHANGED <<placed, receipt>> /\ step'[p] \in {"idle", "dead"}
    BY <1>0, <1>2 DEF In!Enroll, In!Create, In!Throw, In!Die, In!Leave, In!Goto, In!installed
  <2>2. QED
    BY <1>1, <2>1 DEF Working, Retaining
<1>3. CASE In!Start(p) \/ In!Ask(p)
  <2>1. UNCHANGED <<placed, receipt>> /\ step'[p] \in {"plan", "wait"}
    BY <1>0, <1>3 DEF In!Start, In!Ask, In!Goto, In!installed
  <2>2. QED
    BY <1>1, <2>1 DEF Working, Retaining
<1>4. CASE In!TakeLock(p) \/ In!Defer(p)
  <2>1. UNCHANGED <<placed, receipt, job>> /\ j.kind # "setup" /\ step'[p] = "digest"
    BY <1>0, <1>4 DEF In!TakeLock, In!Defer, In!Goto, SetupKinds, In!installed
  <2>2. QED
    BY <1>1, <2>1 DEF Working
<1>5. CASE In!Resume(p)
  <2>1. job'[p].kind = "resume"
    BY <1>0, <1>5 DEF In!Resume, In!Holds, In!Job
  <2>2. UNCHANGED <<placed, receipt>> /\ step'[p] = "digest"
    BY <1>0, <1>5 DEF In!Resume, In!Goto, In!installed
  <2>3. QED
    BY <1>1, <2>1, <2>2 DEF Working
<1>6. CASE In!Plan(p)
  <2>1. job'[p].receipt = receipt
    BY <1>0, <1>6 DEF In!Plan, In!Holds, In!Job
  <2>2. UNCHANGED <<placed, receipt>>
    BY <1>6 DEF In!Plan, In!installed
  <2>3. QED
    BY <1>0, <2>1, <2>2
<1>7. CASE In!Stop(p)
  BY <1>0, <1>1, <1>7 DEF In!Stop, In!Goto, Working
<1>8. CASE In!Check(p)
  <2>1. PICK r \in j.todo :
          /\ placed[r] = j.before[r]
          /\ receipt' = IF j.kind = "setup" THEN In!Noted(j, r) ELSE receipt
          /\ In!Holds(p, [j EXCEPT !.at = r, !.receipt = In!Noted(j, r)])
    BY <1>8 DEF In!Check
  <2>2. job'[p].receipt = In!Noted(j, r) /\ r \in Path /\ Working(p) /\ UNCHANGED placed
    BY <1>0, <1>8, <2>1 DEF In!Check, In!Goto, In!Holds, Working, In!Job
  <2>3. CASE j.kind = "setup"
    <3>1. j.receipt = receipt /\ receipt' = In!Noted(j, r)
      BY <1>0, <2>1, <2>2, <2>3 DEF Plans
    <3>2. In!Noted(j, r) = [receipt EXCEPT ![r] = [current |-> j.version,
            previous |-> IF placed[r] = None THEN receipt[r].previous ELSE placed[r]]]
      BY <2>1, <2>3, <3>1 DEF In!Noted
    <3>3. \A q \in Path : placed[q] \in Build => placed[q] \in {In!Noted(j, r)[q].current, In!Noted(j, r)[q].previous}
      BY <1>0, <2>2, <3>2 DEF In!InstallationAssumption, In!Note
    <3>4. QED
      BY <2>2, <3>1, <3>3
  <2>4. CASE j.kind # "setup"
    <3>1. In!Noted(j, r) = j.receipt /\ receipt' = receipt
      BY <1>0, <1>8, <2>1, <2>4 DEF In!Noted, SetupKinds, In!Check, In!Goto
    <3>2. QED
      BY <1>1, <2>2, <3>1
  <2>5. QED
    BY <2>3, <2>4
<1>9. CASE In!Replace(p)
  <2>1. /\ step[p] = "replace" /\ Working(p) /\ UNCHANGED <<receipt, job>> /\ j.at \in Path
        /\ placed' = [placed EXCEPT ![j.at] = In!After(j)]
    BY <1>0, <1>9 DEF In!Replace, In!Goto, Working, Plans, In!Job
  <2>2. In!After(j) \in Build => In!After(j) = j.receipt[j.at].current /\ j.receipt = receipt
    BY <1>0, <2>1 DEF In!After, Plans, In!InstallationAssumption
  <2>3. QED
    BY <1>0, <2>1, <2>2
<1>10. CASE In!Verify(p)
  <2> DEFINE n == [j.receipt EXCEPT ![j.at].current = In!After(j)]
  <2>1. In!Holds(p, [j EXCEPT !.todo = @ \ {j.at}, !.receipt[j.at].current = In!After(j)])
    BY <1>10 DEF In!Verify
  <2>2. job'[p].receipt = n
    BY <1>0, <2>1 DEF In!Holds, In!Job
  <2>3. placed[j.at] = In!After(j) /\ Working(p) /\ UNCHANGED <<placed, receipt>> /\ j.at \in Path
    BY <1>0, <1>10 DEF In!Verify, In!Goto, Working, In!installed, Plans, In!Job
  <2>4. \A r \in Path : placed[r] \in Build => placed[r] \in {n[r].current, n[r].previous}
    BY <1>0, <2>3 DEF In!Job, In!Note
  <2>5. QED
    <3> HIDE DEF n
    <3> QED
      BY <1>0, <2>2, <2>3, <2>4
<1>11. CASE In!SaveReceipt(p)
  <2>1. /\ Working(p) /\ step'[p] = "enroll" /\ receipt' = j.receipt /\ UNCHANGED placed
    BY <1>0, <1>11 DEF In!SaveReceipt, In!Goto, Working
  <2>2. QED
    BY <1>0, <2>1 DEF Working, Retaining
<1>12. CASE In!Digest(p) \/ In!Copy(p)
  <2>1. job'[p].receipt = j.receipt /\ job'[p].kind = j.kind
    BY <1>0, <1>12 DEF In!Digest, In!Copy, In!Holds, In!Job
  <2>2. UNCHANGED <<placed, receipt>> /\ step[p] \in Retaining /\ step'[p] \in Retaining
    BY <1>0, <1>12 DEF In!Digest, In!Copy, In!Goto, Retaining, In!installed
  <2>3. QED
    BY <1>1, <2>1, <2>2 DEF Working, Retaining
<1>13. ASSUME NEW c, In!Retained(p, c), step[p] \in Retaining PROVE In!OwnIsOwned' /\ HeldOwns(p)'
  <2>0. UNCHANGED <<placed, receipt>>
    BY <1>13 DEF In!Retained, In!installed
  <2>1. CASE j.kind = "setup"
    <3>1. In!Holds(p, [j EXCEPT !.place = c.place, !.temp = None])
      BY <1>13, <2>1 DEF In!Retained
    <3>2. job'[p].receipt = j.receipt
      BY <1>0, <3>1 DEF In!Holds, In!Job
    <3>3. QED
      BY <1>1, <1>13, <2>0, <2>1, <3>2 DEF Working
  <2>2. CASE j.kind # "setup"
    <3>1. step'[p] \in {"create", "idle"}
      BY <1>0, <1>13, <2>2 DEF In!Retained, In!Goto, In!Leave
    <3>2. QED
      BY <1>1, <2>0, <3>1 DEF Working, Retaining
  <2>3. QED
    BY <2>1, <2>2
<1>14. CASE In!Look(p)
  <2>1. CASE In!Retained(p, [id |-> j.id, place |-> <<j.id, None>>])
    BY <1>13, <1>14, <2>1 DEF In!Look, Retaining
  <2>2. CASE ~In!Retained(p, [id |-> j.id, place |-> <<j.id, None>>])
    <3>1. PICK n : In!Holds(p, [j EXCEPT !.place = <<j.id, n>>])
      BY <1>14, <2>2 DEF In!Look
    <3>2. job'[p].receipt = j.receipt /\ job'[p].kind = j.kind
      BY <1>0, <3>1 DEF In!Holds, In!Job
    <3>3. UNCHANGED <<placed, receipt>> /\ step[p] \in Retaining /\ step'[p] \in Retaining
      BY <1>0, <1>14, <2>2 DEF In!Look, Retaining, In!installed
    <3>4. QED
      BY <1>1, <3>2, <3>3 DEF Working, Retaining
  <2>3. QED
    BY <2>1, <2>2
<1>15. CASE In!Publish(p)
  BY <1>13, <1>15 DEF In!Publish, Retaining
<1>16. QED
  BY <1>2, <1>3, <1>4, <1>5, <1>6, <1>7, <1>8, <1>9, <1>10, <1>11, <1>12, <1>14, <1>15 DEF In!Step

LEMMA OwnsKept ==
  ASSUME In!InstallationAssumption, SetupIInv, Owns, [In!Next]_In!vars PROVE Owns'
<1> USE DEF Owns, In!OwnIsOwned, HeldOwns, Named
<1>1. ASSUME NEW p \in Procs, In!Step(p) PROVE Owns'
  <2>1. In!OwnIsOwned' /\ HeldOwns(p)'
    BY <1>1, OwnsStep
  <2>2. ASSUME NEW q \in Procs, q # p PROVE HeldOwns(q)'
    <3>1. step'[q] = step[q] /\ job'[q] = job[q]
      BY <1>1, <2>2, SetupOthers
    <3>2. Locked(q) => UNCHANGED placed
      BY <1>1, <2>2, UnlockedKeeps DEF SetupIInv, SetupLockInv
    <3>3. Working(q) => Locked(q)
      BY DEF Working, Locked
    <3>4. QED
      BY <3>1, <3>2, <3>3 DEF Working
  <2>3. QED
    BY <2>1, <2>2
<1>2. CASE Environment
  <2>1. UNCHANGED <<step, job, receipt>>
    BY <1>2 DEF Environment, In!installed, In!End, In!Restore, In!StaleSave,
         In!UserEdits, In!RemoveLeftover,
         In!Rebuild, In!Lose
  <2>2. ASSUME NEW r \in Path PROVE placed'[r] = placed[r] \/ placed'[r] \notin Build
    <3>1. CASE \E t \in Path : In!UserEdits(t)
      BY <3>1 DEF In!UserEdits, SetupIInv, In!TypeOK, In!InstallationAssumption
    <3>2. CASE ~\E t \in Path : In!UserEdits(t)
      BY <1>2, <3>2 DEF Environment, In!installed, In!End, In!Restore, In!StaleSave,
           In!RemoveLeftover, In!Rebuild, In!Lose
    <3>3. QED
      BY <3>1, <3>2
  <2>3. QED
    BY <2>1, <2>2 DEF Working
<1>3. CASE UNCHANGED In!vars
  BY <1>3 DEF In!vars, Working
<1>4. QED
  BY <1>1, <1>2, <1>3 DEF In!Next, Environment

(* An interrupted setup or uninstall can be repeated, with whatever build: *)
(* every file the tool installed is one its receipt names, at every step.  *)
THEOREM InterruptedSetupRepeats == ASSUME In!InstallationAssumption PROVE In!Spec => []In!OwnIsOwned
<1>1. In!Init => Owns
  BY DEF In!InstallationAssumption, In!Init, Owns, In!OwnIsOwned, HeldOwns, Working, Retaining
<1>2. SetupIInv /\ Owns /\ [In!Next]_In!vars => Owns'
  BY OwnsKept
<1>3. Owns => In!OwnIsOwned
  BY DEF Owns
<1>4. QED
  BY <1>1, <1>2, <1>3, Inductive, PTL DEF In!Spec

------------------------------------------------------------------------------
(* A session of an agent is created under the lock; while an uninstall     *)
(* holds it only a closed one can become unfinished again.                 *)
Removing(p) == step[p] \in {"stop", "write", "replace", "verify"} /\ job[p].kind = "uninstall"
Defers == \A p \in Procs : Removing(p) => In!Unfinished(job[p].selected) \subseteq reopened

LEMMA SessionsOfOthers ==
  ASSUME NEW p \in Procs, In!Step(p), ~In!Create(p)
  PROVE  UNCHANGED <<status, agent>> /\ (~In!Plan(p) => UNCHANGED reopened)
<1> USE DEF In!sessions
<1>1. CASE In!Start(p) \/ In!Defer(p) \/ In!Plan(p) \/ In!Stop(p) \/ In!Check(p) \/ In!Replace(p) \/ In!Verify(p)
  BY <1>1 DEF In!Start, In!Defer, In!Plan, In!Stop, In!Check, In!Replace, In!Verify
<1>2. CASE In!SaveReceipt(p) \/ In!Enroll(p) \/ In!Ask(p) \/ In!TakeLock(p) \/ In!Resume(p)
  BY <1>2 DEF In!SaveReceipt, In!Enroll, In!Ask, In!TakeLock, In!Resume
<1>3. CASE In!Digest(p) \/ In!Look(p) \/ In!Copy(p) \/ In!Publish(p) \/ In!Throw(p) \/ In!Die(p)
  BY <1>3 DEF In!Digest, In!Look, In!Copy, In!Publish, In!Retained, In!Throw, In!Die
<1>4. QED
  BY <1>1, <1>2, <1>3 DEF In!Step

LEMMA RemovingStep ==
  ASSUME In!InstallationAssumption, SetupIInv, NEW p \in Procs, In!Step(p), Removing(p)'
  PROVE  /\ job'[p].selected = job[p].selected
         /\ Removing(p) \/ In!Unfinished(job[p].selected) = {}
<1> DEFINE j == job[p]
<1> USE DEF In!Goto, Removing
<1>0. step \in [Procs -> In!Steps] /\ job \in [Procs -> In!Job] /\ j \in In!Job /\ SetupKinds(p)
  BY DEF SetupIInv, In!TypeOK, JobInv
<1>1. CASE In!Plan(p)
  BY <1>0, <1>1 DEF In!Plan, In!Holds, In!Job
<1>2. CASE In!Stop(p) \/ In!Replace(p)
  BY <1>0, <1>2 DEF In!Stop, In!Replace
<1>3. CASE In!Check(p)
  BY <1>0, <1>3 DEF In!Check, In!Holds, In!Job
<1>4. CASE In!Verify(p)
  BY <1>0, <1>4 DEF In!Verify, In!Holds, In!Job
<1>5. CASE In!Start(p) \/ In!Defer(p) \/ In!SaveReceipt(p) \/ In!Enroll(p) \/ In!Ask(p) \/ In!TakeLock(p) \/ In!Create(p)
  BY <1>0, <1>5 DEF In!Start, In!Defer, In!SaveReceipt, In!Enroll, In!Ask, In!TakeLock, In!Create,
       In!Leave
<1>6. CASE In!Resume(p) \/ In!Digest(p) \/ In!Copy(p) \/ In!Throw(p) \/ In!Die(p)
  BY <1>0, <1>6 DEF In!Resume, In!Digest, In!Copy, In!Throw, In!Die, In!Leave
<1>7. ASSUME NEW c, In!Retained(p, c), step[p] \in Retaining PROVE FALSE
  <2>1. j.kind = "setup"
    BY <1>0, <1>7 DEF In!Retained, In!Leave, Retaining
  <2>2. In!Holds(p, [j EXCEPT !.place = c.place, !.temp = None])
    BY <1>7, <2>1 DEF In!Retained
  <2>3. job'[p].kind = "setup"
    BY <1>0, <2>1, <2>2 DEF In!Holds, In!Job
  <2>4. QED
    BY <2>3
<1>8. CASE In!Look(p)
  <2>1. step[p] \in Retaining /\ (In!Retained(p, [id |-> j.id, place |-> <<j.id, None>>])
          \/ step' = [step EXCEPT ![p] = "copy"])
    BY <1>8 DEF In!Look, Retaining
  <2>2. QED
    BY <1>0, <1>7, <2>1
<1>9. CASE In!Publish(p)
  BY <1>7, <1>9 DEF In!Publish, Retaining
<1>10. QED
  BY <1>1, <1>2, <1>3, <1>4, <1>5, <1>6, <1>8, <1>9 DEF In!Step

LEMMA DefersKept ==
  ASSUME In!InstallationAssumption, SetupIInv, Defers, [In!Next]_In!vars PROVE Defers'
<1> SUFFICES ASSUME NEW q \in Procs, Removing(q)'
             PROVE  In!Unfinished(job[q].selected)' \subseteq reopened'
  BY DEF Defers
<1> USE DEF In!Unfinished
<1>0. /\ step \in [Procs -> In!Steps] /\ (Removing(q) => In!Unfinished(job[q].selected) \subseteq reopened)
      /\ status \in [Session -> {"none", "unfinished", "succeeded", "no_changes", "abandoned"}]
  BY DEF SetupIInv, In!TypeOK, Defers
<1>1. ASSUME NEW p \in Procs, In!Step(p) PROVE In!Unfinished(job[q].selected)' \subseteq reopened'
  <2>1. CASE q = p
    <3>1. ~In!Create(p)
      BY <1>0, <2>1 DEF In!Create, In!Leave, In!Goto, Removing
    <3>2. In!Plan(p) => ~Removing(p)
      BY DEF In!Plan, In!Goto, Removing
    <3>3. QED
      BY <1>0, <1>1, <2>1, <3>1, <3>2, RemovingStep, SessionsOfOthers
  <2>2. CASE q # p
    <3>1. step'[q] = step[q] /\ job'[q] = job[q]
      BY <1>1, <2>2, SetupOthers
    <3>2. Removing(q) /\ Locked(q)
      BY <3>1 DEF Removing, Locked
    <3>3. ~In!Create(p) /\ ~In!Plan(p)
      BY <2>2, <3>2 DEF SetupIInv, SetupLockInv, Locked, In!Create, In!Plan, In!Leave, In!Goto
    <3>4. QED
      BY <1>0, <1>1, <3>1, <3>2, <3>3, SessionsOfOthers
  <2>3. QED
    BY <2>1, <2>2
<1>2. CASE Environment
  <2>1. UNCHANGED <<step, job>> /\ Removing(q)
    BY <1>2 DEF Environment, Removing, In!End, In!Restore, In!StaleSave,
         In!UserEdits, In!RemoveLeftover,
         In!Rebuild, In!Lose
  <2>2. CASE \E s \in Session : In!End(s) \/ In!Restore(s) \/ In!StaleSave(s)
    BY <1>0, <2>1, <2>2 DEF In!End, In!Restore, In!StaleSave
  <2>3. CASE ~\E s \in Session : In!End(s) \/ In!Restore(s) \/ In!StaleSave(s)
    BY <1>0, <1>2, <2>1, <2>3 DEF Environment, In!sessions, In!UserEdits, In!RemoveLeftover,
         In!Rebuild, In!Lose
  <2>4. QED
    BY <2>2, <2>3
<1>3. CASE UNCHANGED In!vars
  BY <1>0, <1>3 DEF In!vars, Removing
<1>4. QED
  BY <1>1, <1>2, <1>3 DEF In!Next, Environment

(* Uninstall takes nothing from under a session that was under way when it *)
(* looked: when it removes a file no session of that agent is unfinished,  *)
(* except one that was closed then and was opened since, by a restore or   *)
(* by the save of a copy read before it succeeded (incident.ts:61).        *)
THEOREM UninstallWaits == ASSUME In!InstallationAssumption PROVE In!Spec => In!RemovalDeferred
<1> DEFINE Waits == \A p \in Procs : In!Replace(p) /\ job[p].kind = "uninstall"
                      => In!Unfinished({AgentOf[job[p].at]}) \subseteq reopened
<1>1. In!Init => Defers
  BY DEF In!Init, Defers, Removing
<1>2. SetupIInv /\ Defers /\ [In!Next]_In!vars => Defers'
  BY DefersKept
<1>3. SetupIInv /\ Defers => Waits
  <2> SUFFICES ASSUME SetupIInv, Defers, NEW p \in Procs, In!Replace(p), job[p].kind = "uninstall"
               PROVE  In!Unfinished({AgentOf[job[p].at]}) \subseteq reopened
    OBVIOUS
  <2>1. step[p] = "replace" /\ Plans(p)
    BY DEF In!Replace, In!Goto, SetupIInv, JobInv
  <2>2. AgentOf[job[p].at] \in job[p].selected
    BY <2>1 DEF Plans, Working
  <2>3. In!Unfinished(job[p].selected) \subseteq reopened
    BY <2>1 DEF Defers, Removing
  <2>4. QED
    BY <2>2, <2>3 DEF In!Unfinished
<1>4. QED
  BY <1>1, <1>2, <1>3, Inductive, PTL DEF In!Spec, In!RemovalDeferred

------------------------------------------------------------------------------
(* A copy in its place stays what it is, or was lost.                      *)
Whole(c) == copies[c.place] = c.id \/ c.place \in lost
HeldWhole(p) == step[p] = "create" => Whole([id |-> job[p].id, place |-> job[p].place])
Keeps == In!PinnedIntact /\ \A p \in Procs : HeldWhole(p)

LEMMA CopiesStay ==
  ASSUME In!InstallationAssumption, SetupIInv, [In!Next]_In!vars, NEW c \in In!Coordinator, Whole(c) PROVE Whole(c)'
<1> USE DEF Whole
<1>0. /\ copies \in [In!Place -> Build \cup {None, Damaged}] /\ c.id \in Build /\ c.place \in In!Place
      /\ None \notin Build
  BY DEF SetupIInv, In!TypeOK, In!Coordinator, In!InstallationAssumption
<1>1. ASSUME NEW p \in Procs, In!Step(p) PROVE Whole(c)'
  <2>1. CASE In!Publish(p)
    BY <1>0, <2>1 DEF In!Publish, In!Retained
  <2>2. CASE ~In!Publish(p)
    <3> USE DEF In!kept
    <3>1. CASE In!Start(p) \/ In!Defer(p) \/ In!Plan(p) \/ In!Stop(p) \/ In!Check(p) \/ In!Replace(p) \/ In!Verify(p)
      BY <3>1 DEF In!Start, In!Defer, In!Plan, In!Stop, In!Check, In!Replace, In!Verify
    <3>2. CASE In!SaveReceipt(p) \/ In!Enroll(p) \/ In!Ask(p) \/ In!TakeLock(p) \/ In!Create(p) \/ In!Resume(p)
      BY <3>2 DEF In!SaveReceipt, In!Enroll, In!Ask, In!TakeLock, In!Create, In!Resume
    <3>3. CASE In!Digest(p) \/ In!Look(p) \/ In!Copy(p) \/ In!Throw(p) \/ In!Die(p)
      BY <3>3 DEF In!Digest, In!Look, In!Copy, In!Retained, In!Throw, In!Die
    <3>4. QED
      BY <1>1, <2>2, <3>1, <3>2, <3>3 DEF In!Step
  <2>3. QED
    BY <2>1, <2>2
<1>2. CASE \E l \in In!Place : In!Lose(l)
  BY <1>0, <1>2 DEF In!Lose
<1>3. CASE Environment /\ ~\E l \in In!Place : In!Lose(l)
  BY <1>3 DEF Environment, In!kept, In!End, In!Restore, In!StaleSave, In!UserEdits, In!RemoveLeftover, In!Rebuild
<1>4. CASE UNCHANGED In!vars
  BY <1>4 DEF In!vars
<1>5. QED
  BY <1>1, <1>2, <1>3, <1>4 DEF In!Next, Environment

(* What a command newly pins, or holds for the session it creates.         *)
LEMMA NewCopies ==
  ASSUME In!InstallationAssumption, SetupIInv, Keeps, NEW p \in Procs, In!Step(p)
  PROVE  /\ \A s \in Session : \A c \in pinned'[s] \ pinned[s] : Whole(c)'
         /\ HeldWhole(p)'
<1> DEFINE j == job[p]
           new == \A s \in Session : \A c \in pinned'[s] \ pinned[s] : Whole(c)'
<1> USE DEF In!Goto
<1>0. /\ step \in [Procs -> In!Steps] /\ job \in [Procs -> In!Job] /\ j \in In!Job /\ Ids(p) /\ SetupKinds(p)
      /\ copies \in [In!Place -> Build \cup {None, Damaged}] /\ pinned \in [Session -> SUBSET In!Coordinator]
  BY DEF SetupIInv, In!TypeOK, JobInv
<1>1. CASE In!Create(p)
  <2>1. step[p] = "create" /\ step'[p] = "idle" /\ UNCHANGED <<copies, lost>>
    BY <1>0, <1>1 DEF In!Create, In!Leave, In!kept
  <2>2. PICK s \in Session, c \in {[id |-> j.id, place |-> j.place]} : pinned' = [pinned EXCEPT ![s] = {c}]
    BY <1>1 DEF In!Create
  <2>3. Whole(c)
    BY <2>1, <2>2 DEF Keeps, HeldWhole
  <2>4. Whole(c)'
    BY <2>1, <2>3 DEF Whole
  <2>5. new
    BY <1>0, <2>2, <2>4
  <2>6. QED
    BY <2>1, <2>5 DEF HeldWhole
<1>2. ASSUME UNCHANGED pinned, step'[p] # "create" PROVE new /\ HeldWhole(p)'
  BY <1>2 DEF HeldWhole
<1>3. CASE In!Start(p) \/ In!Defer(p) \/ In!Plan(p) \/ In!Stop(p) \/ In!Check(p) \/ In!Replace(p) \/ In!Verify(p)
  BY <1>0, <1>2, <1>3 DEF In!sessions, In!Start, In!Defer, In!Plan, In!Stop, In!Check, In!Replace,
       In!Verify
<1>4. CASE In!SaveReceipt(p) \/ In!Enroll(p) \/ In!Ask(p) \/ In!TakeLock(p) \/ In!Resume(p)
  BY <1>0, <1>2, <1>4 DEF In!sessions, In!SaveReceipt, In!Enroll, In!Leave, In!Ask, In!TakeLock,
       In!Resume
<1>5. CASE In!Digest(p) \/ In!Copy(p) \/ In!Throw(p) \/ In!Die(p)
  BY <1>0, <1>2, <1>5 DEF In!sessions, In!Digest, In!Copy, In!Throw, In!Die, In!Leave
<1>6. ASSUME NEW c \in In!Coordinator, In!Retained(p, c), Whole(c)', j.id = c.id, step[p] \in Retaining
      PROVE  new /\ HeldWhole(p)'
  <2>1. pinned' = pinned \/ \E s : pinned' = [pinned EXCEPT ![s] = @ \cup {c}]
    BY <1>6 DEF In!Retained
  <2>2. new
    BY <1>0, <1>6, <2>1
  <2>3. CASE j.kind \in {"begin", "setup"}
    <3>1. In!Holds(p, [j EXCEPT !.place = c.place, !.temp = None])
      BY <1>6, <2>3 DEF In!Retained
    <3>2. job'[p].place = c.place /\ job'[p].id = c.id
      BY <1>0, <1>6, <3>1 DEF In!Holds, In!Job
    <3>3. QED
      BY <1>6, <2>2, <3>2 DEF HeldWhole, Whole
  <2>4. CASE j.kind \notin {"begin", "setup"}
    <3>1. step'[p] = "idle"
      BY <1>0, <1>6, <2>4 DEF In!Retained, In!Leave
    <3>2. QED
      BY <2>2, <3>1 DEF HeldWhole
  <2>5. QED
    BY <2>3, <2>4
<1>7. CASE In!Look(p)
  <2>1. PICK c \in {[id |-> j.id, place |-> <<j.id, None>>]} : TRUE
    OBVIOUS
  <2>2. CASE In!Retained(p, c)
    <3>1. c \in In!Coordinator /\ j.id = c.id /\ step[p] \in Retaining
      BY <1>0, <1>7, <2>1 DEF In!Look, Ids, In!Coordinator, In!Place, Retaining
    <3>2. CASE copies[c.place] = c.id /\ UNCHANGED copies
      BY <1>6, <2>2, <3>1, <3>2 DEF Whole
    <3>3. CASE ~(copies[c.place] = c.id /\ UNCHANGED copies)
      <4>1. step'[p] = "copy" /\ UNCHANGED pinned
        BY <1>0, <1>7, <2>1, <3>3 DEF In!Look, In!sessions
      <4>2. QED
        BY <1>2, <4>1
    <3>4. QED
      BY <3>2, <3>3
  <2>3. CASE ~In!Retained(p, c)
    <3>1. step'[p] = "copy" /\ UNCHANGED pinned
      BY <1>0, <1>7, <2>1, <2>3 DEF In!Look, In!sessions
    <3>2. QED
      BY <1>2, <3>1
  <2>4. QED
    BY <2>2, <2>3
<1>8. CASE In!Publish(p)
  <2>1. PICK c \in {[id |-> j.id, place |-> j.place]} : TRUE
    OBVIOUS
  <2>2. c \in In!Coordinator /\ j.id = c.id /\ step[p] \in Retaining /\ In!Retained(p, c)
    BY <1>0, <1>8, <2>1 DEF In!Publish, Ids, In!Coordinator, Retaining
  <2>3. copies'[c.place] = c.id
    BY <1>0, <1>8, <2>1, <2>2 DEF In!Publish, In!Coordinator
  <2>4. QED
    BY <1>6, <2>2, <2>3 DEF Whole
<1>9. QED
  BY <1>1, <1>3, <1>4, <1>5, <1>7, <1>8 DEF In!Step

LEMMA KeepsKept ==
  ASSUME In!InstallationAssumption, SetupIInv, Keeps, [In!Next]_In!vars PROVE Keeps'
<1>0. In!PinnedIntact <=> \A s \in Session : \A c \in pinned[s] : Whole(c)
  BY DEF In!PinnedIntact, Whole
<1>1. \A s \in Session : \A c \in pinned[s] : Whole(c)'
  BY <1>0, CopiesStay DEF Keeps, SetupIInv, In!TypeOK
<1>2. ASSUME NEW q \in Procs, step'[q] = step[q], job'[q] = job[q] PROVE HeldWhole(q)'
  <2> SUFFICES ASSUME step[q] = "create" PROVE HeldWhole(q)'
    BY <1>2 DEF HeldWhole
  <2>1. PICK c \in {[id |-> job[q].id, place |-> job[q].place]} : TRUE
    OBVIOUS
  <2>2. c \in In!Coordinator /\ Whole(c)
    BY <2>1 DEF Keeps, HeldWhole, SetupIInv, JobInv, Ids, In!Coordinator
  <2>3. Whole(c)'
    BY <2>2, CopiesStay
  <2>4. QED
    BY <1>2, <2>1, <2>3 DEF HeldWhole
<1>3. ASSUME NEW p \in Procs, In!Step(p) PROVE Keeps'
  <2>1. \A q \in Procs : HeldWhole(q)'
    BY <1>2, <1>3, NewCopies, SetupOthers
  <2>2. \A s \in Session : \A c \in pinned'[s] : Whole(c)'
    BY <1>1, <1>3, NewCopies
  <2>3. In!PinnedIntact'
    BY <2>2 DEF In!PinnedIntact, Whole
  <2>4. QED
    BY <2>1, <2>3 DEF Keeps
<1>4. ASSUME UNCHANGED <<step, job>>, \A s \in Session : pinned'[s] \subseteq pinned[s]
      PROVE  Keeps'
  <2>1. In!PinnedIntact'
    BY <1>1, <1>4 DEF In!PinnedIntact, Whole
  <2>2. QED
    BY <1>2, <1>4, <2>1 DEF Keeps
<1>5. CASE Environment
  <2>1. UNCHANGED <<step, job>>
    BY <1>5 DEF Environment, In!End, In!Restore, In!StaleSave, In!UserEdits,
         In!RemoveLeftover, In!Rebuild, In!Lose
  <2>2. pinned' = pinned \/ \E s \in Session : In!StaleSave(s)
    BY <1>5 DEF Environment, In!sessions, In!End, In!Restore, In!UserEdits,
         In!RemoveLeftover, In!Rebuild, In!Lose
  <2>3. \A s \in Session : pinned'[s] \subseteq pinned[s]
    BY <2>2 DEF In!StaleSave, SetupIInv, In!TypeOK
  <2>4. QED
    BY <1>4, <2>1, <2>3
<1>6. CASE UNCHANGED In!vars
  BY <1>4, <1>6 DEF In!vars
<1>7. QED
  BY <1>3, <1>5, <1>6 DEF In!Next, Environment

(* A session can be resumed with the build it was begun with: the copy it  *)
(* is pinned to was complete when it was recorded, and no later build,     *)
(* repair or concurrent copy touches it.                                   *)
THEOREM SessionsKeepTheirBuild == ASSUME In!InstallationAssumption PROVE In!Spec => []In!PinnedIntact
<1>1. In!Init => Keeps
  BY DEF In!Init, Keeps, In!PinnedIntact, HeldWhole
<1>2. SetupIInv /\ Keeps /\ [In!Next]_In!vars => Keeps'
  BY KeepsKept
<1>3. Keeps => In!PinnedIntact
  BY DEF Keeps
<1>4. QED
  BY <1>1, <1>2, <1>3, Inductive, PTL DEF In!Spec

-----------------------------------------------------------------------------
(* The other evidence that is written beside the records: recovery bundles   *)
(* (RecoveryBundle), for any commands, bundles and deaths, and any depth of  *)
(* the search.                                                               *)
CONSTANTS Commands, Attempts, Locals, Depth, MaxManifests
VARIABLES refs, log, retained, used, record, held, gate, at, writing, broken
RB == INSTANCE RecoveryBundle
      WITH kept <- retained, lock <- gate, pc <- at, job <- writing

BundleLockInv == \A c \in Commands : at[c] \in RB!Inside => gate = c

(* After its verification a copy points to the manifest there is.            *)
PointsToCurrent(c) ==
  /\ held[c].attempt \in Attempts /\ log[held[c].attempt] # <<>>
  /\ held[c].manifest = RB!Current(held[c].attempt)
VerifiedInv == \A c \in Commands : at[c] = "verified" => PointsToCurrent(c)

(* The record that a command is writing is the next of its bundle.           *)
Opens(c) == writing[c].kind = "open" /\ writing[c].sequence = 0 /\ log[writing[c].attempt] = <<>>
Adds(c) ==
  /\ writing[c].kind # "open" /\ writing[c].attempt = held[c].attempt /\ PointsToCurrent(c)
  /\ writing[c].sequence = RB!Size(writing[c].attempt) + (IF writing[c].kind = "archive" THEN 0 ELSE 1)
  /\ writing[c].kind = "archive" => writing[c].parts = {}
Names(c) ==
  /\ writing[c].todo \subseteq writing[c].parts
  /\ \A part \in writing[c].parts \ writing[c].todo : RB!NameOf(writing[c], part) \in refs[writing[c].attempt]
  /\ at[c] = "publish" =>
       writing[c].todo = {} /\ <<Len(log[writing[c].attempt]) + 1, c>> \in retained[writing[c].attempt]
Writes(c) == writing[c].attempt \in used /\ (Opens(c) \/ Adds(c)) /\ Names(c)
BundleJobInv == \A c \in Commands : at[c] \in RB!Writing => Writes(c)

FreshInv == \A a \in Attempts \ used : log[a] = <<>> /\ refs[a] = {}

(* Every reference belongs to a snapshot that is counted, to a broken record *)
(* or to the one that is being written.                                      *)
Counted(a, name) == log[a] # <<>> /\ name.sequence <= RB!Size(a)
Left(a, name) == [attempt |-> a, kind |-> name.kind, sequence |-> name.sequence] \in broken
Made(a, name) == \E c \in Commands :
  /\ at[c] \in RB!Writing /\ writing[c].attempt = a
  /\ writing[c].kind = name.kind /\ writing[c].sequence = name.sequence /\ name.part \notin writing[c].todo
RefInv == \A a \in Attempts : \A name \in refs[a] :
            Counted(a, name) \/ Left(a, name) \/ Made(a, name)

BundleIInv == /\ RB!TypeOK /\ BundleLockInv /\ VerifiedInv /\ BundleJobInv /\ FreshInv /\ RefInv
        /\ RB!EvidenceKept /\ RB!PointerBehind

LEMMA BundleInitIInv == ASSUME RB!RecoveryBundleAssumption PROVE RB!Init => BundleIInv
<1> SUFFICES ASSUME RB!Init PROVE BundleIInv
  OBVIOUS
<1> USE RB!RecoveryBundleAssumption DEF RB!RecoveryBundleAssumption, RB!Init
<1>1. RB!TypeOK
  BY DEF RB!TypeOK, RB!Nowhere, RB!NoJob, RB!Pointer, RB!Job, RB!Part, RB!Steps
<1>2. BundleLockInv /\ VerifiedInv /\ BundleJobInv /\ FreshInv /\ RefInv
  BY DEF BundleLockInv, VerifiedInv, BundleJobInv, FreshInv, RefInv, RB!Inside, RB!Writing
<1>3. RB!EvidenceKept /\ RB!PointerBehind
  BY DEF RB!EvidenceKept, RB!PointerBehind, RB!Behind, RB!Nowhere
<1> QED
  BY <1>1, <1>2, <1>3 DEF BundleIInv

(* Types: the commands that only read, save or leave, and then each of those *)
(* that write.                                                               *)
LEMMA LeaveTypes ==
  ASSUME RB!RecoveryBundleAssumption, RB!TypeOK, NEW c \in Commands, NEW left, RB!Leave(c, left),
         left \subseteq [attempt : Attempts, kind : RB!Kind \cup {"open", "archive"}, sequence : Nat]
  PROVE  RB!TypeOK'
BY DEF RB!RecoveryBundleAssumption, RB!TypeOK, RB!Leave, RB!bundle, RB!Steps

LEMMA UnfinishedTypes ==
  ASSUME RB!TypeOK, BundleJobInv, NEW c \in Commands
  PROVE  RB!Unfinished(c) \subseteq [attempt : Attempts, kind : RB!Kind \cup {"open", "archive"}, sequence : Nat]
BY DEF RB!TypeOK, BundleJobInv, RB!Unfinished, RB!Job, Writes

LEMMA StartTypes ==
  ASSUME RB!TypeOK, NEW c \in Commands, NEW j \in RB!Job, RB!Start(c, j), used' \subseteq Attempts
  PROVE  RB!TypeOK'
BY DEF RB!TypeOK, RB!Start, RB!Steps, RB!Inside, RB!Writing

LEMMA SizeType ==
  ASSUME RB!TypeOK, NEW a \in Attempts, log[a] # <<>>
  PROVE  RB!Size(a) \in Nat /\ RB!Current(a) \in RB!Id /\ Len(log[a]) \in Nat \ {0}
<1>1. log[a] \in Seq(RB!Entry) /\ Len(log[a]) \in Nat \ {0}
  BY DEF RB!TypeOK
<1>2. log[a][Len(log[a])] \in RB!Entry
  BY <1>1
<1> QED
  BY <1>1, <1>2 DEF RB!Size, RB!Current, RB!IdAt, RB!Entry, RB!Id

(* What a publication does to the manifests.                                 *)
NewEntry(c) == [kind |-> writing[c].kind, sequence |-> writing[c].sequence, parts |-> writing[c].parts,
                by |-> c, previous |-> held[c].manifest]
LEMMA Published ==
  ASSUME RB!RecoveryBundleAssumption, RB!TypeOK, BundleJobInv, NEW c \in Commands, RB!PublishManifest(c)
  PROVE  /\ writing[c].attempt \in Attempts /\ NewEntry(c) \in RB!Entry
         /\ log' \in [Attempts -> Seq(RB!Entry)]
         /\ \A b \in Attempts \ {writing[c].attempt} : log'[b] = log[b]
         /\ log'[writing[c].attempt] # <<>>
         /\ Len(log'[writing[c].attempt]) = Len(log[writing[c].attempt]) + 1
         /\ \A n \in 1 .. Len(log[writing[c].attempt]) :
              log'[writing[c].attempt][n] = log[writing[c].attempt][n]
         /\ log'[writing[c].attempt][Len(log[writing[c].attempt]) + 1] = NewEntry(c)
<1>1. writing[c] \in RB!Job /\ writing[c].attempt \in Attempts
  BY DEF RB!TypeOK, BundleJobInv, Writes, RB!PublishManifest, RB!Goto, RB!Writing
<1>2. NewEntry(c) \in RB!Entry
  BY <1>1 DEF NewEntry, RB!Entry, RB!Job, RB!TypeOK, RB!Pointer
<1>3. log' = [log EXCEPT ![writing[c].attempt] = Append(log[writing[c].attempt], NewEntry(c))]
  BY DEF RB!PublishManifest, NewEntry
<1>4. log[writing[c].attempt] \in Seq(RB!Entry)
  BY <1>1 DEF RB!TypeOK
<1>5. log'[writing[c].attempt] = Append(log[writing[c].attempt], NewEntry(c))
  BY <1>1, <1>3 DEF RB!TypeOK
<1>6. \A b \in Attempts \ {writing[c].attempt} : log'[b] = log[b]
  BY <1>1, <1>3 DEF RB!TypeOK
<1>7. log' \in [Attempts -> Seq(RB!Entry)]
  BY <1>1, <1>2, <1>3, <1>4 DEF RB!TypeOK
<1>8. /\ Len(log'[writing[c].attempt]) = Len(log[writing[c].attempt]) + 1
      /\ \A n \in 1 .. Len(log[writing[c].attempt]) :
           log'[writing[c].attempt][n] = log[writing[c].attempt][n]
      /\ log'[writing[c].attempt][Len(log[writing[c].attempt]) + 1] = NewEntry(c)
      /\ log'[writing[c].attempt] # <<>>
  BY <1>2, <1>4, <1>5
<1> QED
  BY <1>1, <1>2, <1>6, <1>7, <1>8

LEMMA BundleTypeStep == ASSUME RB!RecoveryBundleAssumption, BundleIInv, [RB!Next]_RB!vars PROVE RB!TypeOK'
<1> USE DEF BundleIInv
<1>1. CASE UNCHANGED RB!vars
  BY <1>1 DEF RB!TypeOK, RB!vars, RB!bundle
<1>2. ASSUME NEW d \in Commands, RB!Read(d) PROVE RB!TypeOK'
  BY <1>2 DEF RB!TypeOK, RB!Read, RB!Goto, RB!bundle, RB!Steps
<1>3. ASSUME NEW d \in Commands, RB!Wait(d) PROVE RB!TypeOK'
  BY <1>3 DEF RB!TypeOK, RB!Wait, RB!Goto, RB!bundle, RB!Steps
<1>4. ASSUME NEW d \in Commands, RB!TakeLock(d) PROVE RB!TypeOK'
  BY <1>4 DEF RB!TypeOK, RB!TakeLock, RB!Goto, RB!bundle, RB!Steps, RB!Inside
<1>5. ASSUME NEW d \in Commands, RB!SaveRecord(d) PROVE RB!TypeOK'
  BY <1>5 DEF RB!TypeOK, RB!SaveRecord, RB!bundle
<1>6. ASSUME NEW d \in Commands, RB!SaveLate(d) PROVE RB!TypeOK'
  BY <1>6 DEF RB!TypeOK, RB!SaveLate, RB!Goto, RB!bundle, RB!Steps
<1>7. ASSUME NEW d \in Commands, RB!Verify(d) PROVE RB!TypeOK'
  <2>1. held[d].attempt \in Attempts /\ log[held[d].attempt] # <<>>
    BY <1>7 DEF RB!Verify, RB!Accepts, RB!TypeOK, RB!Pointer
  <2>2. RB!Current(held[d].attempt) \in RB!Id
    BY <2>1, SizeType
  <2> QED
    BY <1>7, <2>1, <2>2 DEF RB!TypeOK, RB!Verify, RB!Goto, RB!bundle, RB!Steps, RB!Inside,
         RB!Pointer
<1>8. ASSUME NEW d \in Commands, RB!Mismatch(d) PROVE RB!TypeOK'
  BY <1>8, LeaveTypes DEF RB!Mismatch
<1>9. ASSUME NEW d \in Commands, RB!Fail(d) \/ RB!RefExists(d) PROVE RB!TypeOK'
  BY <1>9, LeaveTypes, UnfinishedTypes DEF RB!Fail, RB!RefExists
<1>10. ASSUME NEW d \in Commands, RB!EnsureRecoveryBundle(d) PROVE RB!TypeOK'
  <2> DEFINE parts == {"base", "source", "target", "rollout"}
  <2>1. PICK a \in Attempts \ used :
          /\ used' = used \cup {a}
          /\ RB!Start(d, [attempt |-> a, kind |-> "open", sequence |-> 0, parts |-> parts, todo |-> parts])
    BY <1>10 DEF RB!EnsureRecoveryBundle
  <2>2. [attempt |-> a, kind |-> "open", sequence |-> 0, parts |-> parts, todo |-> parts] \in RB!Job
    BY DEF RB!Job, RB!Part
  <2> QED
    BY <2>1, <2>2, StartTypes DEF RB!TypeOK
<1>11. ASSUME NEW d \in Commands, NEW kind \in RB!Kind, NEW parts \in SUBSET RB!Part,
              RB!Append1(d, kind, parts)
       PROVE RB!TypeOK'
  <2>1. held[d].attempt \in Attempts /\ RB!Size(held[d].attempt) \in Nat
    BY <1>11, SizeType DEF RB!Append1, VerifiedInv, PointsToCurrent
  <2>2. [attempt |-> held[d].attempt, kind |-> kind, sequence |-> RB!Size(held[d].attempt) + 1,
         parts |-> parts, todo |-> parts] \in RB!Job
    BY <2>1 DEF RB!Job
  <2> QED
    BY <1>11, <2>2, StartTypes DEF RB!Append1, RB!TypeOK
<1>12. ASSUME NEW d \in Commands, RB!ArchiveRecoveryBundle(d) PROVE RB!TypeOK'
  <2>1. held[d].attempt \in Attempts /\ RB!Size(held[d].attempt) \in Nat
    BY <1>12, SizeType DEF RB!ArchiveRecoveryBundle, VerifiedInv, PointsToCurrent
  <2>2. [attempt |-> held[d].attempt, kind |-> "archive", sequence |-> RB!Size(held[d].attempt),
         parts |-> {}, todo |-> {}] \in RB!Job
    BY <2>1 DEF RB!Job
  <2> QED
    BY <1>12, <2>2, StartTypes DEF RB!ArchiveRecoveryBundle, RB!TypeOK
<1>13. ASSUME NEW d \in Commands, RB!CreateImmutableRef(d) PROVE RB!TypeOK'
  <2>1. PICK part \in writing[d].todo :
          /\ refs' = [refs EXCEPT ![writing[d].attempt] = @ \cup {RB!NameOf(writing[d], part)}]
          /\ writing' = [writing EXCEPT ![d].todo = @ \ {part}]
    BY <1>13 DEF RB!CreateImmutableRef
  <2>2. writing[d] \in RB!Job /\ at[d] = "refs"
    BY <1>13 DEF RB!CreateImmutableRef, RB!TypeOK
  <2>3. RB!NameOf(writing[d], part) \in RB!Name
    <3>1. writing[d].kind # "archive"
      BY <1>13, <2>1, <2>2 DEF BundleJobInv, RB!Writing, Writes, Names, Adds, Opens
    <3> QED
      BY <2>1, <2>2, <3>1 DEF RB!NameOf, RB!Name, RB!Job
  <2> QED
    BY <1>13, <2>1, <2>2, <2>3 DEF RB!TypeOK, RB!CreateImmutableRef, RB!Job, RB!Part
<1>14. ASSUME NEW d \in Commands, RB!KeepManifests(d) PROVE RB!TypeOK'
  <2>1. writing[d].attempt \in Attempts /\ log[writing[d].attempt] \in Seq(RB!Entry)
    BY <1>14 DEF RB!KeepManifests, RB!Goto, BundleJobInv, RB!Writing, Writes, RB!TypeOK
  <2>2. <<Len(log[writing[d].attempt]) + 1, d>> \in RB!Id
    BY <2>1 DEF RB!Id
  <2>3. log[writing[d].attempt] # <<>> => RB!Current(writing[d].attempt) \in RB!Id
    BY <2>1, SizeType
  <2> QED
    BY <1>14, <2>1, <2>2, <2>3 DEF RB!TypeOK, RB!KeepManifests, RB!Goto, RB!Steps, RB!Inside,
         RB!Writing
<1>15. ASSUME NEW d \in Commands, RB!PublishManifest(d) PROVE RB!TypeOK'
  <2>1. <<Len(log[writing[d].attempt]) + 1, d>> \in RB!Id
    BY <1>15, Published DEF RB!Id, RB!TypeOK
  <2> QED
    BY <1>15, <2>1, Published DEF RB!TypeOK, RB!PublishManifest, RB!Goto, RB!Steps, RB!Inside,
         RB!Pointer
<1>16. ASSUME NEW d \in Commands, RB!Die(d) PROVE RB!TypeOK'
  BY <1>16, UnfinishedTypes DEF RB!TypeOK, RB!Die, RB!bundle, RB!Steps
<1> QED
  BY <1>1, <1>2, <1>3, <1>4, <1>5, <1>6, <1>7, <1>8, <1>9, <1>10, <1>11, <1>12, <1>13, <1>14,
     <1>15, <1>16
     DEF RB!Next, RB!SnapshotRecoveryState, RB!RecordValidationRecovery,
          RB!RecordStagingCommitRecovery,
         RB!RecordLocalTargetRecovery, RB!Kind, RB!Part

(* The steps, by what they do.                                               *)
Starts(c) ==
  \/ RB!EnsureRecoveryBundle(c) \/ RB!ArchiveRecoveryBundle(c)
  \/ \E kind \in RB!Kind, parts \in SUBSET RB!Part : RB!Append1(c, kind, parts)
LEMMA BundleStepKinds ==
  ASSUME [RB!Next]_RB!vars
  PROVE  \/ UNCHANGED RB!vars
         \/ \E c \in Commands :
              \/ RB!Read(c) \/ RB!Wait(c) \/ RB!TakeLock(c) \/ RB!SaveRecord(c) \/ RB!Verify(c)
              \/ RB!Mismatch(c) \/ RB!Fail(c) \/ RB!SaveLate(c) \/ RB!CreateImmutableRef(c) \/ RB!RefExists(c)
              \/ RB!KeepManifests(c) \/ RB!PublishManifest(c) \/ RB!Die(c) \/ Starts(c)
BY DEF RB!Next, Starts, RB!SnapshotRecoveryState, RB!RecordValidationRecovery,
       RB!RecordStagingCommitRecovery, RB!RecordLocalTargetRecovery, RB!Kind, RB!Part

(* The lock, and what is known of a command that holds it.                   *)
LEMMA BundleLockStep == ASSUME RB!RecoveryBundleAssumption, BundleIInv, [RB!Next]_RB!vars PROVE BundleLockInv'
<1> USE RB!RecoveryBundleAssumption DEF RB!RecoveryBundleAssumption, BundleIInv, RB!TypeOK
<1>1. CASE UNCHANGED RB!vars
  BY <1>1 DEF BundleLockInv, RB!vars
<1>2. ASSUME NEW c \in Commands,
         \/ RB!Read(c) \/ RB!Wait(c) \/ RB!TakeLock(c) \/ RB!SaveRecord(c) \/ RB!Verify(c) \/ RB!SaveLate(c)
         \/ RB!CreateImmutableRef(c) \/ RB!KeepManifests(c) \/ RB!PublishManifest(c)
      PROVE BundleLockInv'
  BY <1>2 DEF BundleLockInv, RB!Read, RB!Wait, RB!TakeLock, RB!SaveRecord, RB!Verify, RB!SaveLate,
       RB!CreateImmutableRef,
     RB!KeepManifests, RB!PublishManifest, RB!Goto, RB!Inside, RB!Writing
<1>3. ASSUME NEW c \in Commands, RB!Mismatch(c) \/ RB!Fail(c) \/ RB!RefExists(c) \/ RB!Die(c) PROVE BundleLockInv'
  BY <1>3 DEF BundleLockInv, RB!Mismatch, RB!Fail, RB!RefExists, RB!Die, RB!Leave, RB!Inside,
       RB!Writing
<1>4. ASSUME NEW c \in Commands, NEW j, at[c] \in {"locked", "verified"}, RB!Start(c, j)
      PROVE BundleLockInv'
  BY <1>4 DEF BundleLockInv, RB!Start, RB!Inside
<1>5. ASSUME NEW c \in Commands, Starts(c) PROVE BundleLockInv'
  <2>1. at[c] \in {"locked", "verified"} /\ \E j : RB!Start(c, j)
    BY <1>5 DEF Starts, RB!EnsureRecoveryBundle, RB!ArchiveRecoveryBundle, RB!Append1
  <2> QED
    BY <1>4, <2>1
<1> QED
  BY <1>1, <1>2, <1>3, <1>5, BundleStepKinds

LEMMA FreshStep == ASSUME RB!RecoveryBundleAssumption, BundleIInv, [RB!Next]_RB!vars PROVE FreshInv'
<1> USE DEF BundleIInv, RB!TypeOK
<1>1. CASE UNCHANGED <<RB!bundle>>
  BY <1>1 DEF FreshInv, RB!bundle
<1>2. ASSUME NEW c \in Commands, NEW j, RB!Start(c, j), used \subseteq used' PROVE FreshInv'
  BY <1>2 DEF FreshInv, RB!Start
<1>3. ASSUME NEW c \in Commands, RB!CreateImmutableRef(c) PROVE FreshInv'
  BY <1>3 DEF FreshInv, RB!CreateImmutableRef, BundleJobInv, RB!Writing, Writes
<1>4. ASSUME NEW c \in Commands, RB!KeepManifests(c) PROVE FreshInv'
  BY <1>4 DEF FreshInv, RB!KeepManifests
<1>5. ASSUME NEW c \in Commands, RB!PublishManifest(c) PROVE FreshInv'
  BY <1>5 DEF FreshInv, RB!PublishManifest, RB!Goto, BundleJobInv, RB!Writing, Writes
<1>6. ASSUME NEW c \in Commands, Starts(c) PROVE FreshInv'
  BY <1>2, <1>6 DEF Starts, RB!EnsureRecoveryBundle, RB!ArchiveRecoveryBundle, RB!Append1
<1> QED
  BY <1>1, <1>3, <1>4, <1>5, <1>6, BundleStepKinds
     DEF RB!vars, RB!bundle, RB!Read, RB!Wait, RB!TakeLock, RB!SaveRecord, RB!Verify, RB!SaveLate,
          RB!Mismatch, RB!Fail,
         RB!RefExists, RB!Die, RB!Leave

(* Evidence: only a publication adds a manifest; other steps add references  *)
(* and copies.                                                               *)
LEMMA EvidenceStep == ASSUME RB!RecoveryBundleAssumption, BundleIInv, [RB!Next]_RB!vars PROVE RB!EvidenceKept'
<1> USE DEF BundleIInv
<1>1. ASSUME UNCHANGED log, \A a \in Attempts : refs[a] \subseteq refs'[a] /\ retained[a] \subseteq retained'[a]
      PROVE  RB!EvidenceKept'
  BY <1>1 DEF RB!EvidenceKept, RB!IdAt, RB!NameOf
<1>2. ASSUME NEW c \in Commands, RB!PublishManifest(c) PROVE RB!EvidenceKept'
  <2> DEFINE a == writing[c].attempt
             len == Len(log[a])
  <2>1. /\ Writes(c) /\ at[c] = "publish" /\ UNCHANGED <<refs, retained>> /\ len \in Nat
    BY <1>2, Published DEF RB!PublishManifest, RB!Goto, BundleJobInv, RB!Writing, RB!TypeOK
  <2> SUFFICES ASSUME NEW b \in Attempts, NEW n \in 1 .. Len(log'[b])
               PROVE  /\ RB!IdAt(b, n)' \in retained'[b]
                      /\ n > 1 => log'[b][n].previous = RB!IdAt(b, n - 1)'
                      /\ \A part \in log'[b][n].parts : RB!NameOf(log'[b][n], part) \in refs'[b]
    BY DEF RB!EvidenceKept, RB!IdAt, RB!NameOf
  <2>2. CASE b # a
    BY <1>2, <2>1, <2>2, Published DEF RB!EvidenceKept, RB!IdAt, RB!NameOf
  <2>3. CASE b = a /\ n <= len
    <3>1. n \in 1 .. len /\ log'[a][n] = log[a][n] /\ (n > 1 => log'[a][n - 1] = log[a][n - 1])
      BY <1>2, <2>1, <2>3, Published
    <3> QED
      BY <2>1, <2>3, <3>1 DEF RB!EvidenceKept, RB!IdAt, RB!NameOf
  <2>4. CASE b = a /\ n = len + 1
    <3>1. log'[a][n] = NewEntry(c)
      BY <1>2, <2>4, Published
    <3>2. <<n, log'[a][n].by>> = <<len + 1, c>>
      BY <2>4, <3>1 DEF NewEntry
    <3>3. n > 1 => log'[a][n].previous = <<n - 1, log'[a][n - 1].by>>
      <4> SUFFICES ASSUME n > 1 PROVE log'[a][n].previous = <<n - 1, log'[a][n - 1].by>>
        OBVIOUS
      <4>1. log[a] # <<>> /\ len \in 1 .. len
        BY <2>1, <2>4 DEF RB!TypeOK
      <4>2. held[c].manifest = RB!IdAt(a, len)
        BY <2>1, <4>1 DEF Writes, Opens, Adds, PointsToCurrent, RB!Current
      <4>3. log'[a][len] = log[a][len]
        BY <1>2, <4>1, Published
      <4> QED
        BY <2>1, <2>4, <3>1, <4>2, <4>3 DEF NewEntry, RB!IdAt
    <3>4. \A part \in writing[c].parts : RB!NameOf(NewEntry(c), part) \in refs[a]
      BY <2>1 DEF Writes, Names, RB!NameOf, NewEntry
    <3> QED
      BY <2>1, <2>4, <3>1, <3>2, <3>3, <3>4 DEF NewEntry, Writes, Names, RB!IdAt
  <2> QED
    BY <1>2, <2>1, <2>2, <2>3, <2>4, Published
<1>3. ASSUME NEW c \in Commands, RB!CreateImmutableRef(c) PROVE RB!EvidenceKept'
  BY <1>1, <1>3 DEF RB!CreateImmutableRef, RB!TypeOK
<1>4. ASSUME NEW c \in Commands, RB!KeepManifests(c) PROVE RB!EvidenceKept'
  BY <1>1, <1>4 DEF RB!KeepManifests, RB!TypeOK
<1>5. ASSUME NEW c \in Commands, Starts(c) PROVE RB!EvidenceKept'
  BY <1>1, <1>5 DEF Starts, RB!Start, RB!EnsureRecoveryBundle, RB!ArchiveRecoveryBundle, RB!Append1
<1> QED
  BY <1>1, <1>2, <1>3, <1>4, <1>5, BundleStepKinds
     DEF RB!vars, RB!bundle, RB!Read, RB!Wait, RB!TakeLock, RB!SaveRecord, RB!Verify, RB!SaveLate,
          RB!Mismatch, RB!Fail,
         RB!RefExists, RB!Die, RB!Leave

(* Pointers: a manifest that is published stays where it is.                 *)
LEMMA PointerStep == ASSUME RB!RecoveryBundleAssumption, BundleIInv, [RB!Next]_RB!vars PROVE RB!PointerBehind'
<1> USE DEF BundleIInv
<1>1. ASSUME UNCHANGED log, record' \in {record} \cup {held[c] : c \in Commands},
             \A c \in Commands : held'[c] \in {record, held[c]}
      PROVE  RB!PointerBehind'
  BY <1>1 DEF RB!PointerBehind, RB!Behind, RB!IdAt
<1>2. ASSUME NEW c \in Commands, RB!PublishManifest(c) PROVE RB!PointerBehind'
  <2> DEFINE a == writing[c].attempt
             len == Len(log[a])
  <2>1. len \in Nat
    BY <1>2, Published DEF RB!TypeOK
  <2>2. ASSUME NEW p \in RB!Pointer, RB!Behind(p) PROVE RB!Behind(p)'
    <3> SUFFICES ASSUME p.attempt # None
                 PROVE  \E n \in 1 .. Len(log'[p.attempt]) : p.manifest = RB!IdAt(p.attempt, n)'
      BY DEF RB!Behind, RB!IdAt
    <3>1. p.attempt \in Attempts
      BY DEF RB!Pointer
    <3>2. PICK n \in 1 .. Len(log[p.attempt]) : p.manifest = RB!IdAt(p.attempt, n)
      BY <2>2 DEF RB!Behind
    <3>3. n \in 1 .. Len(log'[p.attempt]) /\ log'[p.attempt][n] = log[p.attempt][n]
      BY <1>2, <2>1, <3>1, <3>2, Published
    <3> QED
      BY <3>2, <3>3 DEF RB!IdAt
  <2>3. RB!Behind(held[c])'
    <3>1. held'[c].attempt = a /\ held'[c].manifest = <<len + 1, c>>
      BY <1>2 DEF RB!PublishManifest, RB!TypeOK
    <3>2. <<len + 1, log'[a][len + 1].by>> = <<len + 1, c>> /\ len + 1 \in 1 .. Len(log'[a])
      <4>1. log'[a][len + 1] = NewEntry(c) /\ Len(log'[a]) = len + 1
        BY <1>2, Published
      <4> QED
        BY <2>1, <4>1 DEF NewEntry
    <3>3. \E n \in 1 .. Len(log'[held'[c].attempt]) :
            held'[c].manifest = <<n, log'[held'[c].attempt][n].by>>
      BY <3>1, <3>2
    <3> QED
      BY <3>3 DEF RB!Behind, RB!IdAt
  <2>4. record' = record /\ \A d \in Commands \ {c} : held'[d] = held[d]
    BY <1>2 DEF RB!PublishManifest, RB!TypeOK
  <2>5. RB!Behind(record)' /\ \A d \in Commands \ {c} : RB!Behind(held[d])'
    BY <2>2, <2>4 DEF RB!PointerBehind, RB!TypeOK, RB!Behind
  <2> QED
    BY <2>3, <2>5 DEF RB!PointerBehind
<1>3. ASSUME NEW c \in Commands, RB!Verify(c) PROVE RB!PointerBehind'
  <2>1. held[c].attempt \in Attempts /\ log[held[c].attempt] # <<>>
    BY <1>3 DEF RB!Verify, RB!Accepts, RB!TypeOK, RB!Pointer
  <2>2. Len(log[held[c].attempt]) \in 1 .. Len(log[held[c].attempt])
    BY <2>1, SizeType
  <2>3. /\ UNCHANGED <<log, record>> /\ \A d \in Commands \ {c} : held'[d] = held[d]
        /\ held'[c].attempt = held[c].attempt /\ held'[c].manifest = RB!Current(held[c].attempt)
    BY <1>3 DEF RB!Verify, RB!bundle, RB!TypeOK
  <2> QED
    BY <2>2, <2>3 DEF RB!PointerBehind, RB!Behind, RB!Current, RB!IdAt
<1>4. ASSUME NEW c \in Commands, RB!Read(c) \/ RB!Wait(c) \/ RB!TakeLock(c) \/ RB!SaveRecord(c) \/ RB!SaveLate(c)
      PROVE RB!PointerBehind'
  BY <1>1, <1>4 DEF RB!Read, RB!Wait, RB!TakeLock, RB!SaveRecord, RB!SaveLate, RB!bundle, RB!TypeOK
<1>5. ASSUME NEW c \in Commands, RB!Mismatch(c) \/ RB!Fail(c) \/ RB!RefExists(c) \/ RB!Die(c)
      PROVE RB!PointerBehind'
  BY <1>1, <1>5 DEF RB!Mismatch, RB!Fail, RB!RefExists, RB!Die, RB!Leave, RB!bundle, RB!TypeOK
<1>6. ASSUME NEW c \in Commands, Starts(c) \/ RB!CreateImmutableRef(c) \/ RB!KeepManifests(c)
      PROVE RB!PointerBehind'
  BY <1>1, <1>6 DEF Starts, RB!Start, RB!EnsureRecoveryBundle, RB!ArchiveRecoveryBundle, RB!Append1,
     RB!CreateImmutableRef, RB!KeepManifests
<1> QED
  BY <1>1, <1>2, <1>3, <1>4, <1>5, <1>6, BundleStepKinds DEF RB!vars, RB!bundle

(* A copy that was verified, and the record it is writing, are of the        *)
(* manifest there is: nobody else publishes while its command has the lock.  *)
LEMMA Undisturbed ==
  ASSUME NEW c \in Commands, UNCHANGED log, held'[c] = held[c], PointsToCurrent(c)
  PROVE  PointsToCurrent(c)'
BY DEF PointsToCurrent, RB!Current, RB!IdAt

LEMMA VerifiedStep == ASSUME RB!RecoveryBundleAssumption, BundleIInv, [RB!Next]_RB!vars PROVE VerifiedInv'
<1> USE DEF BundleIInv
<1>1. ASSUME UNCHANGED log,
             \A c \in Commands : at'[c] = "verified" => at[c] = "verified" /\ held'[c] = held[c]
      PROVE  VerifiedInv'
  BY <1>1, Undisturbed DEF VerifiedInv
<1>2. ASSUME NEW c \in Commands, RB!Verify(c) PROVE VerifiedInv'
  <2>1. held[c].attempt \in Attempts /\ log[held[c].attempt] # <<>>
    BY <1>2 DEF RB!Verify, RB!Accepts, RB!TypeOK, RB!Pointer
  <2>2. /\ UNCHANGED log /\ held'[c].attempt = held[c].attempt
        /\ held'[c].manifest = RB!Current(held[c].attempt)
        /\ \A d \in Commands \ {c} : held'[d] = held[d] /\ at'[d] = at[d]
    BY <1>2 DEF RB!Verify, RB!Goto, RB!bundle, RB!TypeOK
  <2>3. PointsToCurrent(c)'
    BY <2>1, <2>2 DEF PointsToCurrent, RB!Current, RB!IdAt
  <2> QED
    BY <2>2, <2>3, Undisturbed DEF VerifiedInv
<1>3. ASSUME NEW c \in Commands, RB!PublishManifest(c) PROVE VerifiedInv'
  <2>1. gate = c /\ \A d \in Commands : at'[d] = "verified" => at[d] = "verified" /\ d # c
    BY <1>3 DEF RB!PublishManifest, RB!Goto, BundleLockInv, RB!Inside, RB!Writing, RB!TypeOK
  <2> QED
    BY <2>1 DEF BundleLockInv, VerifiedInv, RB!Inside
<1>4. ASSUME NEW c \in Commands, RB!Read(c) \/ RB!Wait(c) \/ RB!TakeLock(c) \/ RB!SaveRecord(c) \/ RB!SaveLate(c)
      PROVE VerifiedInv'
  BY <1>1, <1>4 DEF RB!Read, RB!Wait, RB!TakeLock, RB!SaveRecord, RB!SaveLate, RB!Goto, RB!bundle,
       RB!TypeOK
<1>5. ASSUME NEW c \in Commands, RB!Mismatch(c) \/ RB!Fail(c) \/ RB!RefExists(c) \/ RB!Die(c)
      PROVE VerifiedInv'
  BY <1>1, <1>5 DEF RB!Mismatch, RB!Fail, RB!RefExists, RB!Die, RB!Leave, RB!bundle, RB!TypeOK
<1>6. ASSUME NEW c \in Commands, Starts(c) \/ RB!CreateImmutableRef(c) \/ RB!KeepManifests(c)
      PROVE VerifiedInv'
  BY <1>1, <1>6 DEF Starts, RB!Start, RB!EnsureRecoveryBundle, RB!ArchiveRecoveryBundle, RB!Append1,
     RB!CreateImmutableRef, RB!KeepManifests, RB!Goto, RB!TypeOK
<1> QED
  BY <1>1, <1>2, <1>3, <1>4, <1>5, <1>6, BundleStepKinds DEF RB!vars, RB!bundle

LEMMA WritesStay ==
  ASSUME BundleIInv, NEW c \in Commands, at[c] \in RB!Writing, Writes(c), at'[c] = at[c],
         UNCHANGED log, writing'[c] = writing[c], held'[c] = held[c], used \subseteq used',
         \A a \in Attempts : refs[a] \subseteq refs'[a] /\ retained[a] \subseteq retained'[a]
  PROVE  Writes(c)'
<1>1. writing[c].attempt \in Attempts
  BY DEF BundleIInv, RB!TypeOK, Writes
<1>2. Opens(c) => Opens(c)'
  BY DEF Opens
<1>3. Adds(c) => Adds(c)'
  BY Undisturbed DEF Adds, RB!Size
<1>4. Names(c)'
  BY <1>1 DEF Writes, Names, RB!NameOf
<1> QED
  BY <1>2, <1>3, <1>4 DEF Writes

LEMMA JobStep == ASSUME RB!RecoveryBundleAssumption, BundleIInv, [RB!Next]_RB!vars PROVE BundleJobInv'
<1> USE DEF BundleIInv
<1>1. ASSUME UNCHANGED log, used \subseteq used',
             \A a \in Attempts : refs[a] \subseteq refs'[a] /\ retained[a] \subseteq retained'[a],
             \A c \in Commands : at'[c] \in RB!Writing =>
               at'[c] = at[c] /\ writing'[c] = writing[c] /\ held'[c] = held[c]
      PROVE  BundleJobInv'
  BY <1>1, WritesStay DEF BundleJobInv
<1>2. ASSUME NEW c \in Commands, Writes(c)',
             \A d \in Commands \ {c} : at'[d] \notin RB!Inside
      PROVE  BundleJobInv'
  BY <1>2 DEF BundleJobInv, RB!Inside
<1>3. ASSUME NEW c \in Commands, at[c] \in RB!Inside,
             \A d \in Commands \ {c} : at'[d] = at[d]
      PROVE  \A d \in Commands \ {c} : at'[d] \notin RB!Inside
  BY <1>3 DEF BundleLockInv
<1>4. ASSUME NEW c \in Commands, RB!PublishManifest(c) PROVE BundleJobInv'
  <2>1. at[c] \in RB!Inside /\ at'[c] \notin RB!Writing /\ \A d \in Commands \ {c} : at'[d] = at[d]
    BY <1>4 DEF RB!PublishManifest, RB!Goto, RB!TypeOK, RB!Inside, RB!Writing
  <2> QED
    BY <1>3, <2>1 DEF BundleJobInv, RB!Inside
<1>5. ASSUME NEW c \in Commands, Starts(c) PROVE BundleJobInv'
  <2>1. /\ at[c] \in RB!Inside /\ at' = [at EXCEPT ![c] = "refs"] /\ UNCHANGED <<log, held, refs>>
        /\ \A d \in Commands \ {c} : at'[d] = at[d]
    BY <1>5 DEF Starts, RB!Start, RB!EnsureRecoveryBundle, RB!ArchiveRecoveryBundle, RB!Append1,
         RB!Inside, RB!TypeOK
  <2>2. ASSUME NEW kind \in RB!Kind, NEW parts \in SUBSET RB!Part, RB!Append1(c, kind, parts)
        PROVE  Writes(c)'
    <3>1. PointsToCurrent(c)' /\ held[c].attempt \in used /\ used' = used
      BY <2>1, <2>2, Undisturbed DEF RB!Append1, VerifiedInv, PointsToCurrent, FreshInv
    <3>2. writing'[c] = [attempt |-> held[c].attempt, kind |-> kind,
                     sequence |-> RB!Size(held[c].attempt) + 1, parts |-> parts, todo |-> parts]
      BY <2>2 DEF RB!Append1, RB!Start, RB!TypeOK
    <3>3. kind # "open" /\ kind # "archive" /\ at'[c] = "refs"
      BY <2>1 DEF RB!Kind, RB!TypeOK
    <3> QED
      BY <2>1, <3>1, <3>2, <3>3 DEF Writes, Adds, Names, RB!Size
  <2>3. ASSUME RB!ArchiveRecoveryBundle(c) PROVE Writes(c)'
    <3>1. PointsToCurrent(c)' /\ held[c].attempt \in used /\ used' = used
      BY <2>1, <2>3, Undisturbed DEF RB!ArchiveRecoveryBundle, VerifiedInv, PointsToCurrent,
           FreshInv
    <3>2. writing'[c] = [attempt |-> held[c].attempt, kind |-> "archive",
                     sequence |-> RB!Size(held[c].attempt), parts |-> {}, todo |-> {}]
      BY <2>3 DEF RB!ArchiveRecoveryBundle, RB!Start, RB!TypeOK
    <3>3. RB!Size(held[c].attempt) \in Nat /\ at'[c] = "refs"
      BY <2>1, <2>3, SizeType DEF RB!ArchiveRecoveryBundle, VerifiedInv, PointsToCurrent, RB!TypeOK
    <3> QED
      BY <2>1, <3>1, <3>2, <3>3 DEF Writes, Adds, Names, RB!Size
  <2>4. ASSUME RB!EnsureRecoveryBundle(c) PROVE Writes(c)'
    <3> DEFINE parts == {"base", "source", "target", "rollout"}
    <3>1. PICK a \in Attempts \ used :
            /\ used' = used \cup {a}
            /\ RB!Start(c, [attempt |-> a, kind |-> "open", sequence |-> 0, parts |-> parts,
                         todo |-> parts])
      BY <2>4 DEF RB!EnsureRecoveryBundle
    <3>2. writing'[c] = [attempt |-> a, kind |-> "open", sequence |-> 0, parts |-> parts, todo |-> parts]
      BY <3>1 DEF RB!Start, RB!TypeOK
    <3>3. log'[a] = <<>> /\ at'[c] = "refs"
      BY <2>1, <3>1 DEF FreshInv, RB!TypeOK
    <3> QED
      BY <3>1, <3>2, <3>3 DEF Writes, Opens, Names
  <2> QED
    BY <1>2, <1>3, <1>5, <2>1, <2>2, <2>3, <2>4 DEF Starts
<1>6. ASSUME NEW c \in Commands, RB!CreateImmutableRef(c) PROVE BundleJobInv'
  <2>1. PICK part \in writing[c].todo :
          /\ refs' = [refs EXCEPT ![writing[c].attempt] = @ \cup {RB!NameOf(writing[c], part)}]
          /\ writing' = [writing EXCEPT ![c].todo = @ \ {part}]
    BY <1>6 DEF RB!CreateImmutableRef
  <2>2. at[c] = "refs" /\ UNCHANGED <<log, retained, used, held, at>> /\ Writes(c)
    BY <1>6 DEF RB!CreateImmutableRef, BundleJobInv, RB!Writing
  <2>3. /\ writing'[c].attempt = writing[c].attempt /\ writing'[c].kind = writing[c].kind
        /\ writing'[c].sequence = writing[c].sequence /\ writing'[c].parts = writing[c].parts
        /\ writing'[c].todo = writing[c].todo \ {part} /\ writing[c].attempt \in Attempts
    BY <2>1, <2>2 DEF RB!TypeOK, RB!Job, Writes
  <2>4. refs'[writing[c].attempt] = refs[writing[c].attempt] \cup {RB!NameOf(writing[c], part)}
    BY <2>1, <2>3 DEF RB!TypeOK
  <2>5. Names(c)'
    BY <2>2, <2>3, <2>4 DEF Writes, Names, RB!NameOf
  <2>6. (Opens(c) \/ Adds(c))'
    BY <2>2, <2>3, Undisturbed DEF Writes, Opens, Adds, RB!Size
  <2>7. Writes(c)'
    BY <2>2, <2>3, <2>5, <2>6 DEF Writes
  <2> QED
    BY <1>2, <1>3, <2>2, <2>7 DEF RB!Inside, RB!Writing
<1>7. ASSUME NEW c \in Commands, RB!KeepManifests(c) PROVE BundleJobInv'
  <2>1. /\ at[c] = "refs" /\ at'[c] = "publish" /\ writing[c].todo = {} /\ Writes(c)
        /\ UNCHANGED <<log, used, held, writing, refs>> /\ writing[c].attempt \in Attempts
        /\ \A d \in Commands \ {c} : at'[d] = at[d]
    BY <1>7 DEF RB!KeepManifests, RB!Goto, BundleJobInv, RB!Writing, Writes, RB!TypeOK
  <2>2. <<Len(log[writing[c].attempt]) + 1, c>> \in retained'[writing[c].attempt]
    BY <1>7, <2>1 DEF RB!KeepManifests, RB!TypeOK
  <2>3. (Opens(c) \/ Adds(c))' /\ Names(c)'
    BY <2>1, <2>2, Undisturbed DEF Writes, Opens, Adds, RB!Size, Names, RB!NameOf
  <2>4. Writes(c)'
    BY <2>1, <2>3 DEF Writes
  <2> QED
    BY <1>2, <1>3, <2>1, <2>4 DEF RB!Inside, RB!Writing
<1>8. ASSUME NEW c \in Commands, RB!Read(c) \/ RB!Wait(c) \/ RB!TakeLock(c) \/ RB!SaveRecord(c) \/ RB!SaveLate(c)
      PROVE BundleJobInv'
  BY <1>1, <1>8 DEF RB!Read, RB!Wait, RB!TakeLock, RB!SaveRecord, RB!SaveLate, RB!Goto, RB!bundle,
       RB!TypeOK, RB!Writing
<1>9. ASSUME NEW c \in Commands, RB!Verify(c) \/ RB!Mismatch(c) \/ RB!Fail(c) \/ RB!RefExists(c) \/ RB!Die(c)
      PROVE BundleJobInv'
  BY <1>1, <1>9 DEF RB!Verify, RB!Mismatch, RB!Fail, RB!RefExists, RB!Die, RB!Leave, RB!Goto,
       RB!bundle, RB!TypeOK, RB!Writing
<1> QED
  BY <1>1, <1>4, <1>5, <1>6, <1>7, <1>8, <1>9, BundleStepKinds DEF RB!vars, RB!bundle

(* References: what is named and not counted was left by a break, or is made *)
(* by the command that has the lock.                                         *)
LEMMA RefStep == ASSUME RB!RecoveryBundleAssumption, BundleIInv, [RB!Next]_RB!vars PROVE RefInv'
<1> USE DEF BundleIInv
<1>1. ASSUME UNCHANGED <<refs, log>>, broken \subseteq broken',
             \A c \in Commands : at[c] \in RB!Writing =>
               \/ at'[c] \in RB!Writing /\ writing'[c] = writing[c]
               \/ RB!Unfinished(c) \subseteq broken'
      PROVE  RefInv'
  <2> SUFFICES ASSUME NEW a \in Attempts, NEW name \in refs[a]
               PROVE  Counted(a, name)' \/ Left(a, name)' \/ Made(a, name)'
    BY <1>1 DEF RefInv
  <2>1. CASE Counted(a, name)
    BY <1>1, <2>1 DEF Counted, RB!Size
  <2>2. CASE Left(a, name)
    BY <1>1, <2>2 DEF Left
  <2>3. CASE Made(a, name)
    <3>1. PICK c \in Commands :
            /\ at[c] \in RB!Writing /\ writing[c].attempt = a
            /\ writing[c].kind = name.kind /\ writing[c].sequence = name.sequence
            /\ name.part \notin writing[c].todo
      BY <2>3 DEF Made
    <3>2. CASE at'[c] \in RB!Writing /\ writing'[c] = writing[c]
      BY <3>1, <3>2 DEF Made
    <3>3. CASE RB!Unfinished(c) \subseteq broken'
      BY <3>1, <3>3 DEF Left, RB!Unfinished
    <3> QED
      BY <1>1, <3>1, <3>2, <3>3
  <2> QED
    BY <2>1, <2>2, <2>3 DEF RefInv
<1>2. ASSUME NEW c \in Commands, RB!CreateImmutableRef(c) PROVE RefInv'
  <2>1. PICK part \in writing[c].todo :
          /\ refs' = [refs EXCEPT ![writing[c].attempt] = @ \cup {RB!NameOf(writing[c], part)}]
          /\ writing' = [writing EXCEPT ![c].todo = @ \ {part}]
    BY <1>2 DEF RB!CreateImmutableRef
  <2>2. at[c] \in RB!Writing /\ UNCHANGED <<log, at, broken>> /\ writing[c].attempt \in Attempts
    BY <1>2 DEF RB!CreateImmutableRef, BundleJobInv, RB!Writing, Writes, RB!TypeOK
  <2>3. /\ writing'[c].attempt = writing[c].attempt /\ writing'[c].kind = writing[c].kind
        /\ writing'[c].sequence = writing[c].sequence /\ writing'[c].todo = writing[c].todo \ {part}
        /\ \A d \in Commands \ {c} : writing'[d] = writing[d]
    BY <2>1 DEF RB!TypeOK, RB!Job
  <2> SUFFICES ASSUME NEW a \in Attempts, NEW name \in refs'[a]
               PROVE  Counted(a, name)' \/ Left(a, name)' \/ Made(a, name)'
    BY DEF RefInv
  <2>4. CASE name \in refs[a]
    <3>1. CASE Counted(a, name)
      BY <2>2, <3>1 DEF Counted, RB!Size
    <3>2. CASE Left(a, name)
      BY <2>2, <3>2 DEF Left
    <3>3. CASE Made(a, name)
      <4>1. PICK d \in Commands :
              /\ at[d] \in RB!Writing /\ writing[d].attempt = a
              /\ writing[d].kind = name.kind /\ writing[d].sequence = name.sequence
              /\ name.part \notin writing[d].todo
        BY <3>3 DEF Made
      <4>2. /\ at'[d] \in RB!Writing /\ writing'[d].attempt = a
            /\ writing'[d].kind = name.kind /\ writing'[d].sequence = name.sequence
            /\ name.part \notin writing'[d].todo
        BY <2>2, <2>3, <4>1
      <4> QED
        BY <4>2 DEF Made
    <3> QED
      BY <2>4, <3>1, <3>2, <3>3 DEF RefInv
  <2>5. CASE a = writing[c].attempt /\ name = RB!NameOf(writing[c], part)
    <3>1. /\ at'[c] \in RB!Writing /\ writing'[c].attempt = a
          /\ writing'[c].kind = name.kind /\ writing'[c].sequence = name.sequence
          /\ name.part \notin writing'[c].todo
      BY <2>2, <2>3, <2>5 DEF RB!NameOf
    <3> QED
      BY <3>1 DEF Made
  <2>6. name \in refs[a] \/ (a = writing[c].attempt /\ name = RB!NameOf(writing[c], part))
    BY <2>1, <2>2 DEF RB!TypeOK
  <2> QED
    BY <2>4, <2>5, <2>6
<1>3. ASSUME NEW c \in Commands, RB!PublishManifest(c) PROVE RefInv'
  <2> DEFINE len == Len(log[writing[c].attempt])
  <2> SUFFICES ASSUME NEW a \in Attempts, NEW name \in refs[a]
               PROVE  Counted(a, name)' \/ Left(a, name)' \/ Made(a, name)'
    BY <1>3 DEF RefInv, RB!PublishManifest
  <2>1. /\ UNCHANGED <<broken, writing>> /\ at[c] \in RB!Writing /\ Writes(c)
        /\ \A d \in Commands \ {c} : at'[d] = at[d]
    BY <1>3 DEF RB!PublishManifest, RB!Goto, BundleJobInv, RB!Writing, RB!TypeOK
  <2>2. ASSUME a = writing[c].attempt PROVE log'[a] # <<>> /\ RB!Size(a)' = writing[c].sequence
    <3>1. log'[a] # <<>> /\ Len(log'[a]) = len + 1 /\ log'[a][len + 1] = NewEntry(c)
      BY <1>3, <2>2, Published
    <3> QED
      BY <3>1 DEF RB!Size, NewEntry
  <2>3. CASE Counted(a, name)
    <3>1. CASE a # writing[c].attempt
      BY <1>3, <2>3, <3>1, Published DEF Counted, RB!Size
    <3>2. CASE a = writing[c].attempt
      <4>1. Adds(c) /\ RB!Size(a) \in Nat /\ name.sequence \in Nat
        BY <2>1, <2>3, <3>2, SizeType DEF Writes, Opens, Counted, RB!TypeOK, RB!Name
      <4> QED
        BY <2>2, <2>3, <3>2, <4>1 DEF Counted, Adds
    <3> QED
      BY <3>1, <3>2
  <2>4. CASE Left(a, name)
    BY <2>1, <2>4 DEF Left
  <2>5. CASE Made(a, name)
    <3>1. PICK d \in Commands :
            /\ at[d] \in RB!Writing /\ writing[d].attempt = a
            /\ writing[d].kind = name.kind /\ writing[d].sequence = name.sequence
            /\ name.part \notin writing[d].todo
      BY <2>5 DEF Made
    <3>2. d = c
      BY <2>1, <3>1 DEF BundleLockInv, RB!Inside
    <3>3. writing[c].sequence \in Nat
      BY DEF RB!TypeOK, RB!Job
    <3> QED
      BY <2>2, <3>1, <3>2, <3>3 DEF Counted
  <2> QED
    BY <2>3, <2>4, <2>5 DEF RefInv
<1>4. ASSUME NEW c \in Commands, Starts(c) PROVE RefInv'
  <2>1. /\ at[c] \notin RB!Writing /\ UNCHANGED <<refs, log, broken>>
        /\ \A d \in Commands \ {c} : at'[d] = at[d] /\ writing'[d] = writing[d]
    BY <1>4 DEF Starts, RB!Start, RB!EnsureRecoveryBundle, RB!ArchiveRecoveryBundle, RB!Append1,
         RB!Writing, RB!TypeOK
  <2> QED
    BY <1>1, <2>1
<1>5. ASSUME NEW c \in Commands,
         \/ RB!Read(c) \/ RB!Wait(c) \/ RB!TakeLock(c) \/ RB!SaveRecord(c) \/ RB!SaveLate(c) \/ RB!Verify(c)
         \/ RB!KeepManifests(c)
      PROVE RefInv'
  BY <1>1, <1>5 DEF RB!Read, RB!Wait, RB!TakeLock, RB!SaveRecord, RB!SaveLate, RB!Verify,
       RB!KeepManifests, RB!Goto,
     RB!bundle, RB!TypeOK, RB!Writing
<1>6. ASSUME NEW c \in Commands, RB!Mismatch(c) \/ RB!Fail(c) \/ RB!RefExists(c) \/ RB!Die(c) PROVE RefInv'
  <2>1. /\ UNCHANGED <<refs, log, writing>> /\ broken \subseteq broken'
        /\ \A d \in Commands \ {c} : at'[d] = at[d]
        /\ at[c] \in RB!Writing => RB!Unfinished(c) \subseteq broken'
    BY <1>6 DEF RB!Mismatch, RB!Fail, RB!RefExists, RB!Die, RB!Leave, RB!bundle, RB!TypeOK,
         RB!Writing
  <2> QED
    BY <1>1, <2>1
<1> QED
  <2>1. CASE UNCHANGED RB!vars
    BY <1>1, <2>1 DEF RB!vars, RB!bundle
  <2> QED
    BY <1>2, <1>3, <1>4, <1>5, <1>6, <2>1, BundleStepKinds

(* Types, the lock, the record being written, references, evidence and       *)
(* pointers stay as they should together.                                    *)
THEOREM BundleInvariance == ASSUME RB!RecoveryBundleAssumption PROVE RB!Spec => []BundleIInv
<1>1. RB!Init => BundleIInv
  BY BundleInitIInv
<1>2. BundleIInv /\ [RB!Next]_RB!vars => BundleIInv'
  BY BundleTypeStep, BundleLockStep, FreshStep, EvidenceStep, PointerStep, VerifiedStep, JobStep, RefStep
     DEF BundleIInv
<1> QED
  BY <1>1, <1>2, PTL DEF RB!Spec

(* The state of bundles, records and commands has its type.                  *)
THEOREM BundleTypes == ASSUME RB!RecoveryBundleAssumption PROVE RB!Spec => []RB!TypeOK
<1>1. BundleIInv => RB!TypeOK
  BY DEF BundleIInv
<1> QED
  BY <1>1, BundleInvariance, PTL

(* Whoever fails or dies wherever, every manifest that was ever published is *)
(* retained, linked to the one before it, and all its references exist.      *)
THEOREM EvidenceSurvives == ASSUME RB!RecoveryBundleAssumption PROVE RB!Spec => []RB!EvidenceKept
<1>1. BundleIInv => RB!EvidenceKept
  BY DEF BundleIInv
<1> QED
  BY <1>1, BundleInvariance, PTL

(* What readVerifiedManifest refuses, no tampering assumed, is a pointer     *)
(* that an old copy or a death left behind the manifest, and that no local   *)
(* recovery repairs.                                                         *)
THEOREM MismatchIsBehind == ASSUME RB!RecoveryBundleAssumption PROVE RB!Spec => []RB!MismatchOnlyBehind
<1>1. BundleIInv => RB!MismatchOnlyBehind
  <2> SUFFICES ASSUME BundleIInv, NEW c \in Commands, at[c] = "locked", held[c].attempt # None,
                      ~RB!Accepts(held[c])
               PROVE  \E n \in 1 .. Len(log[held[c].attempt]) - 1 :
                        /\ held[c].manifest = RB!IdAt(held[c].attempt, n)
                        /\ \/ ~RB!HasLocal(held[c].attempt)
                           \/ Len(log[held[c].attempt]) - n >= Depth
    BY DEF RB!MismatchOnlyBehind
  <2> DEFINE a == held[c].attempt
             len == Len(log[a])
  <2>1. a \in Attempts /\ len \in Nat
    BY DEF BundleIInv, RB!TypeOK, RB!Pointer
  <2>2. PICK n \in 1 .. len : held[c].manifest = RB!IdAt(a, n)
    BY DEF BundleIInv, RB!PointerBehind, RB!Behind
  <2>3. log[a] # <<>>
    BY <2>1, <2>2 DEF BundleIInv, RB!TypeOK
  <2>4. n # len
    BY <2>2, <2>3 DEF RB!Accepts, RB!Current
  <2>5. len - n < Depth => RB!Found(a, held[c].manifest)
    <3> SUFFICES ASSUME len - n < Depth PROVE RB!Found(a, held[c].manifest)
      OBVIOUS
    <3>1. len - n \in 0 .. Depth - 1 /\ len - (len - n) = n /\ len - n < len
      BY <2>1, <2>2 DEF RB!RecoveryBundleAssumption
    <3>2. \A k \in n + 1 .. len : RB!IdAt(a, k) \in retained[a] /\ log[a][k].previous = RB!IdAt(a, k - 1)
      BY <2>1, <2>2 DEF BundleIInv, RB!EvidenceKept
    <3> QED
      BY <2>2, <3>1, <3>2 DEF RB!Found
  <2>6. ~(RB!Found(a, held[c].manifest) /\ RB!HasLocal(a))
    BY <2>3 DEF RB!Accepts
  <2> QED
    BY <2>1, <2>2, <2>4, <2>5, <2>6 DEF RB!RecoveryBundleAssumption
<1> QED
  BY <1>1, BundleInvariance, PTL

(* A record finds its reference taken only after a failure or a death within *)
(* the same record: overlapping commands and late saves never do that.       *)
THEOREM RefusedAfterBreak == ASSUME RB!RecoveryBundleAssumption PROVE RB!Spec => []RB!RefusedOnlyAfterBreak
<1>1. BundleIInv => RB!RefusedOnlyAfterBreak
  <2> SUFFICES ASSUME BundleIInv, NEW c \in Commands, at[c] = "refs", NEW part \in writing[c].todo,
                      RB!NameOf(writing[c], part) \in refs[writing[c].attempt]
               PROVE  Left(writing[c].attempt, RB!NameOf(writing[c], part))
    BY DEF RB!RefusedOnlyAfterBreak, Left, RB!NameOf
  <2> DEFINE a == writing[c].attempt
             name == RB!NameOf(writing[c], part)
  <2>1. Writes(c) /\ a \in Attempts
    BY DEF BundleIInv, BundleJobInv, RB!Writing, Writes, RB!TypeOK
  <2>2. ~Counted(a, name)
    <3> SUFFICES ASSUME Counted(a, name) PROVE FALSE
      OBVIOUS
    <3>1. Adds(c) /\ RB!Size(a) \in Nat /\ writing[c].kind # "archive"
      BY <2>1, SizeType DEF BundleIInv, Writes, Opens, Adds, Names, Counted
    <3> QED
      BY <3>1 DEF Adds, Counted, RB!NameOf
  <2>3. ~Made(a, name)
    BY DEF Made, BundleIInv, BundleLockInv, RB!Inside, RB!Writing, RB!NameOf
  <2> QED
    BY <2>1, <2>2, <2>3 DEF BundleIInv, RefInv
<1> QED
  BY <1>1, BundleInvariance, PTL
=============================================================================
