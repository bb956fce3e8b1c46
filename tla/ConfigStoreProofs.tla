-------------------------- MODULE ConfigStoreProofs --------------------------
(***************************************************************************)
(* Safety of the settings store for any number of processes, files and     *)
(* commands and under every fault: the locks do isolate a save, each file  *)
(* is an atomic register, and device IDs agree as long as no write is cut  *)
(* short.                                                                  *)
(***************************************************************************)
EXTENDS ConfigStore, SequenceTheorems, TLAPS

Saving  == {"xlock", "modify", "keyring", "truncate", "flush"}
Writing == {"modify", "keyring", "truncate", "flush"}

\* A process that is saving has a save in hand.
TodoInv == \A p \in Procs : pc[p] \in Saving => todo[p] # <<>>

\* Readers and writers hold the locks they think they hold, never both kinds.
LockInv ==
    /\ \A p \in Procs : pc[p] \in Writing => excl[target(p)] = p
    /\ \A p \in Procs : pc[p] = "read" => p \in shared[cmd[p].path]
    /\ \A f \in Paths : excl[f] # None => shared[f] = {}

\* What a writer has in hand is the change its save makes to the file as it
\* stands, and a truncated file is empty.
BufInv ==
    \A p \in Procs :
        /\ pc[p] = "keyring" =>
              /\ Head(todo[p]).op \in TokenOps
              /\ buf[p] = Register!Apply(p, Head(todo[p]), disk[target(p)])
        /\ pc[p] = "truncate" => buf[p] \in Register!Saved(p, Head(todo[p]), disk[target(p)])
        /\ pc[p] = "flush" => disk[target(p)] = Empty

\* What a process may do, all told.
Acts(p) == step(p) \/ tornWrite(p) \/ Crash(p) \/ Interrupt(p)

\* A process runs a command it was given.
CmdInv == \A p \in Procs : pc[p] # "idle" => cmd[p] \in Commands

Inv == TypeOK /\ CmdInv /\ TodoInv /\ LockInv /\ BufInv

-----------------------------------------------------------------------------
LEMMA SaveType == DeviceSave \in Register!Save
BY DEF DeviceSave, Register!Save

LEMMA ApplyType ==
    ASSUME NEW p \in Procs, NEW s \in Register!Save, NEW c \in Content
    PROVE  Register!Apply(p, s, c) \in Content
<1>1. /\ s.op \in {"login", "logout", "token", "host", "pref", "unpref", "device"}
      /\ s.host \in Hosts \cup {None} /\ s.token \in Tokens \cup {None}
      /\ s.pref \in Prefs \cup {None}
  BY DEF Register!Save
<1>2. Register!DeviceFor(p, c.device) \in Procs \cup {None}
  BY DEF Register!DeviceFor, Content, Register!Content
<1>3. CASE s.op \in {"login", "logout", "token"}
  BY <1>1, <1>3 DEF Register!Content, Content, Register!Apply
<1>4. CASE s.op \in {"host", "pref", "unpref"}
  BY <1>1, <1>4 DEF Register!Content, Content, Register!Apply
<1>5. CASE s.op = "device"
  BY <1>2, <1>5 DEF Register!Content, Content, Register!Apply
<1> QED BY <1>1, <1>3, <1>4, <1>5

LEMMA EmptyType == Empty \in Content
BY DEF Empty, Register!Empty, Content, Register!Content

LEMMA TodoType ==
    ASSUME TypeOK, NEW p \in Procs, todo[p] # <<>>
    PROVE  /\ Head(todo[p]) \in Register!Save /\ Tail(todo[p]) \in Seq(Register!Save)
           /\ target(p) \in Paths
<1>1. todo[p] \in Seq(Register!Save) /\ cmd[p].path \in Paths
  BY DEF TypeOK, Command
<1>2. Head(todo[p]) \in Register!Save /\ Tail(todo[p]) \in Seq(Register!Save)
  BY <1>1
<1> QED BY <1>1, <1>2, StoreAssumption DEF target

LEMMA FoundType ==
    ASSUME TypeOK, NEW a \in BOOLEAN, NEW c \in Content
    PROVE  Found(a, c) \in Tokens \cup {None} /\ EffectiveHost(c) \in Hosts
<1>1. EffectiveHost(c) \in Hosts /\ c.token \in Tokens \cup {None}
  BY StoreAssumption DEF EffectiveHost, Content, Register!Content
<1> QED BY <1>1 DEF Found, TypeOK

LEMMA ReleaseType ==
    ASSUME TypeOK, NEW p \in Procs, release(p)
    PROVE  shared' \in [Paths -> SUBSET Procs] /\ excl' \in [Paths -> Procs \cup {None}]
BY DEF release, TypeOK

LEMMA EndsType ==
    ASSUME TypeOK, NEW p \in Procs, NEW status \in {"ok", "failed", "refused"}, ends(p, status)
    PROVE  out' \in [Procs -> Outcome]
<1>1. out[p] \in Outcome /\ out' = [out EXCEPT ![p].status = status]
  BY DEF ends, TypeOK
<1>2. [out[p] EXCEPT !.status = status] \in Outcome
  BY <1>1 DEF Outcome
<1> QED BY <1>1, <1>2 DEF TypeOK

LEMMA StepType == TypeOK /\ TodoInv /\ [Next]_vars => TypeOK'
<1> SUFFICES ASSUME TypeOK, TodoInv, [Next]_vars PROVE TypeOK'
  OBVIOUS
<1>1. ASSUME NEW p \in Procs, Start(p) PROVE TypeOK'
  <2>1. Commands \subseteq Command
    BY StoreAssumption
  <2> QED BY <1>1, <2>1 DEF Start, goto, TypeOK, States
<1>2. ASSUME NEW p \in Procs, RLock(p) PROVE TypeOK'
  BY <1>2 DEF RLock, goto, TypeOK, States
<1>3. ASSUME NEW p \in Procs, load(p) PROVE TypeOK'
  <2>1. cmd[p].path \in Paths
    BY DEF TypeOK, Command
  <2>2. disk[cmd[p].path] \in Content
    BY <2>1 DEF TypeOK
  <2>3. cfg' \in [Procs -> Content]
    <3>1. PICK a \in BOOLEAN : cfg' = [cfg EXCEPT ![p] = [disk[cmd[p].path] EXCEPT
                                           !.token = Found(a, disk[cmd[p].path])]]
      BY <1>3 DEF load, loadAs
    <3>2. Found(a, disk[cmd[p].path]) \in Tokens \cup {None}
      BY <2>2, FoundType
    <3>3. [disk[cmd[p].path] EXCEPT !.token = Found(a, disk[cmd[p].path])] \in Content
      BY <2>2, <3>2 DEF Content, Register!Content
    <3> QED BY <3>1, <3>3 DEF TypeOK
  <2>4. shared' \in [Paths -> SUBSET Procs] /\ excl' \in [Paths -> Procs \cup {None}]
    BY <1>3, ReleaseType DEF load, loadAs
  <2>5. <<DeviceSave>> \in Seq(Register!Save)
    BY SaveType
  <2>6. pc' \in [Procs -> States] /\ todo' \in [Procs -> Seq(Register!Save)]
    <3>1. \/ pc' = [pc EXCEPT ![p] = "ready"] /\ todo' = todo
          \/ pc' = [pc EXCEPT ![p] = "xlock"] /\ todo' = [todo EXCEPT ![p] = <<DeviceSave>>]
      BY <1>3 DEF load, loadAs, goto
    <3> QED BY <3>1, <2>5 DEF TypeOK, States
  <2>7. UNCHANGED <<disk, ring, provider, late, cmd, buf, out, last, fellBack>>
    BY <1>3 DEF load, loadAs
  <2> QED BY <2>3, <2>4, <2>6, <2>7 DEF TypeOK
<1>4. ASSUME NEW p \in Procs, run(p) PROVE TypeOK'
  <2>1. cmd[p].saves \in Seq(Register!Save)
    BY DEF TypeOK, Command
  <2>2. out' \in [Procs -> Outcome]
    BY <1>4, EndsType DEF run, TypeOK
  <2> QED BY <1>4, <2>1, <2>2 DEF run, ends, goto, TypeOK, States
<1>5. ASSUME NEW p \in Procs, XLock(p) PROVE TypeOK'
  BY <1>5 DEF XLock, goto, TypeOK, States
<1>6. ASSUME NEW p \in Procs, modify(p) PROVE TypeOK'
  <2>1. todo[p] # <<>>
    BY <1>6 DEF modify, TodoInv, Saving
  <2>2. Register!Apply(p, Head(todo[p]), disk[target(p)]) \in Content
    BY <2>1, TodoType, ApplyType DEF TypeOK
  <2> QED BY <1>6, <2>2 DEF modify, goto, TypeOK, States
<1>7. ASSUME NEW p \in Procs, useKeyring(p) PROVE TypeOK'
  <2>1. buf[p] \in Content /\ buf[p].token \in Tokens \cup {None} /\ ringKey(p) \in Hosts
    BY FoundType DEF TypeOK, ringKey, Content, Register!Content
  <2>2. CASE keyringOk(p)
    <3>1. [buf[p] EXCEPT !.token = None] \in Content
      BY <2>1 DEF Content, Register!Content
    <3>2. buf' \in [Procs -> Content]
      BY <2>2, <3>1 DEF keyringOk, TypeOK
    <3>3. out' \in [Procs -> Outcome]
      BY <2>2 DEF keyringOk, TypeOK, Outcome
    <3>4. ring' \in [Hosts -> Tokens \cup {None}]
      BY <2>1, <2>2 DEF keyringOk, TypeOK
    <3> QED BY <1>7, <2>2, <3>2, <3>3, <3>4 DEF useKeyring, keyringOk, goto, TypeOK, States
  <2>3. CASE keyringUnavailable(p)
    <3>1. out' \in [Procs -> Outcome]
      BY <2>3 DEF keyringUnavailable, TypeOK, Outcome
    <3> QED BY <1>7, <2>3, <3>1 DEF useKeyring, keyringUnavailable, goto, TypeOK, States
  <2>4. ASSUME fail(p) PROVE /\ out' \in [Procs -> Outcome] /\ pc' \in [Procs -> States]
                             /\ todo' \in [Procs -> Seq(Register!Save)]
                             /\ shared' \in [Paths -> SUBSET Procs]
                             /\ excl' \in [Paths -> Procs \cup {None}]
    <3>1. <<>> \in Seq(Register!Save)
      OBVIOUS
    <3>2. out' \in [Procs -> Outcome]
      BY <2>4 DEF fail, ends, TypeOK, Outcome
    <3> QED BY <2>4, <3>1, <3>2, ReleaseType DEF fail, ends, goto, TypeOK, States
  <2>5. CASE keyringFails(p)
    BY <1>7, <2>4, <2>5 DEF useKeyring, keyringFails, TypeOK
  <2>6. CASE keyringTimesOut(p)
    BY <1>7, <2>1, <2>4, <2>6 DEF useKeyring, keyringTimesOut, TypeOK
  <2> QED BY <1>7, <2>2, <2>3, <2>5, <2>6 DEF useKeyring
<1>8. ASSUME NEW p \in Procs, truncate(p) PROVE TypeOK'
  BY <1>8, EmptyType DEF truncate, goto, TypeOK, States
<1>9. ASSUME NEW p \in Procs, flush(p) PROVE TypeOK'
  <2>1. todo[p] # <<>>
    BY <1>9 DEF flush, TodoInv, Saving
  <2>2. shared' \in [Paths -> SUBSET Procs] /\ excl' \in [Paths -> Procs \cup {None}]
    BY <1>9, ReleaseType DEF flush
  <2>3. [cfg[p] EXCEPT !.device = buf[p].device] \in Content
    <3>1. cfg[p] \in Content /\ buf[p] \in Content
      BY DEF TypeOK
    <3>2. buf[p].device \in Procs \cup {None}
      BY <3>1 DEF Content, Register!Content
    <3> QED BY <3>1, <3>2 DEF Content, Register!Content
  <2>4. cfg' \in [Procs -> Content]
    BY <1>9, <2>3 DEF flush, TypeOK
  <2>5. pc' \in [Procs -> States]
    BY <1>9 DEF flush, ends, goto, TypeOK, States
  <2>8. out' \in [Procs -> Outcome]
    BY <1>9, EndsType DEF flush, TypeOK
  <2>6. last' \in [Paths -> Tokens \cup {None}]
    <3>1. Head(todo[p]).token \in Tokens \cup {None}
      BY <2>1, TodoType DEF Register!Save
    <3> QED BY <1>9, <3>1 DEF flush, TypeOK
  <2>7. todo' \in [Procs -> Seq(Register!Save)]
    BY <1>9, <2>1, TodoType DEF flush, TypeOK
  <2>9. fellBack' \in [Paths -> BOOLEAN]
    <3>1. (IF Head(todo[p]).op \in TokenOps THEN out[p].storage = "file"
                                            ELSE fellBack[target(p)]) \in BOOLEAN
      BY <2>1, TodoType DEF TypeOK
    <3> QED BY <1>9, <3>1 DEF flush, TypeOK
  <2> QED BY <1>9, <2>2, <2>4, <2>5, <2>6, <2>7, <2>8, <2>9 DEF flush, TypeOK
<1>10. ASSUME NEW p \in Procs, tornWrite(p) \/ Crash(p) \/ Interrupt(p) PROVE TypeOK'
  <2>1. release(p) /\ todo' = [todo EXCEPT ![p] = <<>>]
    BY <1>10 DEF tornWrite, Crash, Interrupt, fail
  <2>2. todo' \in [Procs -> Seq(Register!Save)]
    BY <2>1 DEF TypeOK
  <2>3. pc' \in [Procs -> States]
    BY <1>10 DEF tornWrite, Crash, Interrupt, fail, ends, goto, TypeOK, States
  <2>4. out' \in [Procs -> Outcome]
    BY <1>10, EndsType DEF tornWrite, Crash, Interrupt, fail, TypeOK
  <2> QED BY <1>10, <2>1, <2>2, <2>3, <2>4, ReleaseType DEF tornWrite, Crash, Interrupt, TypeOK
<1>11. CASE ProviderChanges
  BY <1>11 DEF ProviderChanges, TypeOK
<1>12. ASSUME NEW l \in late, LateEffect(l) PROVE TypeOK'
  BY <1>12 DEF LateEffect, TypeOK
<1>13. CASE Finished \/ UNCHANGED vars
  BY <1>13 DEF Finished, vars, TypeOK
<1> QED BY <1>1, <1>2, <1>3, <1>4, <1>5, <1>6, <1>7, <1>8, <1>9, <1>10, <1>11, <1>12, <1>13
        DEF Next, step

LEMMA TailNotEmpty ==
    ASSUME NEW S, NEW s \in Seq(S), Len(s) > 1 PROVE Tail(s) # <<>>
<1> DEFINE n == Len(s)
<1>1. s # <<>> /\ n \in Nat /\ n > 1
  OBVIOUS
<1>2. Len(Tail(s)) = n - 1
  BY <1>1, HeadTailProperties
<1>3. Len(<<>>) = 0
  OBVIOUS
<1> HIDE DEF n
<1>4. n - 1 # 0
  BY <1>1
<1> QED BY <1>2, <1>3, <1>4, Zenon

\* A process leaves the others where they are.
LEMMA OthersStay ==
    ASSUME TypeOK, NEW p \in Procs, Acts(p), NEW q \in Procs, q # p
    PROVE  /\ pc'[q] = pc[q] /\ cmd'[q] = cmd[q] /\ todo'[q] = todo[q]
           /\ buf'[q] = buf[q] /\ cfg'[q] = cfg[q] /\ out'[q] = out[q]
           /\ target(q)' = target(q)
<1>1. CASE Start(p) \/ RLock(p)
  BY <1>1 DEF Start, RLock, goto, TypeOK, target
<1>5. CASE load(p)
  BY <1>5 DEF load, loadAs, goto, TypeOK, target
<1>6. CASE run(p)
  BY <1>6 DEF run, ends, goto, TypeOK, target
<1>2. CASE XLock(p) \/ modify(p) \/ truncate(p) \/ flush(p)
  BY <1>2 DEF XLock, modify, truncate, flush, ends, goto, TypeOK, target
<1>3. CASE useKeyring(p)
  BY <1>3 DEF useKeyring, keyringOk, keyringUnavailable, keyringFails, keyringTimesOut,
              fail, ends, goto, TypeOK, target
<1>4. CASE tornWrite(p) \/ Crash(p) \/ Interrupt(p)
  BY <1>4 DEF tornWrite, Crash, Interrupt, fail, ends, goto, TypeOK, target
<1> QED BY <1>1, <1>2, <1>3, <1>4, <1>5, <1>6 DEF Acts, step

LEMMA StepTodo == TypeOK /\ CmdInv /\ TodoInv /\ [Next]_vars => CmdInv' /\ TodoInv'
<1> SUFFICES ASSUME TypeOK, CmdInv, TodoInv, [Next]_vars PROVE CmdInv' /\ TodoInv'
  OBVIOUS
<1>1. ASSUME NEW p \in Procs, Acts(p) PROVE CmdInv' /\ TodoInv'
  <2>1. pc'[p] # "idle" => cmd'[p] \in Commands
    <3>1. CASE Start(p)
      BY <3>1 DEF Start, TypeOK
    <3>2. CASE ~Start(p)
      <4>1. CASE RLock(p) \/ load(p) \/ run(p) \/ XLock(p) \/ modify(p)
        BY <4>1 DEF CmdInv, RLock, load, loadAs, run, XLock, modify
      <4>2. CASE useKeyring(p) \/ truncate(p) \/ flush(p)
        BY <4>2 DEF CmdInv, useKeyring, truncate, flush
      <4>3. CASE tornWrite(p) \/ Crash(p) \/ Interrupt(p)
        BY <4>3 DEF CmdInv, tornWrite, Crash, Interrupt
      <4> QED BY <1>1, <3>2, <4>1, <4>2, <4>3 DEF Acts, step
    <3> QED BY <3>1, <3>2
  <2>2. pc'[p] \in Saving => todo'[p] # <<>>
    <3>1. CASE Start(p) \/ RLock(p)
      BY <3>1 DEF Start, RLock, goto, TypeOK, Saving
    <3>7. CASE load(p)
      <4>1. <<DeviceSave>> # <<>>
        OBVIOUS
      <4> QED BY <3>7, <4>1 DEF load, loadAs, goto, TypeOK, Saving
    <3>2. CASE run(p)
      <4>1. cmd[p].kind # "load" => cmd[p].saves # <<>>
        BY <3>2, StoreAssumption DEF run, CmdInv
      <4> QED BY <3>2, <4>1 DEF run, ends, goto, TypeOK, Saving
    <3>3. CASE XLock(p) \/ modify(p) \/ truncate(p)
      BY <3>3 DEF XLock, modify, truncate, goto, TypeOK, Saving, TodoInv
    <3>4. CASE useKeyring(p)
      BY <3>4 DEF useKeyring, keyringOk, keyringUnavailable, keyringFails, keyringTimesOut,
         fail, ends, goto, TypeOK, Saving, TodoInv
    <3>5. CASE flush(p)
      <4>1. todo[p] \in Seq(Register!Save)
        BY DEF TypeOK
      <4>2. Len(todo[p]) > 1 => Tail(todo[p]) # <<>>
        BY <4>1, TailNotEmpty
      <4> QED BY <3>5, <4>2 DEF flush, ends, goto, TypeOK, Saving
    <3>6. CASE tornWrite(p) \/ Crash(p) \/ Interrupt(p)
      BY <3>6 DEF tornWrite, Crash, Interrupt, fail, ends, goto, TypeOK, Saving
    <3> QED BY <1>1, <3>1, <3>2, <3>3, <3>4, <3>5, <3>6, <3>7 DEF Acts, step
  <2> QED BY <1>1, <2>1, <2>2, OthersStay DEF CmdInv, TodoInv
<1>2. CASE UNCHANGED <<pc, cmd, todo>>
  BY <1>2 DEF CmdInv, TodoInv
<1> QED BY <1>1, <1>2 DEF Next, Acts, ProviderChanges, LateEffect, Finished, vars

\* What release leaves of the locks.
LEMMA ReleaseLocks ==
    ASSUME TypeOK, LockInv, NEW p \in Procs, release(p)
    PROVE  /\ \A q \in Procs \ {p}, f \in Paths :
                  (excl[f] = q => excl'[f] = q) /\ (q \in shared[f] => q \in shared'[f])
           /\ \A f \in Paths : excl'[f] # None => shared'[f] = {}
<1>1. None \notin Procs
  BY StoreAssumption
<1>2. \A f \in Paths : excl'[f] = IF excl[f] = p THEN None ELSE excl[f]
  BY DEF release
<1>3. \A f \in Paths : shared'[f] = shared[f] \ {p}
  BY DEF release
<1> QED BY <1>1, <1>2, <1>3 DEF LockInv

LEMMA StepLock == TypeOK /\ CmdInv /\ TodoInv /\ LockInv /\ [Next]_vars => LockInv'
<1> SUFFICES ASSUME TypeOK, CmdInv, TodoInv, LockInv, [Next]_vars PROVE LockInv'
  OBVIOUS
<1>n. None \notin Procs
  BY StoreAssumption
<1>p. \A q \in Procs : cmd[q].path \in Paths /\ (pc[q] \in Saving => target(q) \in Paths)
  BY TodoType DEF TodoInv, TypeOK, Command
<1>1. ASSUME NEW p \in Procs, Acts(p) PROVE LockInv'
  <2>1. \A q \in Procs \ {p} :
            /\ pc'[q] = pc[q] /\ cmd'[q] = cmd[q] /\ target(q)' = target(q)
    BY <1>1, OthersStay
  <2>2. CASE Start(p) \/ run(p)
    <3>1. UNCHANGED <<shared, excl>> /\ pc'[p] \notin Writing \cup {"read"}
      BY <2>2 DEF Start, run, ends, goto, TypeOK, Writing
    <3> QED BY <2>1, <3>1 DEF LockInv
  <2>3. CASE RLock(p)
    <3>1. pc'[p] = "read" /\ cmd' = cmd /\ excl' = excl /\ excl[cmd[p].path] = None
      BY <2>3 DEF RLock, goto, TypeOK
    <3>2. shared' = [shared EXCEPT ![cmd[p].path] = @ \cup {p}] /\ shared \in [Paths -> SUBSET Procs]
      BY <2>3 DEF RLock, TypeOK
    <3>3. \A q \in Procs : pc'[q] = "read" => q \in shared'[cmd'[q].path]
      BY <2>1, <3>1, <3>2, <1>p DEF LockInv
    <3>4. \A q \in Procs : pc'[q] \in Writing => excl'[target(q)'] = q
      BY <2>1, <3>1 DEF LockInv, Writing
    <3>5. \A f \in Paths : excl'[f] # None => shared'[f] = {}
      BY <3>1, <3>2, <1>p DEF LockInv
    <3> QED BY <3>3, <3>4, <3>5 DEF LockInv
  <2>4. CASE XLock(p)
    <3>1. /\ pc'[p] = "modify" /\ target(p)' = target(p) /\ shared' = shared
          /\ shared[target(p)] = {} /\ excl[target(p)] = None /\ target(p) \in Paths
      BY <2>4, <1>p DEF XLock, goto, TypeOK, target, Saving
    <3>2. excl' = [excl EXCEPT ![target(p)] = p] /\ excl \in [Paths -> Procs \cup {None}]
      BY <2>4 DEF XLock, TypeOK
    <3>3. \A q \in Procs : pc'[q] = "read" => q \in shared'[cmd'[q].path]
      BY <2>1, <3>1 DEF LockInv
    <3>4. \A q \in Procs : pc'[q] \in Writing => excl'[target(q)'] = q
      <4>1. \A q \in Procs \ {p} : pc[q] \in Writing =>
                target(q) \in Paths /\ excl[target(q)] = q /\ q # None
        BY <1>n, <1>p DEF LockInv, Writing, Saving
      <4> QED BY <2>1, <3>1, <3>2, <4>1
    <3>5. \A f \in Paths : excl'[f] # None => shared'[f] = {}
      BY <3>1, <3>2 DEF LockInv
    <3> QED BY <3>3, <3>4, <3>5 DEF LockInv
  <2>5. CASE UNCHANGED <<shared, excl, cmd, todo>> /\ pc[p] \in Writing /\ pc'[p] \in Writing
    <3>1. target(p)' = target(p)
      BY <2>5 DEF target
    <3> QED BY <2>1, <2>5, <3>1 DEF LockInv, Writing
  <2>6. CASE release(p) /\ pc'[p] \notin Writing \cup {"read"}
    <3>1. /\ \A q \in Procs \ {p}, f \in Paths :
                  (excl[f] = q => excl'[f] = q) /\ (q \in shared[f] => q \in shared'[f])
          /\ \A f \in Paths : excl'[f] # None => shared'[f] = {}
      BY <2>6, ReleaseLocks
    <3>2. ASSUME NEW q \in Procs
          PROVE  /\ pc'[q] \in Writing => excl'[target(q)'] = q
                 /\ pc'[q] = "read" => q \in shared'[cmd'[q].path]
      <4>1. CASE q = p
        BY <2>6, <4>1
      <4>2. CASE q # p
        <5>1. q \in Procs \ {p} /\ cmd[q].path \in Paths
          BY <4>2, <1>p
        <5>2. pc'[q] = pc[q] /\ cmd'[q] = cmd[q] /\ target(q)' = target(q)
          BY <2>1, <5>1
        <5>3. pc[q] \in Writing => excl'[target(q)] = q
          <6>1. pc[q] \in Writing => target(q) \in Paths /\ excl[target(q)] = q
            BY <1>p DEF LockInv, Writing, Saving
          <6> QED BY <3>1, <5>1, <6>1
        <5>4. pc[q] = "read" => q \in shared'[cmd[q].path]
          BY <3>1, <5>1 DEF LockInv
        <5> QED BY <5>2, <5>3, <5>4
      <4> QED BY <4>1, <4>2
    <3> QED BY <3>1, <3>2 DEF LockInv
  <2>7. CASE modify(p) \/ truncate(p)
    BY <2>5, <2>7 DEF modify, truncate, goto, TypeOK, Writing
  <2>8. CASE useKeyring(p)
    <3>1. CASE keyringOk(p) \/ keyringUnavailable(p)
      BY <2>5, <2>8, <3>1 DEF useKeyring, keyringOk, keyringUnavailable, goto, TypeOK, Writing
    <3>2. CASE keyringFails(p) \/ keyringTimesOut(p)
      BY <2>6, <2>8, <3>2 DEF keyringFails, keyringTimesOut, fail, ends, goto, TypeOK, Writing
    <3> QED BY <2>8, <3>1, <3>2 DEF useKeyring
  <2>9. CASE load(p) \/ flush(p)
    BY <2>6, <2>9 DEF load, loadAs, flush, ends, goto, TypeOK, Writing
  <2>10. CASE tornWrite(p) \/ Crash(p) \/ Interrupt(p)
    BY <2>6, <2>10 DEF tornWrite, Crash, Interrupt, fail, ends, goto, TypeOK, Writing
  <2> QED BY <1>1, <2>2, <2>3, <2>4, <2>7, <2>8, <2>9, <2>10 DEF Acts, step
<1>2. CASE UNCHANGED <<pc, cmd, todo, shared, excl>>
  BY <1>2 DEF LockInv, target
<1> QED BY <1>1, <1>2 DEF Next, Acts, ProviderChanges, LateEffect, Finished, vars

\* A process changes a file only while it holds the file's lock.
LEMMA DiskStays ==
    ASSUME Inv, NEW p \in Procs, Acts(p), NEW q \in Procs \ {p}, pc[q] \in Writing
    PROVE  disk'[target(q)] = disk[target(q)]
<1>1. CASE truncate(p) \/ flush(p)
  <2>1. excl[target(p)] = p /\ excl[target(q)] = q
    BY <1>1 DEF Inv, LockInv, Writing, truncate, flush
  <2>2. target(p) # target(q)
    BY <2>1
  <2>3. target(q) \in Paths /\ disk \in [Paths -> Content]
    BY TodoType DEF Inv, TodoInv, TypeOK, Writing, Saving
  <2>4. disk' = [disk EXCEPT ![target(p)] = Empty] \/ disk' = [disk EXCEPT ![target(p)] = buf[p]]
    BY <1>1 DEF truncate, flush
  <2> QED BY <2>2, <2>3, <2>4
<1>2. CASE ~(truncate(p) \/ flush(p))
  <2>1. disk' = disk
    <3>1. CASE Start(p) \/ RLock(p) \/ load(p) \/ run(p) \/ XLock(p) \/ modify(p) \/ useKeyring(p)
      BY <3>1 DEF Start, RLock, load, loadAs, run, XLock, modify, useKeyring
    <3>2. CASE tornWrite(p) \/ Crash(p) \/ Interrupt(p)
      BY <3>2 DEF tornWrite, Crash, Interrupt
    <3> QED BY <1>2, <3>1, <3>2 DEF Acts, step
  <2> QED BY <2>1
<1> QED BY <1>1, <1>2

LEMMA StepBuf == Inv /\ [Next]_vars => BufInv'
<1> SUFFICES ASSUME Inv, [Next]_vars PROVE BufInv'
  OBVIOUS
<1> DEFINE B(q) ==
        /\ pc[q] = "keyring" =>
              /\ Head(todo[q]).op \in TokenOps
              /\ buf[q] = Register!Apply(q, Head(todo[q]), disk[target(q)])
        /\ pc[q] = "truncate" => buf[q] \in Register!Saved(q, Head(todo[q]), disk[target(q)])
        /\ pc[q] = "flush" => disk[target(q)] = Empty
<1>0. \A q \in Procs : B(q)
  BY DEF Inv, BufInv
<1>1. ASSUME NEW p \in Procs, Acts(p) PROVE BufInv'
  <2>1. ASSUME NEW q \in Procs, q # p PROVE B(q)'
    <3>1. /\ pc'[q] = pc[q] /\ todo'[q] = todo[q] /\ buf'[q] = buf[q] /\ target(q)' = target(q)
      BY <1>1, <2>1, OthersStay DEF Inv
    <3>2. pc[q] \in Writing => disk'[target(q)] = disk[target(q)]
      BY <1>1, <2>1, DiskStays
    <3> QED BY <1>0, <3>1, <3>2 DEF Writing
  <2>2. B(p)'
    <3>1. CASE Start(p) \/ RLock(p) \/ load(p) \/ run(p) \/ XLock(p)
      BY <3>1 DEF Inv, TypeOK, Start, RLock, load, loadAs, run, XLock, goto, ends
    <3>2. CASE modify(p)
      <4>1. /\ target(p)' = target(p) /\ todo' = todo /\ disk' = disk
            /\ pc' = [pc EXCEPT ![p] = IF isSecure(p) THEN "keyring" ELSE "truncate"]
            /\ buf' = [buf EXCEPT ![p] = Register!Apply(p, Head(todo[p]), disk[target(p)])]
        BY <3>2 DEF modify, goto, target
      <4>2. buf'[p] = Register!Apply(p, Head(todo[p]), disk[target(p)])
        BY <4>1 DEF Inv, TypeOK
      <4>3. \/ pc'[p] = "keyring" /\ Head(todo[p]).op \in TokenOps
            \/ pc'[p] = "truncate"
        BY <4>1 DEF Inv, TypeOK, isSecure
      <4>4. buf'[p] \in Register!Saved(p, Head(todo[p]), disk[target(p)])
        BY <4>2 DEF Register!Saved
      <4> QED BY <4>1, <4>2, <4>3, <4>4
    <3>3. CASE useKeyring(p)
      <4>1. /\ pc[p] = "keyring" /\ disk' = disk
            /\ Head(todo[p]).op \in TokenOps
            /\ buf[p] = Register!Apply(p, Head(todo[p]), disk[target(p)])
        BY <1>0, <3>3 DEF useKeyring
      <4>2. CASE keyringOk(p) \/ keyringUnavailable(p)
        <5>1. pc'[p] = "truncate" /\ todo' = todo /\ target(p)' = target(p)
          BY <3>3, <4>2 DEF useKeyring, keyringOk, keyringUnavailable, goto, Inv, TypeOK, target
        <5>2. buf'[p] = buf[p] \/ buf'[p] = [buf[p] EXCEPT !.token = None]
          BY <4>2 DEF keyringOk, keyringUnavailable, Inv, TypeOK
        <5>3. buf'[p] \in Register!Saved(p, Head(todo[p]), disk[target(p)])
          BY <4>1, <5>2 DEF Register!Saved, TokenOps
        <5> QED BY <4>1, <5>1, <5>3
      <4>3. CASE keyringFails(p) \/ keyringTimesOut(p)
        BY <4>3 DEF keyringFails, keyringTimesOut, fail, ends, goto, Inv, TypeOK
      <4> QED BY <3>3, <4>2, <4>3 DEF useKeyring
    <3>4. CASE truncate(p)
      <4>1. pc'[p] = "flush" /\ target(p)' = target(p) /\ disk' = [disk EXCEPT ![target(p)] = Empty]
        BY <3>4 DEF truncate, goto, target, Inv, TypeOK
      <4>2. target(p) \in Paths
        BY <3>4, TodoType DEF truncate, Inv, TodoInv, Saving
      <4> QED BY <4>1, <4>2 DEF Inv, TypeOK
    <3>5. CASE flush(p)
      BY <3>5 DEF flush, ends, goto, Inv, TypeOK
    <3>6. CASE tornWrite(p) \/ Crash(p) \/ Interrupt(p)
      BY <3>6 DEF tornWrite, Crash, Interrupt, fail, ends, goto, Inv, TypeOK
    <3> QED BY <1>1, <3>1, <3>2, <3>3, <3>4, <3>5, <3>6 DEF Acts, step
  <2> QED BY <2>1, <2>2 DEF BufInv
<1>2. CASE UNCHANGED <<pc, cmd, todo, disk, buf>>
  BY <1>2 DEF Inv, BufInv, target
<1> QED BY <1>1, <1>2 DEF Next, Acts, ProviderChanges, LateEffect, Finished, vars

LEMMA InitInv == Init => Inv
<1> SUFFICES ASSUME Init PROVE Inv
  OBVIOUS
<1>1. Empty \in Content /\ \A p \in Procs : pc[p] = "idle"
  BY EmptyType DEF Init
<1>2. last \in [Paths -> Tokens \cup {None}]
  <2>1. ASSUME NEW f \in Paths PROVE Found(TRUE, disk[f]) \in Tokens \cup {None}
    <3>1. disk[f] \in Content /\ ring \in [Hosts -> Tokens \cup {None}]
      BY StoreAssumption DEF Init
    <3>2. EffectiveHost(disk[f]) \in Hosts /\ disk[f].token \in Tokens \cup {None}
      BY <3>1, StoreAssumption DEF EffectiveHost, Content, Register!Content
    <3> QED BY <3>1, <3>2 DEF Found
  <2> QED BY <2>1 DEF Init
<1>3. Idle \in Command
  <2>1. <<>> \in Seq(Register!Save)
    OBVIOUS
  <2> QED BY <2>1, StoreAssumption DEF Idle, Command
<1>4. NoOutcome \in Outcome
  BY DEF NoOutcome, Outcome
<1>5. \A p \in Procs : <<>> \in Seq(Register!Save)
  OBVIOUS
<1>6. TypeOK
  BY <1>1, <1>2, <1>3, <1>4, <1>5, StoreAssumption DEF Init, TypeOK, States
<1>7. CmdInv /\ TodoInv /\ LockInv /\ BufInv
  BY <1>1 DEF Init, CmdInv, TodoInv, LockInv, BufInv, Saving, Writing
<1> QED BY <1>6, <1>7 DEF Inv

\* The inductive invariant: types, the command's progress, the locks, the buffers.
THEOREM Invariance == Spec => []Inv
<1>1. Inv /\ [Next]_vars => Inv'
  BY StepType, StepTodo, StepLock, StepBuf DEF Inv
<1> QED BY InitInv, <1>1, PTL DEF Spec

\* Type correctness: whatever fails, in-memory settings, files and keyring keep
\* their shape, and no save is looked for that is not there.
THEOREM TypeCorrect == Spec => []TypeOK
<1>1. Inv => TypeOK
  BY DEF Inv
<1> QED BY Invariance, <1>1, PTL

\* The advisory locks do isolate a save: no load and no other save of the same
\* file runs between its read and the end of its write.
THEOREM Isolation == Spec => []WritersAlone
<1>1. Inv => WritersAlone
  <2> SUFFICES ASSUME Inv, NEW p \in Procs, NEW q \in Procs, p # q, pc[q] \in Writing
               PROVE  /\ ~(pc[p] = "read" /\ cmd[p].path = target(q))
                      /\ ~(pc[p] \in Writing /\ target(p) = target(q))
    BY DEF WritersAlone, Writing
  <2>1. excl[target(q)] = q /\ q # None /\ target(q) \in Paths
    BY TodoType, StoreAssumption DEF Inv, LockInv, TodoInv, Writing, Saving
  <2>2. shared[target(q)] = {}
    BY <2>1 DEF Inv, LockInv
  <2> QED BY <2>1, <2>2 DEF Inv, LockInv
<1> QED BY Invariance, <1>1, PTL

-----------------------------------------------------------------------------
(* Refinement.                                                             *)

\* A file being written shows what its one writer is writing; any other file
\* shows what it holds.
FlushShown == \A p \in Procs :
    pc[p] = "flush" => target(p) \in Paths /\ settled[target(p)] = buf[p]
DiskShown  == \A f \in Paths :
    (\A p \in Procs : ~(pc[p] = "flush" /\ target(p) = f)) => settled[f] = disk[f]

LEMMA SettledFlush == Inv => FlushShown
<1> SUFFICES ASSUME Inv, NEW p \in Procs, pc[p] = "flush"
             PROVE  target(p) \in Paths /\ settled[target(p)] = buf[p]
  BY DEF FlushShown
<1>1. target(p) \in Paths
  BY TodoType DEF Inv, TodoInv, Saving
<1> DEFINE W(q) == pc[q] = "flush" /\ target(q) = target(p)
           w == CHOOSE q \in Procs : W(q)
<1>2. \A q \in Procs : W(q) => q = p
  BY DEF Inv, LockInv, Writing
<1>3. w \in Procs /\ W(w)
  <2>1. \E q \in Procs : W(q)
    OBVIOUS
  <2> HIDE DEF W
  <2> QED BY <2>1
<1>4. w = p
  BY <1>2, <1>3
<1> QED BY <1>1, <1>4 DEF settled

LEMMA SettledDisk == DiskShown
BY DEF settled, DiskShown

LEMMA SettledType == settled = [f \in Paths |-> settled[f]]
BY DEF settled

\* A step of p shows in no file but the one p is writing.
LEMMA FileStays ==
    ASSUME Inv, Inv', NEW p \in Procs, Acts(p), NEW f \in Paths, disk'[f] = disk[f],
           ~(pc[p] = "flush" /\ target(p) = f), ~(pc'[p] = "flush" /\ target(p)' = f)
    PROVE  settled'[f] = settled[f]
<1>1. FlushShown'
  BY SettledFlush, PTL
<1>2. DiskShown'
  BY SettledDisk, PTL
<1>3. \A q \in Procs \ {p} : pc'[q] = pc[q] /\ buf'[q] = buf[q] /\ target(q)' = target(q)
  BY OthersStay DEF Inv
<1>4. CASE \E q \in Procs : pc[q] = "flush" /\ target(q) = f
  <2>1. PICK q \in Procs : pc[q] = "flush" /\ target(q) = f
    BY <1>4
  <2>2. q \in Procs \ {p}
    BY <2>1
  <2>3. pc'[q] = "flush" /\ target(q)' = f /\ buf'[q] = buf[q]
    BY <1>3, <2>1, <2>2
  <2>4. settled[f] = buf[q]
    BY <2>1, SettledFlush DEF FlushShown
  <2>5. settled'[f] = buf'[q]
    BY <1>1, <2>3 DEF FlushShown
  <2> QED BY <2>3, <2>4, <2>5
<1>5. CASE \A q \in Procs : ~(pc[q] = "flush" /\ target(q) = f)
  <2>1. \A q \in Procs : ~(pc'[q] = "flush" /\ target(q)' = f)
    BY <1>3, <1>5
  <2> QED BY <1>2, <1>5, <2>1, SettledDisk DEF DiskShown
<1> QED BY <1>4, <1>5

LEMMA StepRefines == Inv /\ Inv' /\ [Next]_vars => [Register!Next]_settled
<1> SUFFICES ASSUME Inv, Inv', [Next]_vars PROVE [Register!Next]_settled
  OBVIOUS
<1>f. FlushShown'
  BY SettledFlush, PTL
<1>d. DiskShown'
  BY SettledDisk, PTL
<1>s. settled = [f \in Paths |-> settled[f]] /\ settled' = [f \in Paths |-> settled'[f]]
  BY DEF settled
<1>x. \A p, q \in Procs : pc[p] \in Writing /\ pc[q] \in Writing /\ target(p) = target(q) => p = q
  BY DEF Inv, LockInv
<1>1. ASSUME NEW p \in Procs, Acts(p) PROVE [Register!Next]_settled
  <2>o. \A q \in Procs \ {p} : pc'[q] = pc[q] /\ buf'[q] = buf[q] /\ target(q)' = target(q)
    BY <1>1, OthersStay DEF Inv
  <2>w. pc[p] \in Saving => target(p) \in Paths /\ Head(todo[p]) \in Register!Save
    BY TodoType DEF Inv, TodoInv
  <2>1. CASE pc[p] # "flush" /\ pc'[p] # "flush" /\ disk' = disk
    <3>1. \A f \in Paths : settled'[f] = settled[f]
      BY <1>1, <2>1, FileStays
    <3> QED BY <3>1, <1>s
  <2>2. CASE truncate(p)
    <3>1. /\ pc[p] = "truncate" /\ pc'[p] = "flush" /\ target(p)' = target(p) /\ buf' = buf
          /\ target(p) \in Paths /\ disk' = [disk EXCEPT ![target(p)] = Empty]
      BY <2>2, <2>w DEF truncate, goto, target, Inv, TypeOK, Saving
    <3>2. \A f \in Paths \ {target(p)} : settled'[f] = settled[f]
      <4>1. \A f \in Paths \ {target(p)} : disk'[f] = disk[f]
        BY <3>1 DEF Inv, TypeOK
      <4> QED BY <1>1, <3>1, <4>1, FileStays
    <3>3. settled'[target(p)] = buf[p]
      BY <1>f, <3>1 DEF FlushShown
    <3>4. settled[target(p)] = disk[target(p)]
      BY <1>x, <3>1, SettledDisk DEF Writing, DiskShown
    <3>5. settled' = [settled EXCEPT ![target(p)] = buf[p]]
      BY <1>s, <3>1, <3>2, <3>3
    <3>6. buf[p] \in Register!Saved(p, Head(todo[p]), settled[target(p)])
      BY <3>1, <3>4 DEF Inv, BufInv
    <3>7. Register!Update(target(p), p, Head(todo[p]))
      BY <3>5, <3>6 DEF Register!Update
    <3> QED BY <2>w, <3>1, <3>7 DEF Register!Next, Saving
  <2>3. CASE flush(p)
    <3>1. /\ pc[p] = "flush" /\ pc'[p] # "flush" /\ target(p) \in Paths
          /\ disk' = [disk EXCEPT ![target(p)] = buf[p]]
      BY <2>3, <2>w DEF flush, ends, goto, Inv, TypeOK, Saving
    <3>2. \A f \in Paths \ {target(p)} : settled'[f] = settled[f]
      <4>1. \A f \in Paths \ {target(p)} : disk'[f] = disk[f]
        BY <3>1 DEF Inv, TypeOK
      <4> QED BY <1>1, <3>1, <4>1, FileStays
    <3>3. settled[target(p)] = buf[p]
      BY <3>1, SettledFlush DEF FlushShown
    <3>4. settled'[target(p)] = buf[p]
      <4>1. \A q \in Procs : ~(pc'[q] = "flush" /\ target(q)' = target(p))
        BY <1>x, <2>o, <3>1 DEF Writing
      <4>2. disk'[target(p)] = buf[p]
        BY <3>1 DEF Inv, TypeOK
      <4> QED BY <1>d, <3>1, <4>1, <4>2 DEF DiskShown
    <3> QED BY <1>s, <3>2, <3>3, <3>4
  <2>4. CASE tornWrite(p)
    <3>1. /\ pc[p] = "flush" /\ pc'[p] # "flush" /\ target(p) \in Paths /\ disk' = disk /\ CanTear
      BY <2>4, <2>w DEF tornWrite, ends, goto, Inv, TypeOK, Saving
    <3>2. \A f \in Paths \ {target(p)} : settled'[f] = settled[f]
      BY <1>1, <3>1, FileStays
    <3>3. settled'[target(p)] = Empty
      <4>1. \A q \in Procs : ~(pc'[q] = "flush" /\ target(q)' = target(p))
        BY <1>x, <2>o, <3>1 DEF Writing
      <4>2. disk[target(p)] = Empty
        BY <3>1 DEF Inv, BufInv
      <4> QED BY <1>d, <3>1, <4>1, <4>2 DEF DiskShown
    <3>4. settled' = [settled EXCEPT ![target(p)] = Empty]
      BY <1>s, <3>1, <3>2, <3>3
    <3>5. Register!Wipe(target(p))
      BY <3>1, <3>4 DEF Register!Wipe, Empty
    <3> QED BY <3>1, <3>5 DEF Register!Next
  <2>5. CASE ~(truncate(p) \/ flush(p) \/ tornWrite(p))
    <3>1. CASE Start(p) \/ RLock(p) \/ load(p) \/ run(p)
      BY <2>1, <3>1 DEF Start, RLock, load, loadAs, run, goto, ends, Inv, TypeOK
    <3>2. CASE XLock(p) \/ modify(p) \/ useKeyring(p)
      BY <2>1, <3>2 DEF XLock, modify, useKeyring, keyringOk, keyringUnavailable, keyringFails,
         keyringTimesOut, fail, goto, ends, Inv, TypeOK
    <3>3. CASE Crash(p) \/ Interrupt(p)
      BY <2>1, <3>3 DEF Crash, Interrupt, fail, goto, ends, Inv, TypeOK
    <3> QED BY <1>1, <2>5, <3>1, <3>2, <3>3 DEF Acts, step
  <2> QED BY <2>2, <2>3, <2>4, <2>5
<1>2. CASE UNCHANGED <<pc, cmd, todo, disk, buf>>
  BY <1>2 DEF settled, target
<1> QED BY <1>1, <1>2 DEF Next, Acts, ProviderChanges, LateEffect, Finished, vars

\* The files are atomic registers: every step of the store is one save of one
\* file, the loss of one file, or nothing the files show.
THEOREM Refines == Spec => ImplementsRegister
<1>1. Init => Register!Init
  <2> SUFFICES ASSUME Init PROVE settled \in [Paths -> Content]
    BY DEF Register!Init, Content
  <2>1. disk \in [Paths -> Content]
    BY StoreAssumption DEF Init
  <2>2. \A f \in Paths : settled[f] = disk[f]
    BY SettledDisk DEF Init, DiskShown
  <2> QED BY <2>1, <2>2, SettledType
<1> QED BY <1>1, Invariance, StepRefines, PTL DEF Spec, ImplementsRegister, Register!Spec

-----------------------------------------------------------------------------
(* Device IDs.                                                             *)

\* A process that has a device ID has the one its file shows, and one that has
\* not loaded its settings has none.
DeviceInv ==
    \A p \in Procs :
        /\ cfg[p].device # None => cfg[p].device = settled[cmd[p].path].device
        /\ pc[p] \in {"idle", "rlock", "read"} => cfg[p].device = None

\* No save changes a device ID that is there.
LEMMA DeviceKept ==
    ASSUME Inv, ~CanTear, [Register!Next]_settled, NEW f \in Paths, settled[f].device # None
    PROVE  settled'[f].device = settled[f].device
<1>1. settled[f] \in Content
  <2>1. CASE \E p \in Procs : pc[p] = "flush" /\ target(p) = f
    BY <2>1, SettledFlush DEF FlushShown, Inv, TypeOK
  <2>2. CASE \A p \in Procs : ~(pc[p] = "flush" /\ target(p) = f)
    BY <2>2, SettledDisk DEF DiskShown, Inv, TypeOK
  <2> QED BY <2>1, <2>2
<1>2. ASSUME NEW p \in Procs, NEW s \in Register!Save, NEW c \in Register!Saved(p, s, settled[f])
      PROVE  c.device = settled[f].device
  <2>1. Register!Apply(p, s, settled[f]).device = settled[f].device
    <3>1. CASE s.op = "device"
      BY <1>1, <3>1 DEF Register!Apply, Register!DeviceFor, Content, Register!Content
    <3>2. CASE s.op \in {"login", "logout", "token", "host", "pref", "unpref"}
      BY <1>1, <3>2 DEF Register!Apply, Content, Register!Content
    <3> QED BY <3>1, <3>2 DEF Register!Save
  <2>2. Register!Apply(p, s, settled[f]) \in Content
    BY <1>1, ApplyType
  <2>3. [Register!Apply(p, s, settled[f]) EXCEPT !.token = None].device = settled[f].device
    BY <2>1, <2>2 DEF Content, Register!Content
  <2> QED BY <1>2, <2>1, <2>3 DEF Register!Saved
<1>3. CASE UNCHANGED settled
  BY <1>3
<1>4. ASSUME NEW g \in Paths, NEW p \in Procs, NEW s \in Register!Save, Register!Update(g, p, s)
      PROVE  settled'[f].device = settled[f].device
  <2>1. PICK c \in Register!Saved(p, s, settled[g]) : settled' = [settled EXCEPT ![g] = c]
    BY <1>4 DEF Register!Update
  <2>2. settled'[f] = IF f = g THEN c ELSE settled[f]
    BY <2>1, SettledType
  <2> QED BY <1>2, <2>1, <2>2
<1> QED BY <1>3, <1>4 DEF Register!Next, Register!Wipe

LEMMA StepDevice ==
    ~CanTear /\ Inv /\ Inv' /\ DeviceInv /\ [Next]_vars => DeviceInv'
<1> SUFFICES ASSUME ~CanTear, Inv, Inv', DeviceInv, [Next]_vars PROVE DeviceInv'
  OBVIOUS
<1>k. \A f \in Paths : settled[f].device # None => settled'[f].device = settled[f].device
  BY StepRefines, DeviceKept
<1>c. \A q \in Procs : cmd[q].path \in Paths /\ cfg[q] \in Content
  BY DEF Inv, TypeOK, Command
<1> DEFINE D(q) == /\ cfg[q].device # None => cfg[q].device = settled[cmd[q].path].device
                   /\ pc[q] \in {"idle", "rlock", "read"} => cfg[q].device = None
<1>d. \A q \in Procs : D(q)
  BY DEF DeviceInv
<1>1. ASSUME NEW q \in Procs, cfg'[q] = cfg[q], cmd'[q] = cmd[q],
             pc'[q] \in {"idle", "rlock", "read"} => pc[q] \in {"idle", "rlock", "read"}
      PROVE  D(q)'
  BY <1>1, <1>c, <1>d, <1>k
<1>2. ASSUME NEW p \in Procs, Acts(p) PROVE D(p)'
  <2>1. CASE Start(p)
    <3>1. cfg' = cfg /\ cfg[p].device = None
      BY <2>1, <1>d DEF Start
    <3> QED BY <3>1
  <2>2. CASE load(p)
    <3>1. /\ pc[p] = "read" /\ cmd' = cmd /\ disk' = disk /\ pc'[p] \in {"ready", "xlock"}
          /\ disk[cmd[p].path] \in Content
      BY <2>2, <1>c DEF load, loadAs, goto, Inv, TypeOK
    <3>2. cfg'[p].device = disk[cmd[p].path].device
      <4>1. PICK a \in BOOLEAN : cfg' = [cfg EXCEPT ![p] = [disk[cmd[p].path] EXCEPT
                                           !.token = Found(a, disk[cmd[p].path])]]
        BY <2>2 DEF load, loadAs
      <4>2. cfg'[p] = [disk[cmd[p].path] EXCEPT !.token = Found(a, disk[cmd[p].path])]
        BY <4>1 DEF Inv, TypeOK
      <4> QED BY <3>1, <4>2 DEF Content, Register!Content
    <3>3. settled[cmd[p].path] = disk[cmd[p].path]
      <4>1. \A q \in Procs : ~(pc[q] = "flush" /\ target(q) = cmd[p].path)
        <5>1. shared[cmd[p].path] # {}
          BY <3>1 DEF Inv, LockInv
        <5>2. excl[cmd[p].path] \notin Procs
          BY <1>c, <5>1, StoreAssumption DEF Inv, LockInv
        <5> QED BY <5>2 DEF Inv, LockInv, Writing
      <4> QED BY <1>c, <4>1, SettledDisk DEF DiskShown
    <3> QED BY <1>c, <1>k, <3>1, <3>2, <3>3
  <2>3. CASE flush(p) /\ Head(todo[p]).op = "device"
    <3>1. /\ pc[p] = "flush" /\ cmd' = cmd /\ pc'[p] = "ready" /\ target(p) = cmd[p].path
          /\ cfg' = [cfg EXCEPT ![p].device = buf[p].device]
      BY <2>3 DEF flush, goto, target, Inv, TypeOK
    <3>2. cfg'[p].device = buf[p].device
      BY <1>c, <3>1 DEF Inv, TypeOK, Content, Register!Content
    <3>3. settled[cmd[p].path] = buf[p]
      BY <3>1, SettledFlush DEF FlushShown
    <3> QED BY <1>c, <1>k, <3>1, <3>2, <3>3
  <2>4. CASE RLock(p) \/ run(p) \/ XLock(p) \/ modify(p)
    BY <1>1, <2>4 DEF RLock, run, XLock, modify, goto, ends, Inv, TypeOK
  <2>5. CASE useKeyring(p) \/ truncate(p)
    BY <1>1, <2>5 DEF useKeyring, keyringOk, keyringUnavailable, keyringFails, keyringTimesOut,
       fail, truncate, goto, ends, Inv, TypeOK
  <2>6. CASE flush(p) /\ Head(todo[p]).op # "device"
    BY <1>1, <2>6 DEF flush, goto, ends, Inv, TypeOK
  <2>7. CASE tornWrite(p) \/ Crash(p) \/ Interrupt(p)
    BY <1>1, <2>7 DEF tornWrite, Crash, Interrupt, fail, goto, ends, Inv, TypeOK
  <2> QED BY <1>2, <2>1, <2>2, <2>3, <2>4, <2>5, <2>6, <2>7 DEF Acts, step
<1>3. ASSUME NEW p \in Procs, Acts(p) PROVE DeviceInv'
  <2>1. \A q \in Procs \ {p} : D(q)'
    BY <1>1, <1>3, OthersStay DEF Inv
  <2> QED BY <1>2, <1>3, <2>1 DEF DeviceInv
<1>4. CASE UNCHANGED <<pc, cmd, cfg>>
  BY <1>1, <1>4 DEF DeviceInv
<1> QED BY <1>3, <1>4 DEF Next, Acts, ProviderChanges, LateEffect, Finished, vars

\* As long as no write is cut short, all processes that work on a file know it
\* by the same device ID, for good.
THEOREM DeviceAgreement == ~CanTear => (Spec => []DeviceIDAgreement)
<1> SUFFICES ASSUME ~CanTear PROVE Spec => []DeviceIDAgreement
  OBVIOUS
<1>1. Init => DeviceInv
  BY DEF Init, DeviceInv, Empty, Register!Empty
<1>2. Inv /\ Inv' /\ DeviceInv /\ [Next]_vars => DeviceInv'
  BY StepDevice
<1>3. DeviceInv => DeviceIDAgreement
  BY DEF DeviceInv, DeviceIDAgreement
<1> QED BY <1>1, <1>2, <1>3, Invariance, PTL DEF Spec

-----------------------------------------------------------------------------
(* The keyring.                                                            *)

\* Where the saves a process has in hand come from: from what it had, from the
\* command it was given, or from Load.
LEMMA TodoMoves ==
    ASSUME Inv, [Next]_vars, NEW p \in Procs
    PROVE  \/ todo'[p] \in {todo[p], <<DeviceSave>>, <<>>}
           \/ cmd[p] \in Commands /\ cmd'[p] = cmd[p] /\ todo'[p] = cmd[p].saves
           \/ todo[p] # <<>> /\ todo'[p] = Tail(todo[p])
<1> DEFINE Goal == \/ todo'[p] \in {todo[p], <<DeviceSave>>, <<>>}
                   \/ cmd[p] \in Commands /\ cmd'[p] = cmd[p] /\ todo'[p] = cmd[p].saves
                   \/ todo[p] # <<>> /\ todo'[p] = Tail(todo[p])
<1>t. todo \in [Procs -> Seq(Register!Save)]
  BY DEF Inv, TypeOK
<1>1. ASSUME NEW q \in Procs, Acts(q), q # p PROVE Goal
  BY <1>1, OthersStay DEF Inv
<1>2. ASSUME Acts(p) PROVE Goal
  <2>1. CASE Start(p) \/ RLock(p) \/ XLock(p) \/ modify(p) \/ truncate(p)
    BY <2>1 DEF Start, RLock, XLock, modify, truncate
  <2>2. CASE load(p)
    BY <2>2, <1>t DEF load, loadAs
  <2>3. CASE run(p)
    <3>1. cmd[p] \in Commands
      BY <2>3 DEF run, Inv, CmdInv
    <3> QED BY <2>3, <3>1, <1>t DEF run
  <2>4. CASE useKeyring(p)
    BY <2>4, <1>t DEF useKeyring, keyringOk, keyringUnavailable, keyringFails, keyringTimesOut, fail
  <2>5. CASE flush(p)
    <3>1. todo[p] # <<>>
      BY <2>5 DEF flush, Inv, TodoInv, Saving
    <3> QED BY <2>5, <3>1, <1>t DEF flush
  <2>6. CASE tornWrite(p) \/ Crash(p) \/ Interrupt(p)
    BY <2>6, <1>t DEF tornWrite, Crash, Interrupt, fail
  <2> QED BY <1>2, <2>1, <2>2, <2>3, <2>4, <2>5, <2>6 DEF Acts, step
<1>3. CASE UNCHANGED todo
  BY <1>3
<1> QED BY <1>1, <1>2, <1>3 DEF Next, Acts, ProviderChanges, LateEffect, Finished, vars

LEMMA TailElements ==
    ASSUME NEW S, NEW s \in Seq(S), s # <<>>, NEW i \in DOMAIN Tail(s)
    PROVE  i + 1 \in DOMAIN s /\ Tail(s)[i] = s[i + 1] /\ Len(Tail(s)) = Len(s) - 1
BY HeadTailProperties

\* The same for one save: a pending one was pending, is of a command, or is Load's.
LEMMA SavesMove ==
    ASSUME Inv, [Next]_vars, NEW p \in Procs, NEW i \in DOMAIN todo'[p]
    PROVE  \/ todo'[p][i] = DeviceSave
           \/ /\ cmd[p] \in Commands /\ cmd'[p] = cmd[p]
              /\ i \in DOMAIN cmd[p].saves /\ todo'[p][i] = cmd[p].saves[i]
              /\ Len(todo'[p]) = Len(cmd[p].saves)
           \/ \E j \in DOMAIN todo[p] :
                 todo'[p][i] = todo[p][j] /\ (j = Len(todo[p]) => i = Len(todo'[p]))
<1> DEFINE s == todo[p]
           t == todo'[p]
<1>t. s \in Seq(Register!Save)
  BY DEF Inv, TypeOK
<1>1. CASE t \in {s, <<DeviceSave>>, <<>>}
  BY <1>1
<1>2. CASE cmd[p] \in Commands /\ cmd'[p] = cmd[p] /\ t = cmd[p].saves
  BY <1>2
<1>3. CASE s # <<>> /\ t = Tail(s)
  <2>1. i + 1 \in DOMAIN s /\ t[i] = s[i + 1] /\ Len(t) = Len(s) - 1
    BY <1>t, <1>3, TailElements
  <2>2. i \in Nat /\ Len(s) \in Nat
    BY <1>t, <1>3
  <2>3. i + 1 = Len(s) => i = Len(t)
    BY <2>1, <2>2
  <2> QED BY <2>1, <2>3
<1> QED BY <1>1, <1>2, <1>3, TodoMoves

\* A save that carries a token carries the host that issued it.
Filed(s) == s.token # None => s.host = HostOf[s.token]

\* So do the saves in hand; and what an abandoned operation may still file, like
\* what the keyring holds, is filed right.
FiledInv ==
    /\ \A p \in Procs : \A i \in DOMAIN todo[p] : Filed(todo[p][i])
    /\ \A l \in late : l.token # None => HostOf[l.token] = l.host
    /\ KeyringFiledUnderHost

\* What a process is about to ask of the keyring.
LEMMA KeyMatches ==
    ASSUME Inv, FiledInv, NEW p \in Procs, pc[p] = "keyring", buf[p].token # None
    PROVE  HostOf[buf[p].token] = ringKey(p)
<1> DEFINE s == Head(todo[p])
           c == disk[target(p)]
<1>1. todo[p] # <<>> /\ s.op \in TokenOps /\ buf[p] = Register!Apply(p, s, c)
  BY DEF Inv, TodoInv, BufInv, Saving
<1>2. s \in Register!Save /\ c \in Content
  BY <1>1, TodoType DEF Inv, TypeOK
<1>3. Filed(s)
  <2>1. todo[p] \in Seq(Register!Save)
    BY DEF Inv, TypeOK
  <2>2. 1 \in DOMAIN todo[p] /\ s = todo[p][1]
    BY <1>1, <2>1
  <2> QED BY <2>2 DEF FiledInv
<1> HIDE DEF s, c
<1>4. CASE s.op = "login"
  <2>1. buf[p].host = s.host /\ buf[p].token = s.token /\ s.host \in Hosts
    BY <1>1, <1>2, <1>4 DEF Register!Apply, Register!Save, Content, Register!Content
  <2>2. s.host # None
    BY <2>1, StoreAssumption
  <2> QED BY <1>3, <2>1, <2>2 DEF Filed, ringKey, EffectiveHost
<1>5. CASE s.op = "logout"
  BY <1>1, <1>2, <1>5 DEF Register!Apply, Content, Register!Content
<1>6. CASE s.op = "token"
  <2>1. buf[p].token = s.token /\ s.host = None /\ s.token \in Tokens \cup {None}
    BY <1>1, <1>2, <1>6 DEF Register!Apply, Register!Save, Content, Register!Content
  <2>2. HostOf[s.token] \in Hosts
    BY <2>1, StoreAssumption
  <2>3. HostOf[s.token] # None
    BY <2>2, StoreAssumption
  <2> QED BY <1>3, <2>1, <2>3 DEF Filed
<1> QED BY <1>1, <1>4, <1>5, <1>6 DEF TokenOps, Register!TokenOps

LEMMA StepFiled == FiledTogether /\ Inv /\ FiledInv /\ [Next]_vars => FiledInv'
<1> SUFFICES ASSUME FiledTogether, Inv, FiledInv, [Next]_vars PROVE FiledInv'
  OBVIOUS
<1>1. ASSUME NEW p \in Procs, NEW i \in DOMAIN todo'[p] PROVE Filed(todo'[p][i])
  <2>1. CASE todo'[p][i] = DeviceSave
    BY <2>1 DEF Filed, DeviceSave
  <2>2. CASE \E c \in Commands : i \in DOMAIN c.saves /\ todo'[p][i] = c.saves[i]
    BY <2>2 DEF FiledTogether, Filed
  <2>3. CASE \E j \in DOMAIN todo[p] : todo'[p][i] = todo[p][j]
    BY <2>3 DEF FiledInv
  <2> QED BY <2>1, <2>2, <2>3, SavesMove
<1>2. /\ \A l \in late' : l.token # None => HostOf[l.token] = l.host
      /\ KeyringFiledUnderHost'
  <2>1. CASE UNCHANGED <<late, ring>>
    BY <2>1 DEF FiledInv, KeyringFiledUnderHost
  <2>2. ASSUME NEW p \in Procs, useKeyring(p)
        PROVE  /\ \A l \in late' : l.token # None => HostOf[l.token] = l.host
               /\ KeyringFiledUnderHost'
    <3>1. pc[p] = "keyring"
      BY <2>2 DEF useKeyring
    <3>2. buf[p].token # None => HostOf[buf[p].token] = ringKey(p)
      BY <3>1, KeyMatches
    <3>3. CASE keyringOk(p)
      <4>1. late' = late /\ ring' = [ring EXCEPT ![ringKey(p)] = buf[p].token]
        BY <3>3 DEF keyringOk
      <4>2. ASSUME NEW h \in Hosts, ring'[h] # None PROVE HostOf[ring'[h]] = h
        <5>1. ring'[h] = IF h = ringKey(p) THEN buf[p].token ELSE ring[h]
          BY <4>1 DEF Inv, TypeOK
        <5> QED BY <3>2, <4>2, <5>1 DEF FiledInv, KeyringFiledUnderHost
      <4> QED BY <4>1, <4>2 DEF FiledInv, KeyringFiledUnderHost
    <3>4. CASE keyringTimesOut(p)
      <4>1. ring' = ring /\ late' = late \cup {[host |-> ringKey(p), token |-> buf[p].token]}
        BY <3>4 DEF keyringTimesOut
      <4> QED BY <3>2, <4>1 DEF FiledInv, KeyringFiledUnderHost
    <3>5. CASE keyringUnavailable(p) \/ keyringFails(p)
      BY <2>1, <3>5 DEF keyringUnavailable, keyringFails
    <3> QED BY <2>2, <3>3, <3>4, <3>5 DEF useKeyring
  <2>3. ASSUME NEW l \in late, LateEffect(l)
        PROVE  /\ \A m \in late' : m.token # None => HostOf[m.token] = m.host
               /\ KeyringFiledUnderHost'
    <3>1. ring' = [ring EXCEPT ![l.host] = l.token] /\ late' = late \ {l}
      BY <2>3 DEF LateEffect
    <3>2. ASSUME NEW h \in Hosts, ring'[h] # None PROVE HostOf[ring'[h]] = h
      <4>1. ring'[h] = IF h = l.host THEN l.token ELSE ring[h]
        BY <3>1 DEF Inv, TypeOK
      <4> QED BY <3>2, <4>1 DEF FiledInv, KeyringFiledUnderHost
    <3> QED BY <3>1, <3>2 DEF FiledInv, KeyringFiledUnderHost
  <2>4. ASSUME NEW p \in Procs, Acts(p), ~useKeyring(p) PROVE UNCHANGED <<late, ring>>
    <3>1. CASE Start(p) \/ RLock(p) \/ load(p) \/ run(p) \/ XLock(p)
      BY <3>1 DEF Start, RLock, load, loadAs, run, XLock
    <3>2. CASE modify(p) \/ truncate(p) \/ flush(p)
      BY <3>2 DEF modify, truncate, flush
    <3>3. CASE tornWrite(p) \/ Crash(p) \/ Interrupt(p)
      BY <3>3 DEF tornWrite, Crash, Interrupt
    <3> QED BY <2>4, <3>1, <3>2, <3>3 DEF Acts, step
  <2>5. CASE ProviderChanges \/ Finished \/ UNCHANGED vars
    BY <2>1, <2>5 DEF ProviderChanges, Finished, vars
  <2> QED BY <2>1, <2>2, <2>3, <2>4, <2>5 DEF Next, Acts
<1> QED BY <1>1, <1>2 DEF FiledInv

\* When every save of a token names the host that issued it, as SetLogin's do, the
\* keyring holds each token under that host, whatever hosts are switched meanwhile
\* and however late an abandoned keyring operation takes effect.
THEOREM Filing == FiledTogether => (Spec => []KeyringFiledUnderHost)
<1> SUFFICES ASSUME FiledTogether PROVE Spec => []KeyringFiledUnderHost
  OBVIOUS
<1>1. Init => FiledInv
  BY DEF Init, FiledInv, FiledTogether, KeyringFiledUnderHost
<1>2. Inv /\ FiledInv /\ [Next]_vars => FiledInv'
  BY StepFiled
<1>3. FiledInv => KeyringFiledUnderHost
  BY DEF FiledInv
<1> QED BY <1>1, <1>2, <1>3, Invariance, PTL DEF Spec

-----------------------------------------------------------------------------
(* The file a keyring save writes.                                         *)

\* A pending save of a token is the last one of its command.
LastInv == \A p \in Procs : \A i \in DOMAIN todo[p] :
    todo[p][i].op \in TokenOps => i = Len(todo[p])

\* A process that put a token in the keyring is writing a file without one, or is
\* at its end; and only then has it a status.
Kept(p) ==
    /\ out[p].storage = "keyring" =>
          \/ pc[p] \in {"done", "crashed"}
          \/ /\ pc[p] \in {"truncate", "flush"}
             /\ buf[p].token = None /\ Head(todo[p]).op \in TokenOps
    /\ out[p].status # "none" => pc[p] = "done"
KeptInv == \A p \in Procs : Kept(p)

LEMMA StepLast == TokenLast /\ Inv /\ LastInv /\ [Next]_vars => LastInv'
<1> SUFFICES ASSUME TokenLast, Inv, LastInv, [Next]_vars, NEW p \in Procs,
                    NEW i \in DOMAIN todo'[p], todo'[p][i].op \in TokenOps
             PROVE  i = Len(todo'[p])
  BY DEF LastInv
<1>1. todo'[p][i] # DeviceSave
  BY DEF DeviceSave, TokenOps, Register!TokenOps
<1>2. CASE \E c \in Commands :
               i \in DOMAIN c.saves /\ todo'[p][i] = c.saves[i] /\ Len(todo'[p]) = Len(c.saves)
  BY <1>2 DEF TokenLast
<1>3. CASE \E j \in DOMAIN todo[p] :
               todo'[p][i] = todo[p][j] /\ (j = Len(todo[p]) => i = Len(todo'[p]))
  BY <1>3 DEF LastInv
<1> QED BY <1>1, <1>2, <1>3, SavesMove

LEMMA OthersReports ==
    ASSUME TypeOK, NEW p \in Procs, Acts(p), NEW q \in Procs, q # p
    PROVE  out'[q] = out[q]
<1>1. CASE Start(p) \/ RLock(p) \/ load(p) \/ run(p) \/ XLock(p)
  BY <1>1 DEF Start, RLock, load, loadAs, run, XLock, ends, TypeOK
<1>2. CASE modify(p) \/ truncate(p) \/ flush(p)
  BY <1>2 DEF modify, truncate, flush, ends, TypeOK
<1>3. CASE useKeyring(p)
  BY <1>3 DEF useKeyring, keyringOk, keyringUnavailable, keyringFails, keyringTimesOut,
              fail, ends, TypeOK
<1>4. CASE tornWrite(p) \/ Crash(p) \/ Interrupt(p)
  BY <1>4 DEF tornWrite, Crash, Interrupt, fail, ends, TypeOK
<1> QED BY <1>1, <1>2, <1>3, <1>4 DEF Acts, step

\* After the last save of a token the command is over.
LEMMA LastSaveEnds ==
    ASSUME Inv, LastInv, NEW p \in Procs, flush(p), Head(todo[p]).op \in TokenOps
    PROVE  pc'[p] = "done"
<1>1. todo[p] \in Seq(Register!Save) /\ todo[p] # <<>> /\ pc[p] = "flush"
  BY DEF flush, Inv, TypeOK, TodoInv, Saving
<1>2. 1 \in DOMAIN todo[p] /\ Head(todo[p]) = todo[p][1]
  BY <1>1
<1>3. Len(todo[p]) = 1
  BY <1>2 DEF LastInv
<1>4. Head(todo[p]).op # "device"
  BY DEF TokenOps, Register!TokenOps
<1>5. ends(p, "ok")
  BY <1>3, <1>4 DEF flush
<1> QED BY <1>5 DEF ends, goto, Inv, TypeOK

LEMMA StepKept == Inv /\ LastInv /\ KeptInv /\ [Next]_vars => KeptInv'
<1> SUFFICES ASSUME Inv, LastInv, KeptInv, [Next]_vars, NEW p \in Procs PROVE Kept(p)'
  BY DEF KeptInv
<1>k. Kept(p)
  BY DEF KeptInv
<1>o. out \in [Procs -> Outcome] /\ out[p] \in Outcome /\ pc \in [Procs -> States]
  BY DEF Inv, TypeOK
<1>1. ASSUME NEW q \in Procs, Acts(q), q # p PROVE Kept(p)'
  BY <1>1, <1>k, OthersStay, OthersReports DEF Kept, Inv
<1>2. ASSUME Acts(p) PROVE Kept(p)'
  <2>1. CASE Start(p) \/ RLock(p) \/ load(p) \/ XLock(p) \/ modify(p)
    <3>1. /\ out' = out /\ pc'[p] \notin {"done", "crashed"}
          /\ pc[p] \notin {"done", "crashed", "truncate", "flush"}
      BY <2>1, <1>o DEF Start, RLock, load, loadAs, XLock, modify, goto
    <3> QED BY <1>k, <3>1 DEF Kept
  <2>2. CASE run(p)
    <3>1. pc[p] = "ready" /\ (pc'[p] = "done" \/ out' = out)
      BY <2>2, <1>o DEF run, ends, goto
    <3> QED BY <1>k, <3>1 DEF Kept
  <2>3. CASE useKeyring(p)
    <3>1. pc[p] = "keyring"
      BY <2>3 DEF useKeyring
    <3>2. CASE keyringOk(p)
      <4>1. pc'[p] = "truncate" /\ todo' = todo /\ out' = [out EXCEPT ![p].storage = "keyring"]
        BY <3>2, <1>o DEF keyringOk, goto
      <4>2. out'[p].status = out[p].status
        BY <4>1, <1>o DEF Outcome
      <4>3. buf'[p].token = None
        BY <3>2 DEF keyringOk, Inv, TypeOK, Content, Register!Content
      <4>4. Head(todo[p]).op \in TokenOps
        BY <3>1 DEF Inv, BufInv
      <4> QED BY <1>k, <3>1, <4>1, <4>2, <4>3, <4>4 DEF Kept
    <3>3. CASE keyringUnavailable(p)
      BY <1>k, <1>o, <3>1, <3>3 DEF keyringUnavailable, goto, Kept
    <3>4. CASE keyringFails(p) \/ keyringTimesOut(p)
      BY <1>o, <3>4 DEF keyringFails, keyringTimesOut, fail, ends, goto, Kept
    <3> QED BY <2>3, <3>2, <3>3, <3>4 DEF useKeyring
  <2>4. CASE truncate(p)
    BY <1>k, <1>o, <2>4 DEF truncate, goto, Kept
  <2>5. CASE flush(p)
    <3>1. CASE out[p].storage = "keyring"
      <4>1. Head(todo[p]).op \in TokenOps
        BY <1>k, <2>5, <3>1 DEF Kept, flush
      <4> QED BY <2>5, <4>1, LastSaveEnds DEF Kept
    <3>2. CASE out[p].storage # "keyring"
      <4>1. pc'[p] = "done" \/ out' = out
        BY <1>o, <2>5 DEF flush, ends, goto
      <4> QED BY <1>k, <2>5, <3>2, <4>1 DEF Kept, flush
    <3> QED BY <3>1, <3>2
  <2>6. CASE tornWrite(p) \/ Crash(p) \/ Interrupt(p)
    <3>1. pc[p] # "done" /\ (pc'[p] = "done" \/ (pc'[p] = "crashed" /\ out' = out))
      BY <2>6, <1>o DEF tornWrite, Crash, Interrupt, fail, ends, goto, States
    <3> QED BY <1>k, <3>1 DEF Kept
  <2> QED BY <1>2, <2>1, <2>2, <2>3, <2>4, <2>5, <2>6 DEF Acts, step
<1>3. CASE UNCHANGED <<out, pc, buf, todo>>
  BY <1>3, <1>k DEF Kept
<1> QED BY <1>1, <1>2, <1>3 DEF Next, Acts, ProviderChanges, LateEffect, Finished, vars

\* When a command saves its token last, as setup does, one that reports the keyring
\* as the storage has left no token in the file, whatever was there before and
\* whatever other processes did meanwhile.
THEOREM NoPlaintext == TokenLast => (Spec => KeyringMeansNoPlaintext)
<1> SUFFICES ASSUME TokenLast PROVE Spec => KeyringMeansNoPlaintext
  OBVIOUS
<1> DEFINE Promise == \A p \in Procs :
               pc[p] = "flush" /\ out'[p].status = "ok" /\ out'[p].storage = "keyring"
                   => disk'[target(p)].token = None
<1>1. Init => LastInv /\ KeptInv
  BY DEF Init, LastInv, KeptInv, Kept, NoOutcome
<1>2. Inv /\ LastInv /\ KeptInv /\ [Next]_vars => LastInv' /\ KeptInv'
  BY StepLast, StepKept
<1>3. Inv /\ LastInv /\ KeptInv /\ [Next]_vars => [Promise]_vars
  <2> SUFFICES ASSUME Inv, LastInv, KeptInv, [Next]_vars, NEW p \in Procs, pc[p] = "flush",
                      out'[p].status = "ok", out'[p].storage = "keyring"
               PROVE  disk'[target(p)].token = None
    OBVIOUS
  <2>1. out[p].status = "none" /\ out[p] \in Outcome /\ out \in [Procs -> Outcome]
    BY DEF KeptInv, Kept, Inv, TypeOK
  <2>2. ~UNCHANGED out
    BY <2>1
  <2>3. PICK q \in Procs : Acts(q)
    BY <2>2 DEF Next, Acts, ProviderChanges, LateEffect, Finished, vars
  <2>4. q = p
    BY <2>1, <2>3, OthersReports DEF Inv
  <2>5. flush(p)
    <3>1. ~(Start(p) \/ RLock(p) \/ load(p) \/ run(p) \/ XLock(p) \/ modify(p))
      BY DEF Start, RLock, load, loadAs, run, XLock, modify
    <3>2. ~(useKeyring(p) \/ truncate(p) \/ Crash(p) \/ Interrupt(p))
      BY DEF useKeyring, truncate, Crash, Interrupt
    <3>3. ~tornWrite(p)
      BY <2>1 DEF tornWrite, ends, goto, Outcome
    <3> QED BY <2>3, <2>4, <3>1, <3>2, <3>3 DEF Acts, step
  <2>6. out'[p].storage = out[p].storage
    BY <2>1, <2>5 DEF flush, ends, Outcome
  <2>7. buf[p].token = None
    BY <2>6 DEF KeptInv, Kept
  <2>8. target(p) \in Paths
    BY TodoType DEF Inv, TodoInv, Saving
  <2> QED BY <2>5, <2>7, <2>8 DEF flush, Inv, TypeOK
<1> QED BY <1>1, <1>2, <1>3, Invariance, PTL DEF Spec, KeyringMeansNoPlaintext

-----------------------------------------------------------------------------
(* The token a command finds.                                              *)

\* A token that fell back is in the file, and the keyring may hold anything;
\* otherwise it is in the keyring, or the keyring is empty.
Agree(fileToken, ringToken, saved, fell) ==
    IF fell THEN fileToken = saved
    ELSE /\ fileToken \in {None, saved}
         /\ IF ringToken = None THEN fileToken = saved ELSE ringToken = saved

OneHost == {None, DefaultHost}

\* A token on its way is in the keyring already, and not in the file to be, or the
\* other way round.
InStep(p) ==
    IF Head(todo[p]).op \in TokenOps
    THEN IF out[p].storage = "file" THEN buf[p].token = Head(todo[p]).token
         ELSE ring[DefaultHost] = Head(todo[p]).token /\ buf[p].token = None
    ELSE Agree(buf[p].token, ring[DefaultHost], last[DefaultPath], fellBack[DefaultPath])

\* The saves in hand are those of the command; file and keyring agree on the token,
\* except while a save is being written, which is about to make them agree.
HandInv ==
    \A p \in Procs :
        /\ pc[p] = "idle" => todo[p] = <<>>
        /\ \A i \in DOMAIN todo[p] :
              /\ todo[p][i].host \in OneHost
              /\ todo[p][i].op \in TokenOps => cmd[p].secure
AgreeInv ==
    /\ late = {}
    /\ disk[DefaultPath].host \in OneHost
    /\ \A p \in Procs : pc[p] \in {"keyring", "truncate", "flush"} => buf[p].host \in OneHost
    /\ \A p \in Procs : pc[p] \in {"truncate", "flush"} => InStep(p)
    /\ (\A p \in Procs : pc[p] \notin {"truncate", "flush"}) =>
           Agree(disk[DefaultPath].token, ring[DefaultHost], last[DefaultPath],
                 fellBack[DefaultPath])

LEMMA CmdStays ==
    ASSUME Inv, [Next]_vars, NEW p \in Procs
    PROVE  IF pc[p] = "idle" THEN todo'[p] = todo[p] ELSE pc'[p] # "idle" /\ cmd'[p] = cmd[p]
<1> DEFINE Goal == IF pc[p] = "idle" THEN todo'[p] = todo[p]
                                    ELSE pc'[p] # "idle" /\ cmd'[p] = cmd[p]
<1>1. ASSUME NEW q \in Procs, Acts(q), q # p PROVE Goal
  BY <1>1, OthersStay DEF Inv
<1>2. ASSUME Acts(p) PROVE Goal
  <2>1. CASE Start(p)
    BY <2>1 DEF Start
  <2>2. CASE RLock(p) \/ load(p) \/ run(p) \/ XLock(p) \/ modify(p)
    BY <2>2 DEF RLock, load, loadAs, run, XLock, modify, ends, goto, Inv, TypeOK
  <2>3. CASE useKeyring(p)
    BY <2>3 DEF useKeyring, keyringOk, keyringUnavailable, keyringFails, keyringTimesOut, fail,
                ends, goto, Inv, TypeOK
  <2>4. CASE truncate(p) \/ flush(p)
    BY <2>4 DEF truncate, flush, ends, goto, Inv, TypeOK
  <2>5. CASE tornWrite(p) \/ Crash(p) \/ Interrupt(p)
    BY <2>5 DEF tornWrite, Crash, Interrupt, fail, ends, goto, Inv, TypeOK
  <2> QED BY <1>2, <2>1, <2>2, <2>3, <2>4, <2>5 DEF Acts, step
<1>3. CASE UNCHANGED <<todo, pc, cmd>>
  BY <1>3
<1> QED BY <1>1, <1>2, <1>3 DEF Next, Acts, ProviderChanges, LateEffect, Finished, vars

LEMMA StepHand == Calm /\ Inv /\ HandInv /\ [Next]_vars => HandInv'
<1> SUFFICES ASSUME Calm, Inv, HandInv, [Next]_vars, NEW p \in Procs
             PROVE  /\ pc'[p] = "idle" => todo'[p] = <<>>
                    /\ \A i \in DOMAIN todo'[p] :
                          /\ todo'[p][i].host \in OneHost
                          /\ todo'[p][i].op \in TokenOps => cmd'[p].secure
  BY DEF HandInv
<1>1. CASE pc[p] = "idle"
  <2>1. todo'[p] = <<>>
    BY <1>1, CmdStays DEF HandInv
  <2> QED BY <2>1
<1>2. CASE pc[p] # "idle"
  <2>1. pc'[p] # "idle" /\ cmd'[p] = cmd[p]
    BY <1>2, CmdStays
  <2>2. ASSUME NEW i \in DOMAIN todo'[p]
        PROVE  /\ todo'[p][i].host \in OneHost
               /\ todo'[p][i].op \in TokenOps => cmd[p].secure
    <3>1. CASE todo'[p][i] = DeviceSave
      BY <3>1 DEF DeviceSave, OneHost, TokenOps, Register!TokenOps
    <3>2. CASE /\ cmd[p] \in Commands
               /\ i \in DOMAIN cmd[p].saves /\ todo'[p][i] = cmd[p].saves[i]
      BY <3>2 DEF Calm, OneHost
    <3>3. CASE \E j \in DOMAIN todo[p] : todo'[p][i] = todo[p][j]
      BY <3>3 DEF HandInv
    <3> QED BY <3>1, <3>2, <3>3, SavesMove
  <2> QED BY <2>1, <2>2
<1> QED BY <1>1, <1>2

\* With one file, a process that has its lock is the only one that writes.
LEMMA Alone ==
    ASSUME Calm, Inv, NEW p \in Procs, pc[p] \in Writing \cup {"read"}, NEW q \in Procs, q # p
    PROVE  pc[q] \notin Writing
<1>1. target(q) \in Paths \/ pc[q] \notin Writing
  BY TodoType DEF Inv, TodoInv, Writing, Saving
<1>2. CASE pc[p] \in Writing
  <2>1. target(p) \in Paths
    BY <1>2, TodoType DEF Inv, TodoInv, Writing, Saving
  <2> QED BY <1>1, <1>2, <2>1 DEF Calm, Inv, LockInv
<1>3. CASE pc[p] = "read"
  <2>1. cmd[p].path \in Paths
    BY DEF Inv, TypeOK, Command
  <2>2. shared[cmd[p].path] # {}
    BY <1>3 DEF Inv, LockInv
  <2>3. excl[cmd[p].path] \notin Procs
    BY <2>1, <2>2, StoreAssumption DEF Inv, LockInv
  <2> QED BY <1>1, <2>1, <2>3 DEF Calm, Inv, LockInv
<1> QED BY <1>2, <1>3

\* What a save makes of the token and of the host.
LEMMA ApplyToken ==
    ASSUME NEW p \in Procs, NEW s \in Register!Save, NEW c \in Content
    PROVE  LET d == Register!Apply(p, s, c) IN
               /\ d.host \in {s.host, c.host}
               /\ d.token = IF s.op \in TokenOps THEN s.token ELSE c.token
<1> DEFINE d == Register!Apply(p, s, c)
<1>1. s.op \in {"login", "logout", "token", "host", "pref", "unpref", "device"}
  BY DEF Register!Save
<1>2. CASE s.op \in TokenOps
  BY <1>2 DEF TokenOps, Register!TokenOps, Register!Save, Register!Apply, Content, Register!Content
<1>3. CASE s.op \in {"host", "pref", "unpref", "device"}
  <2>1. s.op \notin TokenOps
    BY <1>3 DEF TokenOps, Register!TokenOps
  <2> QED BY <1>3, <2>1 DEF Register!Apply, Content, Register!Content
<1> QED BY <1>1, <1>2, <1>3 DEF TokenOps, Register!TokenOps

LEMMA StepAgree == Calm /\ Inv /\ HandInv /\ AgreeInv /\ [Next]_vars => AgreeInv'
<1> SUFFICES ASSUME Calm, Inv, HandInv, AgreeInv, [Next]_vars PROVE AgreeInv'
  OBVIOUS
<1> DEFINE W == {"truncate", "flush"}
           token == disk[DefaultPath].token
           kept == ring[DefaultHost]
           saved == last[DefaultPath]
           fell == fellBack[DefaultPath]
<1>t. pc \in [Procs -> States] /\ buf \in [Procs -> Content] /\ disk \in [Paths -> Content]
  BY DEF Inv, TypeOK
<1>a. /\ late = {} /\ disk[DefaultPath].host \in OneHost
      /\ \A p \in Procs : pc[p] \in W \cup {"keyring"} => buf[p].host \in OneHost
      /\ \A p \in Procs : pc[p] \in W => InStep(p)
      /\ (\A p \in Procs : pc[p] \notin W) => Agree(token, kept, saved, fell)
  BY DEF AgreeInv
<1>1. ASSUME NEW p \in Procs, Acts(p) PROVE AgreeInv'
  <2>o. \A q \in Procs \ {p} : pc'[q] = pc[q] /\ buf'[q] = buf[q] /\ todo'[q] = todo[q]
                                /\ out'[q] = out[q]
    BY <1>1, OthersStay DEF Inv
  <2>h. pc[p] \in Saving =>
            /\ target(p) = DefaultPath
            /\ Head(todo[p]) \in Register!Save /\ Head(todo[p]).host \in OneHost
            /\ Head(todo[p]).op \in TokenOps => cmd[p].secure
    <3> SUFFICES ASSUME pc[p] \in Saving
                 PROVE  /\ target(p) = DefaultPath
                        /\ Head(todo[p]) \in Register!Save /\ Head(todo[p]).host \in OneHost
                        /\ Head(todo[p]).op \in TokenOps => cmd[p].secure
      OBVIOUS
    <3>1. todo[p] \in Seq(Register!Save) /\ todo[p] # <<>>
      BY DEF Inv, TypeOK, TodoInv
    <3>2. 1 \in DOMAIN todo[p] /\ Head(todo[p]) = todo[p][1]
      BY <3>1
    <3> QED BY <3>1, <3>2, TodoType DEF Inv, HandInv, Calm
  <2>x. pc[p] \in Writing => \A q \in Procs \ {p} : pc[q] \notin W \cup {"keyring"}
    BY Alone DEF Writing
  <2>1. CASE Start(p) \/ RLock(p) \/ load(p) \/ run(p) \/ XLock(p)
    <3>1. /\ UNCHANGED <<disk, ring, last, fellBack, late, buf>>
          /\ pc[p] \notin W \cup {"keyring"} /\ pc'[p] \notin W \cup {"keyring"}
      BY <2>1, <1>t DEF Start, RLock, load, loadAs, run, XLock, ends, goto
    <3>2. \A q \in Procs : pc'[q] \in W => InStep(q)'
      BY <1>a, <2>o, <3>1 DEF InStep, Agree
    <3>3. (\A q \in Procs : pc'[q] \notin W) => Agree(token, kept, saved, fell)'
      BY <1>a, <2>o, <3>1 DEF Agree
    <3> QED BY <1>a, <2>o, <3>1, <3>2, <3>3 DEF AgreeInv
  <2>2. CASE modify(p)
    <3>1. /\ pc[p] = "modify" /\ UNCHANGED <<disk, ring, last, fellBack, late, todo>>
          /\ buf'[p] = Register!Apply(p, Head(todo[p]), disk[target(p)])
          /\ pc'[p] = IF isSecure(p) THEN "keyring" ELSE "truncate"
      BY <2>2, <1>t DEF modify, goto
    <3>2. target(p) = DefaultPath /\ Head(todo[p]) \in Register!Save /\ disk[target(p)] \in Content
      BY <1>t, <2>h, <3>1, StoreAssumption DEF Saving
    <3>3. buf'[p].host \in OneHost
      BY <1>a, <2>h, <3>1, <3>2, ApplyToken DEF Saving
    <3>4. Agree(token, kept, saved, fell)
      BY <1>a, <2>x, <3>1 DEF Writing
    <3>5. ~isSecure(p) => Head(todo[p]).op \notin TokenOps /\ buf'[p].token = token
      BY <2>h, <3>1, <3>2, ApplyToken DEF isSecure, Saving
    <3>6. pc'[p] \in W => InStep(p)'
      BY <3>1, <3>4, <3>5 DEF InStep
    <3>7. Agree(token, kept, saved, fell)'
      BY <3>1, <3>4
    <3>8. \A q \in Procs \ {p} : pc'[q] \notin W \cup {"keyring"}
      BY <2>x, <2>o, <3>1 DEF Writing
    <3> QED BY <1>a, <3>1, <3>3, <3>6, <3>7, <3>8 DEF AgreeInv
  <2>3. CASE useKeyring(p)
    <3>1. /\ pc[p] = "keyring" /\ UNCHANGED <<disk, last, fellBack>>
          /\ keyringOk(p) \/ keyringUnavailable(p) \/ keyringFails(p)
      BY <1>a, <2>3 DEF useKeyring, keyringTimesOut, Calm
    <3>2. \A q \in Procs \ {p} : pc'[q] \notin W \cup {"keyring"}
      BY <2>x, <2>o, <3>1 DEF Writing
    <3>3. CASE keyringFails(p)
      <4>1. UNCHANGED <<ring, late>> /\ pc'[p] = "done"
        BY <3>3, <1>t DEF keyringFails, fail, ends, goto
      <4>2. Agree(token, kept, saved, fell)
        BY <1>a, <2>x, <3>1 DEF Writing
      <4>3. Agree(token, kept, saved, fell)'
        BY <3>1, <4>1, <4>2
      <4> QED BY <1>a, <3>1, <3>2, <4>1, <4>3 DEF AgreeInv
    <3>o. Head(todo[p]).op \in TokenOps /\ buf[p].token = Head(todo[p]).token
      <4>1. /\ Head(todo[p]).op \in TokenOps
            /\ buf[p] = Register!Apply(p, Head(todo[p]), disk[target(p)])
        BY <3>1 DEF Inv, BufInv
      <4>2. disk[target(p)] \in Content /\ Head(todo[p]) \in Register!Save
        BY <1>t, <2>h, <3>1, StoreAssumption DEF Saving
      <4> QED BY <4>1, <4>2, ApplyToken
    <3>4. CASE keyringOk(p)
      <4>1. /\ ring' = [ring EXCEPT ![ringKey(p)] = buf[p].token] /\ pc'[p] = "truncate"
            /\ late' = late /\ todo' = todo /\ buf' = [buf EXCEPT ![p].token = None]
            /\ out'[p].storage = "keyring"
        BY <3>4, <1>t DEF keyringOk, goto, Inv, TypeOK, Outcome
      <4>2. buf'[p].token = None /\ buf'[p].host = buf[p].host
        BY <4>1, <1>t DEF Content, Register!Content
      <4>3. ringKey(p) = DefaultHost
        BY <1>a, <3>1, StoreAssumption DEF ringKey, EffectiveHost, OneHost
      <4>5. ring'[DefaultHost] = buf[p].token
        BY <4>1, <4>3, StoreAssumption DEF Inv, TypeOK
      <4>6. InStep(p)'
        BY <4>1, <4>2, <3>o, <4>5 DEF InStep
      <4> QED BY <1>a, <3>1, <3>2, <4>1, <4>2, <4>6 DEF AgreeInv
    \* The file takes the token, whatever the keyring holds.
    <3>5. CASE keyringUnavailable(p)
      <4>1. /\ UNCHANGED <<ring, late, todo, buf>> /\ pc'[p] = "truncate"
            /\ out'[p].storage = "file"
        BY <3>5, <1>t DEF keyringUnavailable, goto, Inv, TypeOK, Outcome
      <4>2. InStep(p)'
        BY <3>o, <4>1 DEF InStep
      <4> QED BY <1>a, <3>1, <3>2, <4>1, <4>2 DEF AgreeInv
    <3> QED BY <3>1, <3>3, <3>4, <3>5
  <2>4. CASE truncate(p)
    <3>1. /\ pc[p] = "truncate" /\ pc'[p] = "flush" /\ disk' = [disk EXCEPT ![target(p)] = Empty]
          /\ UNCHANGED <<ring, last, fellBack, late, todo, buf, out>>
      BY <2>4, <1>t DEF truncate, goto
    <3>2. disk'[DefaultPath].host \in OneHost
      BY <1>t, <2>h, <3>1, StoreAssumption DEF Empty, Register!Empty, OneHost, Saving
    <3>3. InStep(p)'
      BY <1>a, <3>1 DEF InStep, Agree
    <3>4. \A q \in Procs \ {p} : pc'[q] \notin W \cup {"keyring"}
      BY <2>x, <2>o, <3>1 DEF Writing
    <3> QED BY <1>a, <3>1, <3>2, <3>3, <3>4 DEF AgreeInv
  <2>5. CASE flush(p)
    <3>1. /\ pc[p] = "flush" /\ disk' = [disk EXCEPT ![target(p)] = buf[p]]
          /\ last' = [last EXCEPT ![target(p)] = IF Head(todo[p]).op \in TokenOps
                                                 THEN Head(todo[p]).token ELSE @]
          /\ fellBack' = [fellBack EXCEPT ![target(p)] =
                             IF Head(todo[p]).op \in TokenOps THEN out[p].storage = "file" ELSE @]
          /\ UNCHANGED <<ring, late>> /\ pc'[p] \notin W \cup {"keyring"}
      BY <2>5, <1>t DEF flush, ends, goto
    <3>2. target(p) = DefaultPath /\ InStep(p)
      BY <1>a, <2>h, <3>1 DEF Saving
    <3>3. /\ disk'[DefaultPath] = buf[p]
          /\ last'[DefaultPath] = IF Head(todo[p]).op \in TokenOps
                                  THEN Head(todo[p]).token ELSE last[DefaultPath]
          /\ fellBack'[DefaultPath] = IF Head(todo[p]).op \in TokenOps
                                      THEN out[p].storage = "file" ELSE fellBack[DefaultPath]
      BY <1>t, <3>1, <3>2, StoreAssumption DEF Inv, TypeOK
    <3>4. Agree(token, kept, saved, fell)'
      BY <3>1, <3>2, <3>3 DEF InStep, Agree
    <3>5. \A q \in Procs \ {p} : pc'[q] \notin W \cup {"keyring"}
      BY <2>x, <2>o, <3>1 DEF Writing
    <3> QED BY <1>a, <3>1, <3>3, <3>4, <3>5 DEF AgreeInv
  <2>6. ~(tornWrite(p) \/ Crash(p) \/ Interrupt(p))
    BY DEF Calm, CanTear, tornWrite, Crash, Interrupt
  <2> QED BY <1>1, <2>1, <2>2, <2>3, <2>4, <2>5, <2>6 DEF Acts, step
<1>2. CASE UNCHANGED vars
  BY <1>2, <1>a DEF vars, AgreeInv, InStep, Agree
<1>3. CASE ProviderChanges
  BY <1>3, <1>a DEF ProviderChanges, AgreeInv, InStep, Agree
<1>4. \A l \in late : ~LateEffect(l)
  BY <1>a
<1> QED BY <1>1, <1>2, <1>3, <1>4 DEF Next, Acts, Finished

\* On a machine with one file and one host, whatever the keyring refuses and
\* whenever it stops and starts, every load finds the token of the last successful
\* save, unless that save reported a fallback which an older entry now shadows, or
\* the keyring holds the token and does not answer.
THEOREM TokenUsed == Calm => (Spec => SavedTokenIsUsed)
<1> SUFFICES ASSUME Calm PROVE Spec => SavedTokenIsUsed
  OBVIOUS
<1> DEFINE Promise == \A p \in Procs, answers \in BOOLEAN :
               loadAs(p, answers) => findsSaved(p, answers)
<1>1. Init => HandInv /\ AgreeInv
  <2> SUFFICES ASSUME Init PROVE HandInv /\ AgreeInv
    OBVIOUS
  <2>1. disk \in Stored /\ ring \in Rings /\ disk \in [Paths -> Content]
    BY StoreAssumption DEF Init
  <2>2. EffectiveHost(disk[DefaultPath]) = DefaultHost /\ disk[DefaultPath].host \in OneHost
    BY <2>1 DEF Calm, EffectiveHost, OneHost
  <2>3. last[DefaultPath] = IF ring[DefaultHost] # None THEN ring[DefaultHost]
                                                        ELSE disk[DefaultPath].token
    BY <2>2, StoreAssumption DEF Init, Found
  <2>4. ring[DefaultHost] # None => disk[DefaultPath].token \in {None, ring[DefaultHost]}
    BY <2>1 DEF Calm
  <2>5. /\ Agree(disk[DefaultPath].token, ring[DefaultHost], last[DefaultPath], FALSE)
        /\ fellBack[DefaultPath] = FALSE
    BY <2>3, <2>4, StoreAssumption DEF Agree, Init
  <2>6. /\ late = {}
        /\ \A p \in Procs : pc[p] = "idle" /\ todo[p] = <<>>
    BY DEF Init
  <2>7. HandInv
    BY <2>6 DEF HandInv
  <2> QED BY <2>2, <2>5, <2>6, <2>7 DEF AgreeInv
<1>2. Inv /\ HandInv /\ AgreeInv /\ [Next]_vars => HandInv' /\ AgreeInv'
  BY StepHand, StepAgree
<1>3. Inv /\ AgreeInv => [Promise]_vars
  <2> SUFFICES ASSUME Inv, AgreeInv, NEW p \in Procs, NEW a \in BOOLEAN, loadAs(p, a)
               PROVE  findsSaved(p, a)
    OBVIOUS
  <2>1. pc[p] = "read" /\ cmd[p].path = DefaultPath /\ disk[DefaultPath] \in Content
    BY StoreAssumption DEF loadAs, Calm, Inv, TypeOK, Command
  <2>2. \A r \in Procs : pc[r] \notin {"truncate", "flush"}
    BY <2>1, Alone DEF Writing
  <2>3. Agree(disk[DefaultPath].token, ring[DefaultHost], last[DefaultPath],
              fellBack[DefaultPath])
    BY <2>2 DEF AgreeInv
  <2>4. EffectiveHost(disk[DefaultPath]) = DefaultHost
    BY DEF AgreeInv, EffectiveHost, OneHost
  <2>5. cfg'[p].token = Found(a, disk[DefaultPath])
    <3>1. cfg'[p] = [disk[DefaultPath] EXCEPT !.token = Found(a, disk[DefaultPath])]
      BY <2>1 DEF loadAs, Inv, TypeOK
    <3> QED BY <2>1, <3>1 DEF Content, Register!Content
  <2> QED BY <2>1, <2>3, <2>4, <2>5 DEF Agree, Found, findsSaved
<1> QED BY <1>1, <1>2, <1>3, Invariance, PTL DEF Spec, SavedTokenIsUsed
=============================================================================
