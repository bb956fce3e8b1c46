----------------------------- MODULE ConfigStore -----------------------------
(***************************************************************************)
(* The settings store of internal/config (config.go), the OS keyring       *)
(* behind it (internal/keyring) and the commands that go through both:     *)
(* every process loads the settings once (config.Load, from the root       *)
(* command's pre-run), then login, logout, signup, setup and `setting`     *)
(* make their saves.  Processes share the files, the advisory locks and    *)
(* the keyring and nothing else.                                           *)
(***************************************************************************)
EXTENDS Integers, Sequences, FiniteSets

CONSTANTS
    Procs, Paths, Hosts, Tokens, Prefs, None,
    HostOf,       \* the host that issued a token
    DefaultPath,  \* the XDG location, which most setters write whatever --config says
    DefaultHost,
    Commands,     \* what a process may be asked to run, see Command
    Stored,       \* what the files may hold at the start
    Rings,        \* what the keyring may hold at the start
    Faults        \* what the environment may do, a subset of AllFaults

AllFaults == {"absent",     \* the Secret Service provider comes and goes
              "locked",     \* the keyring refuses an operation
              "timeout",    \* it answers after keyring.timeout, or the user interrupts
              "crash",      \* a process dies between two steps
              "torn"}       \* a write of the file is cut short

CanTear == "torn" \in Faults

VARIABLES
    disk,      \* disk[path]: what a read of the config file yields
    ring,      \* ring[host]: the token the keyring holds for a host
    provider,  \* the Secret Service provider answers
    late,      \* keyring operations given up on that may still be carried out
    shared,    \* shared[path]: holders of the shared flock
    excl,      \* excl[path]: holder of the exclusive flock
    pc,        \* where each process is
    cmd,       \* the command it runs
    cfg,       \* the settings it loaded
    todo,      \* saves it still has to make, the current one first
    buf,       \* the settings it is about to write
    out,       \* what it reported
    last,      \* history: the token the last successful save to a file left in effect
    fellBack   \* history: that save reported the file as the storage, not the keyring

\* The file a save writes: only SetLogin, ensureDeviceID and UnsetUpdateCheck
\* are given --config; every other setter writes the default location.
target(p) == IF Head(todo[p]).op \in {"login", "device", "unpref"}
             THEN cmd[p].path ELSE DefaultPath

\* A file as the next holder of its lock will find it: what a writer is in the
\* middle of writing counts as written.
settled == [f \in Paths |->
    IF \E p \in Procs : pc[p] = "flush" /\ target(p) = f
    THEN buf[CHOOSE p \in Procs : pc[p] = "flush" /\ target(p) = f]
    ELSE disk[f]]

Register == INSTANCE SettingsRegister WITH reg <- settled

Content  == Register!Content
Empty    == Register!Empty
TokenOps == Register!TokenOps

\* kind tells signup's extra check apart; path is --config; secure is
\* IsSecureStorage, decided once per process.
Command == [kind: {"load", "signup", "save"}, path: Paths, secure: BOOLEAN,
            saves: Seq(Register!Save)]

Outcome == [status: {"none", "ok", "failed", "refused"}, storage: {"file", "keyring"}]

NoOutcome == [status |-> "none", storage |-> "file"]

DeviceSave == [op |-> "device", host |-> None, token |-> None, pref |-> None]

vars == <<disk, ring, provider, late, shared, excl, pc, cmd, cfg, todo, buf, out, last, fellBack>>

Idle   == [kind |-> "load", path |-> DefaultPath, secure |-> FALSE, saves |-> <<>>]

ASSUME StoreAssumption ==
    /\ DefaultPath \in Paths /\ DefaultHost \in Hosts
    /\ None \notin Procs \cup Hosts \cup Tokens \cup Prefs \cup Paths
    /\ HostOf \in [Tokens -> Hosts]
    /\ \A c \in Commands : c \in Command /\ (c.kind # "load" => c.saves # <<>>)
    /\ Stored \subseteq [Paths -> Content]
    /\ Rings \subseteq [Hosts -> Tokens \cup {None}]
    /\ Faults \subseteq AllFaults

States == {"idle", "rlock", "read", "ready", "xlock", "modify", "keyring",
           "truncate", "flush", "done", "crashed"}

TypeOK ==
    /\ disk \in [Paths -> Content]
    /\ ring \in [Hosts -> Tokens \cup {None}]
    /\ provider \in BOOLEAN
    /\ late \subseteq [host: Hosts, token: Tokens \cup {None}]
    /\ shared \in [Paths -> SUBSET Procs]
    /\ excl \in [Paths -> Procs \cup {None}]
    /\ pc \in [Procs -> States]
    /\ cmd \in [Procs -> Command]
    /\ cfg \in [Procs -> Content] /\ buf \in [Procs -> Content]
    /\ todo \in [Procs -> Seq(Register!Save)]
    /\ out \in [Procs -> Outcome]
    /\ last \in [Paths -> Tokens \cup {None}]
    /\ fellBack \in [Paths -> BOOLEAN]

\* EffectiveHost of the settings c (CIRCLE_HOST unset).
EffectiveHost(c) == IF c.host = None THEN DefaultHost ELSE c.host

\* loadToken: a keyring entry, when one is found, overrides the file's token.
Found(answers, c) ==
    LET h == EffectiveHost(c)
    IN  IF answers /\ ring[h] # None THEN ring[h] ELSE c.token

Init ==
    /\ disk \in Stored
    /\ ring \in Rings
    /\ provider = TRUE
    /\ late = {}
    /\ shared = [f \in Paths |-> {}] /\ excl = [f \in Paths |-> None]
    /\ pc = [p \in Procs |-> "idle"]
    /\ cmd = [p \in Procs |-> Idle]
    /\ cfg = [p \in Procs |-> Empty] /\ buf = [p \in Procs |-> Empty]
    /\ todo = [p \in Procs |-> <<>>]
    /\ out = [p \in Procs |-> NoOutcome]
    /\ last = [f \in Paths |-> Found(TRUE, disk[f])]
    /\ fellBack = [f \in Paths |-> FALSE]

-----------------------------------------------------------------------------
(* The locks.  A flock is released on every way out of load and saveToFull, *)
(* and by the kernel when its holder dies.                                  *)

release(p) ==
    /\ shared' = [f \in Paths |-> shared[f] \ {p}]
    /\ excl' = [f \in Paths |-> IF excl[f] = p THEN None ELSE excl[f]]

goto(p, state) == pc' = [pc EXCEPT ![p] = state]

ends(p, status) ==
    /\ goto(p, "done")
    /\ out' = [out EXCEPT ![p].status = status]

\* Fault: an error return that forgets the lock.
failLocked(p) ==
    /\ ends(p, "failed")
    /\ todo' = [todo EXCEPT ![p] = <<>>]
    /\ UNCHANGED <<shared, excl>>

\* An error return from load or saveToFull ends the command.
fail(p) ==
    /\ ends(p, "failed")
    /\ todo' = [todo EXCEPT ![p] = <<>>]
    /\ release(p)

-----------------------------------------------------------------------------
(* Load.                                                                   *)

Start(p) ==
    /\ pc[p] = "idle"
    /\ \E c \in Commands : cmd' = [cmd EXCEPT ![p] = c]
    /\ goto(p, "rlock")
    /\ UNCHANGED <<disk, ring, provider, late, shared, excl, cfg, todo, buf, out, last, fellBack>>

RLock(p) ==
    /\ pc[p] = "rlock"
    /\ excl[cmd[p].path] = None
    /\ shared' = [shared EXCEPT ![cmd[p].path] = @ \cup {p}]
    /\ goto(p, "read")
    /\ UNCHANGED <<disk, ring, provider, late, excl, cmd, cfg, todo, buf, out, last, fellBack>>

\* Read under the shared lock, with the keyring consulted when storage is
\* secure; any keyring error means no token there (answers is FALSE).  A file
\* without a device ID sends Load on to ensureDeviceID, after the shared lock is gone.
loadAs(p, answers) ==
    LET c == disk[cmd[p].path]
    IN  /\ pc[p] = "read"
        /\ answers => cmd[p].secure /\ provider
        /\ ~answers => ~cmd[p].secure \/ ~provider \/ Faults \cap {"locked", "timeout"} # {}
        /\ cfg' = [cfg EXCEPT ![p] = [c EXCEPT !.token = Found(answers, c)]]
        /\ release(p)
        /\ \/ /\ c.device # None
              /\ goto(p, "ready")
              /\ UNCHANGED todo
           \/ /\ c.device = None
              /\ goto(p, "xlock")
              /\ todo' = [todo EXCEPT ![p] = <<DeviceSave>>]
        /\ UNCHANGED <<disk, ring, provider, late, cmd, buf, out, last, fellBack>>

load(p) == \E answers \in BOOLEAN : loadAs(p, answers)

\* The command's own body.  runSignup refuses when the settings loaded at the
\* start hold a token.
run(p) ==
    /\ pc[p] = "ready"
    /\ \/ /\ cmd[p].kind = "signup" /\ cfg[p].token # None
          /\ ends(p, "refused")
          /\ UNCHANGED todo
       \/ /\ cmd[p].kind = "load"
          /\ ends(p, "ok")
          /\ UNCHANGED todo
       \/ /\ cmd[p].kind = "save" \/ (cmd[p].kind = "signup" /\ cfg[p].token = None)
          /\ goto(p, "xlock")
          /\ todo' = [todo EXCEPT ![p] = cmd[p].saves]
          /\ UNCHANGED out
    /\ UNCHANGED <<disk, ring, provider, late, shared, excl, cmd, cfg, buf, last, fellBack>>

-----------------------------------------------------------------------------
(* saveToFull, one save at a time.                                         *)

\* Fault: a writer that does not wait for the readers.
XLockPastReaders(p) ==
    /\ pc[p] = "xlock"
    /\ excl[target(p)] = None
    /\ excl' = [excl EXCEPT ![target(p)] = p]
    /\ goto(p, "modify")
    /\ UNCHANGED <<disk, ring, provider, late, shared, cmd, cfg, todo, buf, out, last, fellBack>>

XLock(p) ==
    /\ pc[p] = "xlock"
    /\ shared[target(p)] = {} /\ excl[target(p)] = None
    /\ excl' = [excl EXCEPT ![target(p)] = p]
    /\ goto(p, "modify")
    /\ UNCHANGED <<disk, ring, provider, late, shared, cmd, cfg, todo, buf, out, last, fellBack>>

isSecure(p) == cmd[p].secure /\ Head(todo[p]).op \in TokenOps

\* Fault: the setter changes the settings its process loaded at the start.
modifyLoaded(p) ==
    /\ pc[p] = "modify"
    /\ buf' = [buf EXCEPT ![p] = Register!Apply(p, Head(todo[p]), cfg[p])]
    /\ goto(p, IF isSecure(p) THEN "keyring" ELSE "truncate")
    /\ UNCHANGED <<disk, ring, provider, late, shared, excl, cmd, cfg, todo, out, last, fellBack>>

modify(p) ==
    /\ pc[p] = "modify"
    /\ buf' = [buf EXCEPT ![p] = Register!Apply(p, Head(todo[p]), disk[target(p)])]
    /\ goto(p, IF isSecure(p) THEN "keyring" ELSE "truncate")
    /\ UNCHANGED <<disk, ring, provider, late, shared, excl, cmd, cfg, todo, out, last, fellBack>>

\* Fault: the entry is filed under the host the process started with.
ringKeyLoaded(p) == EffectiveHost(cfg[p])

\* storeToken and deleteToken file the entry under the host being saved.
ringKey(p) == EffectiveHost(buf[p])

\* An empty token is a delete, and deleting what is not there is an error.
keyringFinds(p) == buf[p].token # None \/ ring[ringKey(p)] # None

\* Fault: the token is written to the file as well.
keyringOkAndFile(p) ==
    /\ provider /\ keyringFinds(p)
    /\ ring' = [ring EXCEPT ![ringKey(p)] = buf[p].token]
    /\ out' = [out EXCEPT ![p].storage = "keyring"]
    /\ goto(p, "truncate")
    /\ UNCHANGED <<late, shared, excl, todo, buf>>

\* Done by the keyring: the token stays out of the file.
keyringOk(p) ==
    /\ provider /\ keyringFinds(p)
    /\ ring' = [ring EXCEPT ![ringKey(p)] = buf[p].token]
    /\ buf' = [buf EXCEPT ![p].token = None]
    /\ out' = [out EXCEPT ![p].storage = "keyring"]
    /\ goto(p, "truncate")
    /\ UNCHANGED <<late, shared, excl, todo>>

\* Fault: the fallback leaves the token out of the file, as if it had been kept.
keyringUnavailableDrops(p) ==
    /\ ~provider
    /\ out' = [out EXCEPT ![p].storage = "file"]
    /\ buf' = [buf EXCEPT ![p].token = None]
    /\ goto(p, "truncate")
    /\ UNCHANGED <<ring, late, shared, excl, todo>>

\* ErrUnavailable: fall back to the file, and say so.
keyringUnavailable(p) ==
    /\ ~provider
    /\ out' = [out EXCEPT ![p].storage = "file"]
    /\ goto(p, "truncate")
    /\ UNCHANGED <<ring, late, shared, excl, todo, buf>>

\* Any other error: nothing is written.
keyringFails(p) ==
    /\ provider
    /\ ~keyringFinds(p) \/ "locked" \in Faults
    /\ fail(p)
    /\ UNCHANGED <<ring, late, buf>>

\* keyring.timeout or an interrupt: the command gives up, but the operation is
\* on a goroutine of its own, and may be with the provider already.
keyringTimesOut(p) ==
    /\ "timeout" \in Faults
    /\ late' = late \cup {[host |-> ringKey(p), token |-> buf[p].token]}
    /\ fail(p)
    /\ UNCHANGED <<ring, buf>>

useKeyring(p) ==
    /\ pc[p] = "keyring"
    /\ keyringOk(p) \/ keyringUnavailable(p) \/ keyringFails(p) \/ keyringTimesOut(p)
    /\ UNCHANGED <<disk, provider, cmd, cfg, last, fellBack>>

\* os.WriteFile truncates the file, then fills it.
truncate(p) ==
    /\ pc[p] = "truncate"
    /\ disk' = [disk EXCEPT ![target(p)] = Empty]
    /\ goto(p, "flush")
    /\ UNCHANGED <<ring, provider, late, shared, excl, cmd, cfg, todo, buf, out, last, fellBack>>

flush(p) ==
    LET s == Head(todo[p])
    IN  /\ pc[p] = "flush"
        /\ disk' = [disk EXCEPT ![target(p)] = buf[p]]
        /\ release(p)
        /\ todo' = [todo EXCEPT ![p] = Tail(@)]
        /\ last' = [last EXCEPT ![target(p)] = IF s.op \in TokenOps THEN s.token ELSE @]
        /\ fellBack' = [fellBack EXCEPT ![target(p)] =
                           IF s.op \in TokenOps THEN out[p].storage = "file" ELSE @]
        /\ \/ /\ s.op = "device"
              /\ cfg' = [cfg EXCEPT ![p].device = buf[p].device]
              /\ goto(p, "ready")
              /\ UNCHANGED out
           \/ /\ s.op # "device" /\ Len(todo[p]) > 1
              /\ goto(p, "xlock")
              /\ UNCHANGED <<cfg, out>>
           \/ /\ s.op # "device" /\ Len(todo[p]) = 1
              /\ ends(p, "ok")
              /\ UNCHANGED cfg
        /\ UNCHANGED <<ring, provider, late, cmd, buf>>

-----------------------------------------------------------------------------
(* The environment.                                                        *)

\* The disk is full, or the process dies, with the file truncated.
tornWrite(p) ==
    /\ pc[p] = "flush" /\ CanTear
    /\ release(p)
    /\ todo' = [todo EXCEPT ![p] = <<>>]
    /\ \/ ends(p, "failed")
       \/ goto(p, "crashed") /\ UNCHANGED out
    /\ UNCHANGED <<disk, ring, provider, late, cmd, cfg, buf, last, fellBack>>

Crash(p) ==
    /\ "crash" \in Faults
    /\ pc[p] \in States \ {"idle", "flush", "done", "crashed"}
    /\ goto(p, "crashed")
    /\ todo' = [todo EXCEPT ![p] = <<>>]
    /\ release(p)
    /\ UNCHANGED <<disk, ring, provider, late, cmd, cfg, buf, out, last, fellBack>>

\* The context ends while a lock is being waited for.
Interrupt(p) ==
    /\ "timeout" \in Faults
    /\ pc[p] \in {"rlock", "xlock"}
    /\ fail(p)
    /\ UNCHANGED <<disk, ring, provider, late, cmd, cfg, buf, last, fellBack>>

ProviderChanges ==
    /\ "absent" \in Faults
    /\ provider' = ~provider
    /\ UNCHANGED <<disk, ring, late, shared, excl, pc, cmd, cfg, todo, buf, out, last, fellBack>>

LateEffect(l) ==
    /\ ring' = [ring EXCEPT ![l.host] = l.token]
    /\ late' = late \ {l}
    /\ UNCHANGED <<disk, provider, shared, excl, pc, cmd, cfg, todo, buf, out, last, fellBack>>

Finished == (\A p \in Procs : pc[p] \in {"done", "crashed"}) /\ UNCHANGED vars

step(p) ==
    \/ Start(p) \/ RLock(p) \/ load(p) \/ run(p) \/ XLock(p) \/ modify(p)
    \/ useKeyring(p) \/ truncate(p) \/ flush(p)

Next ==
    \/ \E p \in Procs : step(p) \/ tornWrite(p) \/ Crash(p) \/ Interrupt(p)
    \/ ProviderChanges
    \/ \E l \in late : LateEffect(l)
    \/ Finished

\* A process that can take its next step takes it: the locks are retried every
\* second until they are had.
Spec == Init /\ [][Next]_vars /\ \A p \in Procs : WF_vars(step(p))

-----------------------------------------------------------------------------
(* Properties.                                                             *)

\* Between taking the exclusive lock and giving it up a writer is alone with its
\* file, so no load ever reads the truncated file and no two saves overlap.
WritersAlone ==
    \A p, q \in Procs :
        p # q /\ pc[q] \in {"modify", "keyring", "truncate", "flush"} =>
            /\ ~(pc[p] = "read" /\ cmd[p].path = target(q))
            /\ ~(pc[p] \in {"modify", "keyring", "truncate", "flush"} /\ target(p) = target(q))

\* Processes started at the same time on a file without a device ID all end up
\* with the same one, although Load drops its lock before ensureDeviceID takes it.
DeviceIDAgreement ==
    \A p, q \in Procs :
        cmd[p].path = cmd[q].path /\ cfg[p].device # None /\ cfg[q].device # None
            => cfg[p].device = cfg[q].device

\* The files are atomic registers: no save is lost to, or mixed with, another.
ImplementsRegister == Register!Spec

\* SetLogin saves a token with the host that issued it; and a command that saves one
\* saves it last.
FiledTogether ==
    /\ \A c \in Commands : \A i \in DOMAIN c.saves :
          c.saves[i].token # None => c.saves[i].host = HostOf[c.saves[i].token]
    /\ \A r \in Rings : \A h \in Hosts : r[h] # None => HostOf[r[h]] = h
TokenLast ==
    \A c \in Commands : \A i \in DOMAIN c.saves : c.saves[i].op \in TokenOps => i = Len(c.saves)

\* One file, one host, and a keyring that is meant to hold every token, but may
\* refuse, stop and start.
Calm ==
    /\ Faults \subseteq {"locked", "absent"} /\ Paths = {DefaultPath}
    /\ \A c \in Commands : \A i \in DOMAIN c.saves :
          /\ c.saves[i].host \in {None, DefaultHost}
          /\ c.saves[i].op \in TokenOps => c.secure
    /\ \A s \in Stored : \A r \in Rings :
          /\ s[DefaultPath].host \in {None, DefaultHost}
          /\ r[DefaultHost] # None => s[DefaultPath].token \in {None, r[DefaultHost]}

\* Whatever order hosts are switched and logins finish in, the keyring files a
\* token under the host that issued it (SetLogin saves both at once; for the
\* commands that do so).
KeyringFiledUnderHost == \A h \in Hosts : ring[h] # None => HostOf[ring[h]] = h

\* A command that reports the keyring as the storage leaves no token in the file
\* it wrote, even one an earlier fallback left there.
KeyringMeansNoPlaintext ==
    [][\A p \in Procs :
           pc[p] = "flush" /\ out'[p].status = "ok" /\ out'[p].storage = "keyring"
               => disk'[target(p)].token = None]_vars

\* What a load that has just been made found, beside what it should have.
findsSaved(p, answers) ==
    LET f     == cmd[p].path
        found == cfg'[p].token
        kept  == ring[EffectiveHost(disk[f])]
    IN  \/ found = last[f]
        \/ answers /\ fellBack[f] /\ kept # None /\ found = kept
        \/ ~answers /\ found = None /\ kept = last[f]

\* "The token is saved ... and used automatically by all subsequent CLI commands"
\* (cmdauth/login.go:74).  What a load finds is the token of the last successful
\* save, with two exceptions.  A save that had to fall back to the file, as it
\* reported, may be shadowed by an older entry once the keyring is back; and
\* without an answer from the keyring a load finds nothing, but only where the
\* keyring does hold the token.  So a save the keyring took is never lost, and one
\* it refused, or one by a process that started earlier, never undoes it.
SavedTokenIsUsed ==
    [][\A p \in Procs, answers \in BOOLEAN : loadAs(p, answers) => findsSaved(p, answers)]_vars

\* Every command ends, whoever fails or dies holding a lock.
CommandsEnd == \A p \in Procs : <>(pc[p] \in {"done", "crashed"})

\* Logout, done, on a machine where nothing failed.
loggedOut(p) == pc[p] = "done" /\ \E i \in DOMAIN cmd[p].saves : cmd[p].saves[i].op = "logout"

\* Logout removes the token "from the system keyring or from the YAML config file
\* depending on where it was saved" (cmdauth/logout.go:44).
LogoutRemovesToken ==
    \A p \in Procs : loggedOut(p) => Found(cmd[p].secure, disk[cmd[p].path]) = None
=============================================================================
