-------------------------- MODULE SettingsRegister --------------------------
(***************************************************************************)
(* What the settings store promises (internal/config): every config file   *)
(* behaves as one register, and every save is a single indivisible         *)
(* read-modify-write of it, however many CLI processes run at once.        *)
(***************************************************************************)
EXTENDS Integers

CONSTANTS
    Procs,        \* CLI processes; a process's name doubles as the device ID it draws
    Paths,        \* config files
    Hosts,        \* CircleCI hosts
    Tokens,       \* API tokens; a token also stands for the account it belongs to
    Prefs,        \* values of a preference (theme, telemetry, update check)
    None,         \* an absent setting
    CanTear       \* whether a write may be cut short by a crash or a full disk

Content == [token: Tokens \cup {None}, host: Hosts \cup {None},
            device: Procs \cup {None}, user: Tokens \cup {None},
            pref: Prefs \cup {None}]

Empty == [token |-> None, host |-> None, device |-> None, user |-> None, pref |-> None]

\* A save: which setter, and its arguments, None where it takes none.  An empty
\* token is a deletion (DeleteToken).
Save == [op: {"login"}, host: Hosts, token: Tokens, pref: {None}]
   \cup [op: {"token"}, host: {None}, token: Tokens \cup {None}, pref: {None}]
   \cup [op: {"host"}, host: Hosts, token: {None}, pref: {None}]
   \cup [op: {"pref"}, host: {None}, token: {None}, pref: Prefs]
   \cup [op: {"logout", "unpref", "device"}, host: {None}, token: {None}, pref: {None}]

\* The setters that go through saveToIncludingToken.
TokenOps == {"login", "logout", "token"}

\* Fault: the device ID is drawn without looking again under the lock.
DeviceForUnchecked(p, old) == p

\* ensureDeviceID's callback: the ID drawn by whoever got here first.
DeviceFor(p, old) == IF old = None THEN p ELSE old

\* The callback of each setter, run by process p on the settings c.
Apply(p, s, c) ==
    CASE s.op = "login"  -> [c EXCEPT !.host = s.host, !.token = s.token, !.user = s.token]
      [] s.op = "logout" -> [c EXCEPT !.token = None, !.user = None]
      [] s.op = "token"  -> [c EXCEPT !.token = s.token]
      [] s.op = "host"   -> [c EXCEPT !.host = s.host]
      [] s.op = "pref"   -> [c EXCEPT !.pref = s.pref]
      [] s.op = "unpref" -> [c EXCEPT !.pref = None]
      [] s.op = "device" -> [c EXCEPT !.device = DeviceFor(p, @)]

\* What a save may leave in the file: the token goes with it or, once it is in
\* the keyring, is kept out.
Saved(p, s, c) ==
    {Apply(p, s, c)} \cup
    (IF s.op \in TokenOps THEN {[Apply(p, s, c) EXCEPT !.token = None]} ELSE {})

VARIABLE reg

Init == reg \in [Paths -> Content]

Update(path, p, s) == \E c \in Saved(p, s, reg[path]) : reg' = [reg EXCEPT ![path] = c]

\* A torn write loses the whole file: an empty file reads as no settings.
Wipe(path) == CanTear /\ reg' = [reg EXCEPT ![path] = Empty]

Next == \E path \in Paths :
            \/ \E p \in Procs, s \in Save : Update(path, p, s)
            \/ Wipe(path)

Spec == Init /\ [][Next]_reg

\* Once a file has a device ID it keeps it.
DeviceIsStable ==
    [][\A path \in Paths :
           ~CanTear /\ reg[path].device # None => reg'[path].device = reg[path].device]_reg
=============================================================================
